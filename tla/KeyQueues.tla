------------------------------- MODULE KeyQueues -------------------------------
(***************************************************************************)
(* The per-hashKey scheduler of the producer (ve_tls_producer_queue.c) and *)
(* the sender threads that drive it (ve_tls_sender_main).                  *)
(*                                                                         *)
(* Every hashKey has a queue of send tasks.  A queue with tasks is in the  *)
(* ready list (a FIFO), in the delayed list (a key breaker or a key rate   *)
(* limit holds it back) or in flight (one sender owns it).  A queue that   *)
(* a sender leaves empty is parked in the idle list, or freed at once when *)
(* no idle time is configured.  producer->mutex protects all of it; one    *)
(* critical section of the code is one action here.                        *)
(*                                                                         *)
(* Time is relative: a deadline of the code is kept as the time left to    *)
(* it, and Tick lets time pass for all of them together.                   *)
(***************************************************************************)
EXTENDS Naturals, Sequences, FiniteSets

CONSTANTS
  Keys,           \* normalised hash keys
  Tasks,          \* send tasks: a task is one batch of logs of one key
  KeyOf,          \* the key of each task
  Senders,        \* sender threads
  None,           \* no key, no task
  MaxActive,      \* key_queue_max_active, 0 is no limit
  IdleTtl,        \* key_queue_idle_ttl_ms, 0 frees an empty queue at once
  FailThreshold,  \* key_breaker_fail_threshold, 0 is no key breaker
  OpenMs,         \* key_breaker_open_ms
  RateDelay,      \* longest wait of the key rate limit, 0 is no key rate limit
  MaxAttempts     \* retry_policy.max_attempts

ASSUME KeyQueuesAssumption ==
  /\ None \notin Keys \cup Tasks
  /\ IsFiniteSet(Keys)
  /\ KeyOf \in [Tasks -> Keys]
  /\ {MaxActive, IdleTtl, FailThreshold, RateDelay} \subseteq Nat
  /\ {OpenMs, MaxAttempts} \subseteq Nat \ {0}

VARIABLES
  active,     \* keys that have a queue in key_buckets
  tasks,      \* q->q, the tasks of each queue in order
  ready,      \* the ready list
  delayed,    \* the queues in the delayed list
  delay,      \* q->next_ready_ms, as the time left
  idle,       \* the queues in the idle list
  age,        \* time since q->empty_since_ms, up to IdleTtl
  inflight,   \* the queues with q->inflight set
  fails,      \* q->breaker_consecutive_failures, up to FailThreshold
  open,       \* q->breaker_open_until_ms, as the time left
  sendq,      \* the send queue between the workers and the senders
  stop,       \* producer->stop
  sqStop,     \* send_queue.stop
  pc,         \* where each sender is
  kq,         \* the key queue a sender owns
  task,       \* the task a sender holds
  attempt,    \* the attempt counter of the sender's retry loop
  pushed,     \* history: the tasks given to each key queue, in order
  finished,   \* history: the tasks each key completed, in order
  callbacks,  \* history: how often the send_done callback ran for a task
  tries,      \* history: requests made for a task, up to MaxAttempts + 1
  cool        \* history: time left of the open period a key breaker began

listVars == <<active, tasks, ready, delayed, delay, idle, age, inflight>>
breakerVars == <<fails, open>>
senderVars == <<pc, kq, task, attempt>>
historyVars == <<pushed, finished, callbacks, tries, cool>>
vars == <<listVars, breakerVars, sendq, stop, sqStop, senderVars, historyVars>>

Elems(s) == {s[i] : i \in DOMAIN s}
AtMost(n, bound) == IF n < bound THEN n ELSE bound
Down(n) == IF n > 0 THEN n - 1 ELSE 0
MaxDelay == IF OpenMs < RateDelay THEN RateDelay ELSE OpenMs

\* Where a sender can be: at the head of its loop, in a wait for or a poll of
\* the send queue, about to hand over the task it got from there, at the stop
\* check after the send queue gave nothing, at the second poll of that check
\* with tasks pending or not, at the idle cleanup, at the key gate, in a
\* request, at the end of a task, or gone.
Places == {"loop", "wait", "poll", "push", "check", "tail", "last", "sweep",
           "gate", "send", "finish", "exited"}
Owning == {"gate", "send", "finish"}

Init ==
  /\ active = {} /\ delayed = {} /\ idle = {} /\ inflight = {}
  /\ ready = <<>> /\ sendq = <<>>
  /\ tasks = [k \in Keys |-> <<>>]
  /\ delay = [k \in Keys |-> 0]
  /\ age = [k \in Keys |-> 0]
  /\ fails = [k \in Keys |-> 0]
  /\ open = [k \in Keys |-> 0]
  /\ stop = FALSE /\ sqStop = FALSE
  /\ pc = [s \in Senders |-> "loop"]
  /\ kq = [s \in Senders |-> None]
  /\ task = [s \in Senders |-> None]
  /\ attempt = [s \in Senders |-> 0]
  /\ pushed = [k \in Keys |-> <<>>]
  /\ finished = [k \in Keys |-> <<>>]
  /\ callbacks = [t \in Tasks |-> 0]
  /\ tries = [t \in Tasks |-> 0]
  /\ cool = [k \in Keys |-> 0]

-----------------------------------------------------------------------------
(* The operations of ve_tls_producer_queue.c.                              *)

\* ve_tls_key_queue_get_or_create finds the queue, or may create one.
CanGet(k) == k \in active \/ MaxActive = 0 \/ Cardinality(active) < MaxActive

\* Finding a queue takes it off the idle list.  A new queue is zeroed: the
\* fields of a key without a queue have their initial values.
GetOrCreate(k) ==
  /\ active' = active \cup {k}
  /\ idle' = idle \ {k}

\* ve_tls_key_queue_remove_and_free, for the queues in K.  They have no
\* tasks and are in neither the ready nor the delayed list (Placement), so
\* taking them off those lists changes nothing.
RemoveAndFree(K) ==
  /\ active' = active \ K
  /\ idle' = idle \ K
  /\ age' = [k \in Keys |-> IF k \in K THEN 0 ELSE age[k]]
  /\ fails' = [k \in Keys |-> IF k \in K THEN 0 ELSE fails[k]]
  /\ open' = [k \in Keys |-> IF k \in K THEN 0 ELSE open[k]]

\* Mutants of ReadyAdd: without the flag checks of ve_tls_ready_add, and called
\* by ve_tls_key_queue_finish before it clears the inflight flag.
ReadyAddUnchecked(k) == ready' = Append(ready, k)
ReadyAddEarly(k) ==
  ready' = IF k \in Elems(ready) \cup delayed' \cup inflight \/ tasks'[k] = <<>>
           THEN ready ELSE Append(ready, k)

\* ve_tls_ready_add, after the caller's own updates: only a queue that has
\* tasks and is in no other place is added.
ReadyAdd(k) ==
  ready' = IF k \in Elems(ready) \cup delayed' \cup inflight' \/ tasks'[k] = <<>>
           THEN ready ELSE Append(ready, k)

\* ve_tls_delayed_promote_due: the queues whose time has come move to the
\* ready list, in the order of their deadlines (those have all passed).
Due == {k \in delayed : delay[k] = 0}
Promoted ==
  LET S == {k \in Due : k \notin inflight /\ tasks[k] # <<>>}
  IN  {p \in [1..Cardinality(S) -> S] :
         Elems(p) = S /\ \A i, j \in DOMAIN p : p[i] = p[j] => i = j}

\* ve_tls_delayed_add_sorted.  The sorted list is kept as a set with the
\* time left; the queue was in flight and is on no list.
DelayedAdd(k, ms) ==
  /\ delayed' = delayed \cup {k}
  /\ delay' = [delay EXCEPT ![k] = ms]

\* ve_tls_idle_add: an empty queue is parked.
IdleAdd(k) ==
  /\ idle' = idle \cup {k}
  /\ age' = [age EXCEPT ![k] = 0]

\* ve_tls_idle_cleanup: the queues that were parked for the idle time go.
IdleCleanup ==
  /\ IdleTtl > 0
  /\ RemoveAndFree({k \in idle : tasks[k] = <<>> /\ k \notin inflight /\ age[k] >= IdleTtl})

\* Mutant of PopTask: the task is read and not taken off.
PeekTask(k) == tasks' = tasks

\* ve_tls_key_queue_pop_task, for a queue with tasks.
PopTask(k) == tasks' = [tasks EXCEPT ![k] = Tail(@)]

\* Mutant of PushFront: the task goes to the end of its queue.
PushBack(k, t) == tasks' = [tasks EXCEPT ![k] = Append(@, t)]

\* ve_tls_key_queue_push_front.
PushFront(k, t) == tasks' = [tasks EXCEPT ![k] = <<t>> \o @]

\* Mutant of KeyBreakerDelay: an open key breaker denies nothing.
NoBreakerDelay(k) == 0

\* ve_tls_key_breaker_allow: the time for which the key breaker denies.
KeyBreakerDelay(k) == IF FailThreshold > 0 THEN open[k] ELSE 0

\* ve_tls_key_breaker_on_final_result.
KeyBreakerResult(k, ok) ==
  LET f == AtMost(fails[k] + 1, FailThreshold)
      trip == ~ok /\ FailThreshold > 0 /\ f >= FailThreshold
      period(ms) == IF trip THEN OpenMs ELSE IF ok THEN 0 ELSE ms
  IN
  /\ fails' = [fails EXCEPT ![k] = IF ok THEN 0 ELSE f]
  /\ open' = [open EXCEPT ![k] = period(@)]
  /\ cool' = [cool EXCEPT ![k] = period(@)]

\* ve_tls_key_rate_limit_reserve: the times for which the key rate limit may
\* deny.  The token buckets are left out, as they depend on the sizes of the
\* requests and on the clock.
RateDelays == 0..RateDelay

\* The retry policy leaves the sender another attempt.
AttemptsLeft(s) == attempt[s] < MaxAttempts

\* ve_tls_key_queue_reserve, a worker's call before it uses the send queue:
\* the key gets its queue now, so that the limit is met here.
Reserve(k) ==
  /\ CanGet(k)
  /\ GetOrCreate(k)
  /\ UNCHANGED <<tasks, ready, delayed, delay, age, inflight, breakerVars,
                 sendq, stop, sqStop, senderVars, historyVars>>

\* A worker puts a task in the send queue.
Inbound(t) ==
  /\ ~sqStop
  /\ sendq' = Append(sendq, t)
  /\ UNCHANGED <<listVars, breakerVars, stop, sqStop, senderVars, historyVars>>

\* The task of a key that cannot get a queue, or that finds no room on its
\* way to the senders, is dropped: the callback says so.
DropTask(t) ==
  /\ callbacks' = [callbacks EXCEPT ![t] = @ + 1]
  /\ UNCHANGED <<listVars, breakerVars, sendq, stop, sqStop, senderVars,
                 pushed, finished, tries, cool>>

-----------------------------------------------------------------------------
(* The sender threads.                                                     *)

\* The head of the loop: promote the due queues, take the first ready queue
\* and its first task.  With nothing ready the sender turns to the send
\* queue, and waits there only when nothing is delayed.
Take(s) ==
  /\ pc[s] = "loop"
  /\ delayed' = delayed \ Due
  /\ \E p \in Promoted :
       LET r == ready \o p IN
       \/ /\ r # <<>>
          /\ ready' = Tail(r)
          /\ inflight' = inflight \cup {Head(r)}
          /\ kq' = [kq EXCEPT ![s] = Head(r)]
          /\ task' = [task EXCEPT ![s] = Head(tasks[Head(r)])]
          /\ PopTask(Head(r))
          /\ attempt' = [attempt EXCEPT ![s] = 0]
          /\ pc' = [pc EXCEPT ![s] = "gate"]
       \/ /\ r = <<>>
          /\ pc' = [pc EXCEPT ![s] = IF delayed' = {} /\ ~stop THEN "wait" ELSE "poll"]
          /\ UNCHANGED <<ready, inflight, kq, task, tasks, attempt>>
  /\ UNCHANGED <<active, delay, idle, age, breakerVars, sendq, stop, sqStop,
                 historyVars>>

\* ve_tls_sender_pop_send_queue_task with a task in the send queue.
PopInbound(s) ==
  /\ pc[s] \in {"wait", "poll", "tail", "last"}
  /\ sendq # <<>>
  /\ task' = [task EXCEPT ![s] = Head(sendq)]
  /\ sendq' = Tail(sendq)
  /\ pc' = [pc EXCEPT ![s] = "push"]
  /\ UNCHANGED <<listVars, breakerVars, stop, sqStop, kq, attempt, historyVars>>

\* ... and without one: a poll gives up at once, a wait when the queue stops.
\* At the second poll of the stop check a sender with nothing pending ends.
PopNothing(s) ==
  /\ sendq = <<>>
  /\ \/ /\ pc[s] = "poll" \/ (pc[s] = "wait" /\ sqStop)
        /\ pc' = [pc EXCEPT ![s] = "check"]
     \/ /\ pc[s] = "tail"
        /\ pc' = [pc EXCEPT ![s] = "sweep"]
     \/ /\ pc[s] = "last"
        /\ pc' = [pc EXCEPT ![s] = "exited"]
  /\ UNCHANGED <<listVars, breakerVars, sendq, stop, sqStop, kq, task, attempt,
                 historyVars>>

\* ve_tls_key_queue_push_task: the task joins its key queue; at the key limit
\* it is dropped with a callback.
PushTask(s) ==
  LET t == task[s]
      k == KeyOf[t]
  IN
  /\ pc[s] = "push"
  /\ \/ /\ CanGet(k)
        /\ GetOrCreate(k)
        /\ tasks' = [tasks EXCEPT ![k] = Append(@, t)]
        /\ UNCHANGED <<delayed, inflight, callbacks>>
        /\ IF tasks[k] = <<>> THEN ReadyAdd(k) ELSE UNCHANGED ready
        /\ pushed' = [pushed EXCEPT ![k] = Append(@, t)]
     \/ /\ ~CanGet(k)
        /\ callbacks' = [callbacks EXCEPT ![t] = @ + 1]
        /\ UNCHANGED <<active, idle, tasks, ready, delayed, inflight, pushed>>
  /\ pc' = [pc EXCEPT ![s] = "loop"]
  /\ task' = [task EXCEPT ![s] = None]
  /\ UNCHANGED <<delay, age, breakerVars, sendq, stop, sqStop, kq, attempt,
                 finished, tries, cool>>

\* Mutant of Pending: the tasks that wait in a queue are not looked at.
PendingInflight == \E k \in active : k \in inflight

\* The stop check looks for work that is left anywhere in the key queues.
Pending == \E k \in active : tasks[k] # <<>> \/ k \in inflight

CheckStop(s) ==
  /\ pc[s] = "check" /\ stop /\ ready = <<>>
  /\ pc' = [pc EXCEPT ![s] = IF Pending THEN "tail" ELSE "last"]
  /\ UNCHANGED <<listVars, breakerVars, sendq, stop, sqStop, kq, task, attempt,
                 historyVars>>

\* ve_tls_idle_cleanup, run at most once a second, and then a wait for the
\* next delayed queue (at most 100 ms in a stop) or none at all.
Sweep(s) ==
  /\ pc[s] = "sweep" \/ (pc[s] = "check" /\ ~(stop /\ ready = <<>>))
  /\ pc' = [pc EXCEPT ![s] = "loop"]
  /\ \/ IdleCleanup
     \/ UNCHANGED <<active, idle, age, breakerVars>>
  /\ UNCHANGED <<tasks, ready, delayed, delay, inflight, sendq, stop, sqStop,
                 kq, task, attempt, historyVars>>

\* A task without a usable payload is dropped before the retry loop.
InvalidPayload(s) ==
  /\ pc[s] = "gate" /\ attempt[s] = 0
  /\ pc' = [pc EXCEPT ![s] = "finish"]
  /\ callbacks' = [callbacks EXCEPT ![task[s]] = @ + 1]
  /\ finished' = [finished EXCEPT ![kq[s]] = Append(@, task[s])]
  /\ task' = [task EXCEPT ![s] = None]
  /\ UNCHANGED <<listVars, breakerVars, sendq, stop, sqStop, kq, attempt,
                 pushed, tries, cool>>

\* The head of the retry loop: the key breaker and the key rate limit.
\* Denied, the task goes back to the front of its queue, the queue to the
\* delayed list, and the sender starts over with another queue.
GateDenied(s) ==
  LET k == kq[s]
      bk == KeyBreakerDelay(k)
  IN
  /\ pc[s] = "gate"
  /\ \E rl \in RateDelays :
       LET ms == IF bk < rl THEN rl ELSE bk IN
       /\ ms > 0
       /\ DelayedAdd(k, ms)
  /\ PushFront(k, task[s])
  /\ inflight' = inflight \ {k}
  /\ pc' = [pc EXCEPT ![s] = "loop"]
  /\ kq' = [kq EXCEPT ![s] = None]
  /\ task' = [task EXCEPT ![s] = None]
  /\ UNCHANGED <<active, ready, idle, age, breakerVars, sendq, stop, sqStop,
                 attempt, historyVars>>

\* Allowed, the sender makes one more request for the task.
GateAllowed(s) ==
  /\ pc[s] = "gate"
  /\ KeyBreakerDelay(kq[s]) = 0
  /\ pc' = [pc EXCEPT ![s] = "send"]
  /\ attempt' = [attempt EXCEPT ![s] = @ + 1]
  /\ tries' = [tries EXCEPT ![task[s]] = AtMost(@ + 1, MaxAttempts + 1)]
  /\ UNCHANGED <<listVars, breakerVars, sendq, stop, sqStop, kq, task, pushed,
                 finished, callbacks, cool>>

\* The request failed with a retryable error; attempts and time are left.
Retry(s) ==
  /\ pc[s] = "send"
  /\ AttemptsLeft(s)
  /\ pc' = [pc EXCEPT ![s] = "gate"]
  /\ UNCHANGED <<listVars, breakerVars, sendq, stop, sqStop, kq, task, attempt,
                 historyVars>>

\* The retry loop ends: the callback runs and the key breaker is told
\* (ve_tls_key_breaker_on_final_result).
Complete(s, ok) ==
  /\ pc[s] = "send"
  /\ pc' = [pc EXCEPT ![s] = "finish"]
  /\ callbacks' = [callbacks EXCEPT ![task[s]] = @ + 1]
  /\ finished' = [finished EXCEPT ![kq[s]] = Append(@, task[s])]
  /\ KeyBreakerResult(kq[s], ok)
  /\ task' = [task EXCEPT ![s] = None]
  /\ UNCHANGED <<listVars, sendq, stop, sqStop, kq, attempt, pushed, tries>>

\* ve_tls_key_queue_finish gives the queue back.
Finish(s) ==
  LET k == kq[s] IN
  /\ pc[s] = "finish"
  /\ inflight' = inflight \ {k}
  /\ UNCHANGED tasks
  /\ \/ /\ tasks[k] # <<>>
        /\ \/ /\ KeyBreakerDelay(k) > 0
              /\ DelayedAdd(k, KeyBreakerDelay(k))
              /\ UNCHANGED ready
           \/ /\ KeyBreakerDelay(k) = 0
              /\ UNCHANGED <<delayed, delay>>
              /\ ReadyAdd(k)
        /\ UNCHANGED <<active, idle, age, breakerVars>>
     \/ /\ tasks[k] = <<>> /\ IdleTtl > 0
        /\ IdleAdd(k)
        /\ UNCHANGED <<active, ready, delayed, delay, breakerVars>>
     \/ /\ tasks[k] = <<>> /\ IdleTtl = 0
        /\ RemoveAndFree({k})
        /\ UNCHANGED <<ready, delayed, delay>>
  /\ pc' = [pc EXCEPT ![s] = "loop"]
  /\ kq' = [kq EXCEPT ![s] = None]
  /\ UNCHANGED <<sendq, stop, sqStop, task, attempt, historyVars>>

\* Time passes for every deadline.
Tick ==
  /\ delay' = [k \in Keys |-> Down(delay[k])]
  /\ open' = [k \in Keys |-> Down(open[k])]
  /\ cool' = [k \in Keys |-> Down(cool[k])]
  /\ age' = [k \in Keys |-> IF k \in idle THEN AtMost(age[k] + 1, IdleTtl) ELSE age[k]]
  /\ UNCHANGED <<active, tasks, ready, delayed, idle, inflight, fails, sendq,
                 stop, sqStop, senderVars, pushed, finished, callbacks, tries>>

\* close and destroy set producer->stop, and then stop the send queue.
Stop ==
  /\ ~stop
  /\ stop' = TRUE
  /\ UNCHANGED <<listVars, breakerVars, sendq, sqStop, senderVars, historyVars>>

StopSendQueue ==
  /\ stop /\ ~sqStop
  /\ sqStop' = TRUE
  /\ UNCHANGED <<listVars, breakerVars, sendq, stop, senderVars, historyVars>>

-----------------------------------------------------------------------------

SenderStep(s) ==
  \/ Take(s)
  \/ PopInbound(s)
  \/ PopNothing(s)
  \/ PushTask(s)
  \/ CheckStop(s)
  \/ Sweep(s)
  \/ InvalidPayload(s)
  \/ GateDenied(s)
  \/ GateAllowed(s)
  \/ Retry(s)
  \/ \E ok \in BOOLEAN : Complete(s, ok)
  \/ Finish(s)

\* A task the workers have not handed over yet.
Fresh(t) ==
  /\ callbacks[t] = 0
  /\ t \notin Elems(sendq) \cup Elems(pushed[KeyOf[t]])
  /\ \A s \in Senders : task[s] # t

Next ==
  \/ \E k \in Keys : Reserve(k)
  \/ \E t \in Tasks : Fresh(t) /\ Inbound(t)
  \/ \E t \in Tasks : Fresh(t) /\ DropTask(t)
  \/ \E s \in Senders : SenderStep(s)
  \/ Tick
  \/ Stop
  \/ StopSendQueue

Spec == Init /\ [][Next]_vars

-----------------------------------------------------------------------------
(* Properties.                                                             *)

ListTypes ==
  /\ active \subseteq Keys /\ delayed \subseteq Keys
  /\ idle \subseteq Keys /\ inflight \subseteq Keys
  /\ tasks \in [Keys -> Seq(Tasks)]
  /\ ready \in Seq(Keys) /\ sendq \in Seq(Tasks)
  /\ stop \in BOOLEAN /\ sqStop \in BOOLEAN

ClockTypes ==
  /\ delay \in [Keys -> 0..MaxDelay]
  /\ age \in [Keys -> 0..IdleTtl]
  /\ fails \in [Keys -> 0..FailThreshold]
  /\ open \in [Keys -> 0..OpenMs]

SenderTypes ==
  /\ pc \in [Senders -> Places]
  /\ kq \in [Senders -> Keys \cup {None}]
  /\ task \in [Senders -> Tasks \cup {None}]
  /\ attempt \in [Senders -> 0..MaxAttempts]

HistoryTypes ==
  /\ pushed \in [Keys -> Seq(Tasks)] /\ finished \in [Keys -> Seq(Tasks)]
  /\ callbacks \in [Tasks -> Nat]
  /\ tries \in [Tasks -> 0..(MaxAttempts + 1)]
  /\ cool \in [Keys -> 0..OpenMs]

\* The types of the variables.  The clocks stay within their bounds: no sender
\* delays a queue for longer than the configuration says.
TypeOK == ListTypes /\ ClockTypes /\ SenderTypes /\ HistoryTypes

\* A list holds a queue once.
NoRepeat(s) == \A i, j \in DOMAIN s : s[i] = s[j] => i = j

\* A key queue is in at most one of the ready, delayed and idle lists and in
\* flight, every queue in one of them exists, and no list holds a queue twice:
\* the intrusive links and the flags ready, delayed, idle and inflight agree.
Placement ==
  /\ Elems(ready) \cup delayed \cup idle \cup inflight \subseteq active
  /\ Elems(ready) \cap (delayed \cup idle \cup inflight) = {}
  /\ delayed \cap (idle \cup inflight) = {}
  /\ idle \cap inflight = {}
  /\ NoRepeat(ready)

\* A key queue with tasks is where a sender will find it: no sequence of push,
\* pop, requeue, promotion, finish and cleanup strands a task in a queue that
\* is on no list; and a queue on the ready list has a task to pop.
NoStrandedTask ==
  \A k \in Keys :
    /\ tasks[k] # <<>> => k \in Elems(ready) \cup delayed \cup inflight
    /\ k \in Elems(ready) \cup delayed => tasks[k] # <<>>

\* The inflight flag is a lock: the queues in flight are exactly those the
\* senders own, and no two senders own the same one.  In particular the queue
\* a sender keeps a pointer to, without the mutex, is not freed.
OneSenderPerKey ==
  /\ inflight = {kq[s] : s \in {u \in Senders : pc[u] \in Owning}}
  /\ \A s, u \in Senders :
       pc[s] \in Owning /\ pc[u] \in Owning /\ kq[s] = kq[u] => s = u

\* What a sender's place says about what it holds.
SenderOK ==
  \A s \in Senders :
    /\ pc[s] \in Owning => kq[s] \in Keys
    /\ pc[s] \in {"push", "gate", "send"} => task[s] \in Tasks
    /\ pc[s] = "gate" => attempt[s] < MaxAttempts

\* The inductive invariant behind the properties of the lists.
Inv == TypeOK /\ SenderOK /\ Placement /\ NoStrandedTask /\ OneSenderPerKey

\* The task in a sender's hands, as the sequence of the tasks it is ahead of.
Held(k) ==
  LET S == {s \in Senders : pc[s] \in {"gate", "send"} /\ kq[s] = k}
  IN  IF S = {} THEN <<>> ELSE <<task[CHOOSE s \in S : TRUE]>>

\* A key queue is a FIFO through requeues and retries: what it completed,
\* what is in flight and what it holds are, in this order, what it was given.
KeyFifo == \A k \in Keys : pushed[k] = finished[k] \o Held(k) \o tasks[k]

\* The send_done callback runs at most once for a task, and only for one that
\* has left every queue; and while no rate limit takes tasks out of their
\* retry loop, max_attempts bounds the requests made for each.
OneCallback ==
  \A t \in Tasks :
    /\ callbacks[t] \leq 1
    /\ RateDelay = 0 => tries[t] \leq MaxAttempts
    /\ callbacks[t] = 1 =>
         /\ t \notin Elems(sendq) \cup Elems(tasks[KeyOf[t]])
         /\ \A s \in Senders : task[s] # t

\* While a task is in a key queue or in flight some sender is at work: in a
\* stop the senders do not all leave on a check that has become stale.
SomeoneServes ==
  (\E k \in Keys : tasks[k] # <<>> \/ k \in inflight) =>
    \E s \in Senders : pc[s] \notin {"last", "exited"}

\* No request for a key is made before the open period that its breaker
\* began is over.
BreakerRespected ==
  [][\A s \in Senders : pc[s] = "gate" /\ pc'[s] = "send" => cool[kq[s]] = 0]_vars
=============================================================================

--------------------------------- MODULE Ingress ---------------------------------
(***************************************************************************)
(* The way of a log into the producer: the memory budget, thread-local     *)
(* batches, the ingress queue, the raw-item queue, builders, and the       *)
(* worker threads that empty them, with the one condition variable         *)
(* (producer->cond) on which writers wait for room and workers for work.   *)
(*                                                                         *)
(* Every action is one critical section under producer->mutex, or one step *)
(* between two of them.  A log has size 1, a batch is the set of its logs. *)
(* The senders are reduced to taking a task and finishing it (KeyQueues    *)
(* and Pipeline have them in full).  Allocation failures are left out.     *)
(***************************************************************************)
EXTENDS Budget, FiniteSets, SequencesExt

CONSTANTS
  Writers,     \* application threads
  Workers,     \* worker threads
  MaxLogs,     \* bound on the logs written
  Kinds,       \* the ways to write a log: "tls", "key", "raw"
  Flushes,     \* the values of the flush argument
  Policies,    \* the values of buffer_full_policy: TRUE for BLOCK, FALSE for DROP
  IngressCap,  \* ingress_queue_cap
  PackCount,   \* log_count_per_package
  Interval,    \* whether flush_interval_ms > 0
  Scratch,     \* scratch memory for a batch over its size, 0 without compression
  KeyLimit,    \* whether key_queue_max_active may refuse a key queue
  Breaker,     \* whether breaker_ingress_policy drops logs while the breaker is open
  Calls        \* the other calls the application makes

ASSUME IngressAssumption ==
  /\ IsFiniteSet(Writers) /\ IsFiniteSet(Workers) /\ Workers # {}
  /\ {MaxLogs, IngressCap, PackCount} \subseteq Nat \ {0}
  /\ Kinds \subseteq {"tls", "key", "raw"}
  /\ {Interval, KeyLimit, Breaker} \cup Flushes \cup Policies \subseteq BOOLEAN
  /\ Scratch \in Nat
  /\ Calls \subseteq {"close", "flush", "export", "import", "broken", "switch"}

VARIABLES
  tls,       \* g_tls_batch of each writer
  ingress,   \* the ingress queue
  items,     \* the queue of raw items
  builder,   \* the builders of the default key and of a hash key
  due,       \* the builders whose flush interval is over
  sealed,    \* the sealed list
  flush,     \* flush_requested
  pc, req,   \* where each writer is, and what it is writing
  wpc,       \* where each worker is
  wlist,     \* the sealed batches a worker has taken
  task,      \* the send task of each worker
  sendq,     \* the tasks in the send queue or a key queue
  inflight,  \* the tasks being sent
  waiting,   \* the threads that wait on producer->cond
  late,      \* the threads whose wait for room has reached its deadline
  block,     \* the buffer_full_policy of the configuration
  phase,     \* accepting, closing and stop
  next,      \* history: the next log
  answered,  \* history: the logs with a callback or an error code
  lost       \* history: accepted logs that the code drops without a word

writerVars == <<tls, pc, req>>
condVars == <<waiting, late>>
queueVars == <<ingress, items, builder, sealed, flush>>
workerVars == <<wpc, wlist, task>>
senderVars == <<sendq, inflight>>
historyVars == <<next, answered, lost>>
ingressVars ==
  <<budgetVars, writerVars, queueVars, workerVars, senderVars, condVars, due, block, phase, historyVars>>

Logs == 1..MaxLogs
Size(batch) == Cardinality(batch)

\* The sizes of the batches f[x] together: a log counts once for each of them.
Sizes(f) == Cardinality({p \in (DOMAIN f) \X Logs : p[2] \in f[p[1]]})

NoReq == [kind |-> "none", log |-> 0, force |-> FALSE]

IngressInit ==
  /\ BudgetInit
  /\ tls = [a \in Writers |-> {}]
  /\ pc = [a \in Writers |-> "idle"]
  /\ req = [a \in Writers |-> NoReq]
  /\ ingress = <<>> /\ items = <<>> /\ sealed = <<>>
  /\ builder = [k \in {"default", "key"} |-> {}]
  /\ flush = FALSE /\ due = {}
  /\ wpc = [w \in Workers |-> "loop"]
  /\ wlist = [w \in Workers |-> <<>>]
  /\ task = [w \in Workers |-> {}]
  /\ sendq = {} /\ inflight = {}
  /\ waiting = {} /\ late = {}
  /\ block \in Policies
  /\ phase = "open"
  /\ next = 1 /\ answered = {} /\ lost = {}

Accepting == phase = "open"
Stopped == phase \in {"stopped", "closed"}

\* The release of n bytes from a counter, which never goes below 0.
Less(counter, n) == IF counter >= n THEN counter - n ELSE 0

\* n signals on producer->cond: which waiting threads wake is not determined.
Wakes(waiters, n) ==
  {waiters \ S : S \in {T \in SUBSET waiters :
     \/ Cardinality(T) = n
     \/ Cardinality(T) < n /\ T = waiters}}
Signal(n) == waiting' \in Wakes(waiting, n)
Broadcast == waiting' = {}
NoSignal == UNCHANGED waiting

\* The interval of a builder starts anew with its first log.
KeepDue == due' = {k \in due : builder[k] \subseteq builder'[k]}

\* A batch is sealed on request or when it is full.
ShouldSeal(batch, force) == force \/ Size(batch) >= PackCount

-----------------------------------------------------------------------------
(* Waiting for room: ve_tls_wait_buffer_space_locked.                      *)

\* No room under BLOCK: ask the workers for a flush, signal one thread (the
\* caller does not wait yet), and wait, or fail if the deadline is over.
Sleep(th) ==
  /\ block
  /\ th \notin late
  /\ flush' = TRUE
  /\ waiting' \in {W \cup {th} : W \in Wakes(waiting, 1)}

\* No room and no more waiting: the policy is DROP or the deadline is over.
GiveUp(th) ==
  \/ /\ block /\ th \in late
     /\ flush' = TRUE
     /\ Signal(1)
  \/ ~block /\ UNCHANGED flush /\ NoSignal

\* The producer was closed in the meantime.
Closed == ~Accepting /\ UNCHANGED flush /\ NoSignal

-----------------------------------------------------------------------------
(* Writing a log.                                                          *)

\* The call comes to its end.
Return(a) ==
  /\ pc' = [pc EXCEPT ![a] = "idle"]
  /\ req' = [req EXCEPT ![a] = NoReq]
  /\ late' = late \ {a}

\* An application thread calls one of the add_log functions.
Write(a, kind, force) ==
  /\ pc[a] = "idle" /\ next <= MaxLogs
  /\ next' = next + 1
  /\ pc' = [pc EXCEPT ![a] = "space"]
  /\ req' = [req EXCEPT ![a] = [kind |-> kind, log |-> next, force |-> force]]
  /\ UNCHANGED <<due, block, budgetVars, tls, queueVars, workerVars, senderVars, condVars, phase,
                 answered, lost>>

\* ve_tls_ingress_breaker_drop_locked refuses the log before it asks for room.
CircuitOpen(a) ==
  /\ Breaker /\ Accepting
  /\ pc[a] = "idle" /\ next <= MaxLogs
  /\ next' = next + 1
  /\ answered' = answered \cup {next}
  /\ UNCHANGED <<due, block, budgetVars, writerVars, queueVars, workerVars, senderVars, condVars,
                 phase, lost>>

\* The room for the log is there.  A thread-local log is appended outside the
\* lock, a raw one is copied outside the lock, one with a hash key goes into
\* its builder at once.
Admit(a) ==
  LET r == req[a]
      b == builder["key"] \cup {r.log}
      full == ShouldSeal(b, r.force)
  IN
  \/ /\ r.kind = "tls"
     /\ tlsB' = tlsB + 1
     /\ pc' = [pc EXCEPT ![a] = "append"]
     /\ late' = late \ {a}
     /\ NoSignal
     /\ UNCHANGED <<queueB, builder, sealed, flush, req, answered>>
  \/ /\ r.kind = "raw"
     /\ queueB' = queueB + 1
     /\ pc' = [pc EXCEPT ![a] = "copy"]
     /\ late' = late \ {a}
     /\ NoSignal
     /\ UNCHANGED <<tlsB, builder, sealed, flush, req, answered>>
  \/ /\ r.kind = "key"
     /\ queueB' = queueB + 1
     /\ builder' = [builder EXCEPT !["key"] = IF full THEN {} ELSE b]
     /\ sealed' = IF full THEN Append(sealed, b) ELSE sealed
     /\ flush' = (flush \/ full)
     /\ IF full THEN Signal(1) ELSE NoSignal
     /\ Return(a)
     /\ UNCHANGED <<tlsB, answered>>
  \/ \* no key queue: the reservation is given back, the log has its callback
     /\ r.kind = "key" /\ KeyLimit /\ builder["key"] = {}
     /\ Broadcast
     /\ answered' = answered \cup {r.log}
     /\ Return(a)
     /\ UNCHANGED <<tlsB, queueB, builder, sealed, flush>>

\* The call fails and the log is not accepted.
Refuse(a) ==
  /\ answered' = answered \cup {req[a].log}
  /\ Return(a)
  /\ UNCHANGED <<tlsB, queueB, builder, sealed>>

WriteSpace(a) ==
  /\ pc[a] = "space" /\ a \notin waiting
  /\ \/ Closed /\ Refuse(a)
     \/ /\ Accepting
        /\ \/ HasSpaceForLog(1) /\ Admit(a)
           \/ ~HasSpaceForLog(1) /\ GiveUp(a) /\ Refuse(a)
           \/ /\ ~HasSpaceForLog(1) /\ Sleep(a)
              /\ UNCHANGED <<tlsB, queueB, builder, sealed, pc, req, late, answered>>
  /\ KeepDue
  /\ UNCHANGED <<block, ingressB, sendSide, imported, tls, ingress, items, workerVars, senderVars,
                 phase, next, lost>>

\* The raw log is copied: it is queued, if the producer still accepts logs.
\* Without a flush no worker is woken unless a threshold is reached.
RawCopied(a) ==
  LET r == req[a]
      q == Append(items, r.log)
      full == ShouldSeal(ToSet(q), r.force)
  IN
  /\ pc[a] = "copy"
  /\ Return(a)
  /\ \/ /\ ~Accepting
        /\ queueB' = Less(queueB, 1)
        /\ Broadcast
        /\ answered' = answered \cup {r.log}
        /\ UNCHANGED <<items, flush>>
     \/ /\ Accepting
        /\ items' = q
        /\ flush' = (flush \/ full)
        /\ IF full THEN Signal(1) ELSE NoSignal
        /\ UNCHANGED <<queueB, answered>>
  /\ UNCHANGED <<due, block, tlsB, ingressB, sendSide, imported, tls, ingress, builder, sealed,
                 workerVars, senderVars, phase, next, lost>>

\* The log joins the batch of the thread, which is flushed when it is full.
TlsAppend(a) ==
  LET r == req[a]
      b == tls[a] \cup {r.log}
  IN
  /\ pc[a] = "append"
  /\ tls' = [tls EXCEPT ![a] = b]
  /\ IF ShouldSeal(b, r.force)
       THEN pc' = [pc EXCEPT ![a] = "flush"] /\ UNCHANGED <<req, late>>
       ELSE Return(a)
  /\ UNCHANGED <<due, block, budgetVars, queueVars, workerVars, senderVars, waiting, phase, historyVars>>

-----------------------------------------------------------------------------
(* Flushing the batch of a thread, for add_log, close and export.          *)

\* The batch of the thread cannot be flushed.  add_log resets it, and the
\* logs in it that earlier calls accepted are lost; close and export leave it.
FlushFails(a) ==
  /\ Return(a)
  /\ IF req[a].kind = "tls"
       THEN /\ tlsB' = tlsB - Size(tls[a])
            /\ tls' = [tls EXCEPT ![a] = {}]
            /\ answered' = answered \cup {req[a].log}
            /\ lost' = lost \cup (tls[a] \ {req[a].log})
       ELSE UNCHANGED <<tlsB, tls, answered, lost>>
  /\ UNCHANGED <<ingressB, queueB, ingress, builder, sealed, phase>>

\* Mutant of MergeOne: what the builder held is forgotten.
MergeOneFresh(acc, t) ==
  LET b == t.logs IN
  IF ShouldSeal(b, t.force)
    THEN [b |-> {}, s |-> Append(acc.s, b), n |-> acc.n + 1]
    ELSE [b |-> b, s |-> acc.s, n |-> acc.n + (IF Interval /\ Size(b) = 1 THEN 1 ELSE 0)]

\* The batches of the ingress queue are merged into the default builder one
\* after the other (ve_tls_ingress_task_merge_locked).
MergeOne(acc, t) ==
  LET b == acc.b \cup t.logs IN
  IF ShouldSeal(b, t.force)
    THEN [b |-> {}, s |-> Append(acc.s, b), n |-> acc.n + 1]
    ELSE [b |-> b, s |-> acc.s, n |-> acc.n + (IF Interval /\ Size(b) = 1 THEN 1 ELSE 0)]

\* The builder, the sealed list, and how often a thread is signalled: before the
\* merge of the ingress queue, and after it.  The batches of failed have no key
\* queue and are left out.
Unmerged == [b |-> builder["default"], s |-> sealed, n |-> 0]
Merge(acc, failed) ==
  LET m[i \in 0..Len(ingress)] ==
        IF i = 0 THEN acc
        ELSE IF i \in failed THEN m[i - 1] ELSE MergeOne(m[i - 1], ingress[i])
  IN m[Len(ingress)]

\* The bytes of some of the batches of the ingress queue.
IngressSizes(S) == Sizes([i \in S |-> ingress[i].logs])
AllSize == IngressSizes(DOMAIN ingress)

IngressFull == Len(ingress) >= IngressCap

\* ve_tls_ingress_queue_push_locked has a place.  After the flush close stops
\* the producer from accepting logs, in the same critical section.
Push(a) ==
  /\ ~IngressFull
  /\ ingress' = Append(ingress, [logs |-> tls[a], force |-> req[a].force])
  /\ tls' = [tls EXCEPT ![a] = {}]
  /\ tlsB' = tlsB - Size(tls[a])
  /\ ingressB' = ingressB + Size(tls[a])
  /\ IF req[a].kind = "close"
       THEN /\ phase' = "closing" /\ flush' = TRUE /\ Broadcast
            /\ pc' = [pc EXCEPT ![a] = "drain"]
            /\ UNCHANGED req /\ late' = late \ {a}
       ELSE /\ Signal(1) /\ Return(a)
            /\ UNCHANGED <<phase, flush>>
  /\ UNCHANGED <<queueB, builder, sealed, answered, lost>>

\* The queue is full: wait for a place, without asking for a flush.
PushWaits(a) ==
  /\ IngressFull /\ Accepting /\ block
  /\ waiting' = waiting \cup {a}
  /\ pc' = [pc EXCEPT ![a] = "push"]
  /\ late' = late \ {a}
  /\ UNCHANGED <<tlsB, ingressB, queueB, ingress, tls, builder, sealed, flush, req,
                 phase, answered, lost>>

PushFails(a, timeout) ==
  /\ IngressFull
  /\ ~Accepting \/ ~block \/ timeout
  /\ FlushFails(a)
  /\ NoSignal /\ UNCHANGED flush

\* The drain of the ingress queue by ve_tls_producer_export_raw_buffer, which
\* copies items and builders then.  A batch whose key cannot get a queue ends
\* it, and the export fails: the batch is freed without a callback, and the
\* ones behind it stay.  No batch does so when j is behind the last one.
DrainEnds == (IF KeyLimit THEN DOMAIN ingress ELSE {}) \cup {Len(ingress) + 1}
ExportDrain(acc, own, j) ==
  LET m == Merge(acc, j..Len(ingress))
      popped == DOMAIN ingress \cap 1..j
  IN
  /\ builder' = [builder EXCEPT !["default"] = m.b]
  /\ sealed' = m.s
  /\ flush' = (flush \/ m.s # sealed)
  /\ Signal(m.n + Cardinality(popped))
  /\ ingress' = SubSeq(ingress, j + 1, Len(ingress))
  /\ ingressB' = Less(ingressB, IngressSizes(popped))
  /\ queueB' = queueB + own + IngressSizes(1..(j - 1))
  /\ lost' = lost \cup (IF j \in DOMAIN ingress THEN ingress[j].logs ELSE {})

\* Export by a thread with a batch, which is merged first
\* (ve_tls_tls_batch_merge_locked).
ExportMerge(a) ==
  /\ \E j \in DrainEnds :
       ExportDrain(MergeOne(Unmerged, [logs |-> tls[a], force |-> FALSE]), Size(tls[a]), j)
  /\ tls' = [tls EXCEPT ![a] = {}]
  /\ tlsB' = tlsB - Size(tls[a])
  /\ Return(a)
  /\ UNCHANGED <<phase, answered>>

\* The key of the thread's own batch cannot get a queue: the export fails.
ExportRefused(a) ==
  /\ KeyLimit
  /\ FlushFails(a)
  /\ NoSignal /\ UNCHANGED flush

\* ve_tls_tls_batch_flush_locked: it asks for room for the whole batch again,
\* although tls_bytes counts it.  The first look does not mind a close.
FlushSpace(a) ==
  LET room == HasSpaceForLog(Size(tls[a]))
      first == pc[a] = "flush"
  IN
  /\ pc[a] \in {"flush", "reflush"} /\ a \notin waiting
  /\ \/ /\ room /\ (first \/ Accepting)
        /\ IF req[a].kind = "export"
             THEN ExportMerge(a) \/ ExportRefused(a)
             ELSE Push(a) \/ PushWaits(a) \/ PushFails(a, FALSE)
     \/ block /\ Closed /\ (first => ~room) /\ FlushFails(a)
     \/ ~room /\ (block => Accepting) /\ GiveUp(a) /\ FlushFails(a)
     \/ /\ ~room /\ Accepting /\ Sleep(a)
        /\ pc' = [pc EXCEPT ![a] = "reflush"]
        /\ UNCHANGED <<tlsB, ingressB, queueB, ingress, tls, builder, sealed, req, late,
                       phase, answered, lost>>
  /\ KeepDue
  /\ UNCHANGED <<block, sendSide, imported, items, workerVars, senderVars, next>>

PushSpace(a) ==
  /\ pc[a] = "push" /\ a \notin waiting
  /\ \/ Push(a)
     \/ a \notin late /\ PushWaits(a)
     \/ PushFails(a, a \in late)
  /\ UNCHANGED <<due, block, sendSide, imported, items, workerVars, senderVars, next>>

-----------------------------------------------------------------------------
(* The other calls of the application.                                     *)

\* The application closes the producer from one thread at a time, and after a
\* timeout again.
MayClose ==
  /\ phase \in {"open", "closing"}
  /\ \A a \in Writers : pc[a] \notin {"drain", "join"} /\ req[a].kind # "close"

\* close and export begin with the batch of the calling thread.
FlushCall(a, kind) ==
  /\ kind \in Calls /\ pc[a] = "idle"
  /\ kind = "close" => MayClose
  /\ tls[a] # {}
  /\ req' = [req EXCEPT ![a] = [kind |-> kind, log |-> 0, force |-> kind = "close"]]
  /\ pc' = [pc EXCEPT ![a] = "flush"]
  /\ UNCHANGED <<due, block, budgetVars, tls, queueVars, workerVars, senderVars, condVars, phase, historyVars>>

\* Export by a thread without a batch.
Export(a) ==
  /\ "export" \in Calls /\ pc[a] = "idle" /\ tls[a] = {} /\ ingress # <<>>
  /\ \E j \in DrainEnds : ExportDrain(Unmerged, 0, j)
  /\ KeepDue
  /\ UNCHANGED <<block, tlsB, sendSide, imported, writerVars, items, workerVars, senderVars, late,
                 phase, next, answered>>

\* ve_tls_producer_import_raw_buffer, one record at a time: the worker is
\* signalled after the last one, unless a record could not be read ("broken").
ImportItem ==
  /\ "import" \in Calls /\ next <= MaxLogs
  /\ Import(1)
  /\ items' = Append(items, next)
  /\ next' = next + 1
  /\ Signal(1) \/ ("broken" \in Calls /\ NoSignal)
  /\ UNCHANGED <<due, block, writerVars, ingress, builder, sealed, flush, workerVars, senderVars, late,
                 phase, answered, lost>>

\* ve_tls_producer_flush leaves the thread-local batches alone.  The code does
\* not ask whether the producer accepts logs; the application calls it while it
\* does, as flushes without end could keep a close from finding it drained.
Flush ==
  /\ "flush" \in Calls /\ Accepting
  /\ flush' = TRUE
  /\ Broadcast
  /\ UNCHANGED <<due, block, budgetVars, writerVars, ingress, items, builder, sealed, workerVars,
                 senderVars, late, phase, historyVars>>

\* Mutant of SwitchProducer: the bytes of the batch stay counted.
SwitchProducerKeep(a) ==
  /\ "switch" \in Calls /\ pc[a] = "idle" /\ tls[a] # {}
  /\ tls' = [tls EXCEPT ![a] = {}]
  /\ lost' = lost \cup tls[a]
  /\ UNCHANGED <<due, block, tlsB, ingressB, queueB, sendSide, imported, pc, req, queueVars, workerVars,
                 senderVars, condVars, phase, next, answered>>

\* The thread writes to another producer: its batch for this one is freed.
SwitchProducer(a) ==
  /\ "switch" \in Calls /\ pc[a] = "idle" /\ tls[a] # {}
  /\ tlsB' = tlsB - Size(tls[a])
  /\ tls' = [tls EXCEPT ![a] = {}]
  /\ lost' = lost \cup tls[a]
  /\ UNCHANGED <<due, block, ingressB, queueB, sendSide, imported, pc, req, queueVars, workerVars,
                 senderVars, condVars, phase, next, answered>>

\* ve_tls_producer_close by a thread without a batch.
Close(a) ==
  /\ "close" \in Calls /\ pc[a] = "idle" /\ MayClose
  /\ tls[a] = {}
  /\ phase' = "closing"
  /\ flush' = TRUE
  /\ Broadcast
  /\ pc' = [pc EXCEPT ![a] = "drain"]
  /\ UNCHANGED <<due, block, budgetVars, tls, req, ingress, items, builder, sealed, workerVars,
                 senderVars, late, historyVars>>

\* ve_tls_producer_is_drained_locked does not look at the thread-local batches.
IsDrained ==
  /\ items = <<>> /\ ingress = <<>> /\ sealed = <<>>
  /\ sendq = {} /\ inflight = {}
  /\ \A w \in Workers : wpc[w] \in {"loop", "timed", "exited"}
  /\ \A k \in DOMAIN builder : builder[k] = {}

\* Mutant of CloseDrained: no thread is woken.
CloseDrainedSilent(a) ==
  /\ pc[a] = "drain" /\ IsDrained
  /\ phase' = "stopped"
  /\ NoSignal
  /\ pc' = [pc EXCEPT ![a] = "join"]
  /\ UNCHANGED <<due, block, budgetVars, tls, req, queueVars, workerVars, senderVars, late, historyVars>>

CloseDrained(a) ==
  /\ pc[a] = "drain" /\ IsDrained
  /\ phase' = "stopped"
  /\ Broadcast
  /\ pc' = [pc EXCEPT ![a] = "join"]
  /\ UNCHANGED <<due, block, budgetVars, tls, req, queueVars, workerVars, senderVars, late, historyVars>>

CloseTimeout(a) ==
  /\ pc[a] = "drain" /\ ~IsDrained
  /\ Return(a)
  /\ UNCHANGED <<due, block, budgetVars, tls, queueVars, workerVars, senderVars, waiting, phase, historyVars>>

CloseJoin(a) ==
  /\ pc[a] = "join" /\ \A w \in Workers : wpc[w] = "exited"
  /\ phase' = "closed"
  /\ Return(a)
  /\ UNCHANGED <<due, block, budgetVars, tls, queueVars, workerVars, senderVars, waiting, historyVars>>
-----------------------------------------------------------------------------
(* The workers: ve_tls_worker_main_builder.                                *)

\* Mutant of Work: a worker does not look at the ingress queue.
WorkAhead == items # <<>> \/ sealed # <<>> \/ flush

Work == items # <<>> \/ ingress # <<>> \/ sealed # <<>> \/ flush
HaveBuilder == \E k \in DOMAIN builder : builder[k] # {}
Empty == items = <<>> /\ ingress = <<>> /\ sealed = <<>> /\ ~HaveBuilder

\* Nothing to do: wait for ever, or once, for the first flush interval to
\* pass, when a batch is being built.
WorkerWait(w) ==
  /\ wpc[w] = "loop" /\ w \notin waiting
  /\ ~Stopped /\ ~Work
  /\ waiting' = waiting \cup {w}
  /\ wpc' = [wpc EXCEPT ![w] = IF HaveBuilder THEN "timed" ELSE "loop"]
  /\ UNCHANGED <<due, block, budgetVars, writerVars, queueVars, wlist, task, senderVars, late, phase,
                 historyVars>>

\* The flush interval of a builder passes.
IntervalOver(k) ==
  /\ Interval /\ builder[k] # {} /\ k \notin due
  /\ due' = due \cup {k}
  /\ UNCHANGED <<block, budgetVars, writerVars, queueVars, workerVars, senderVars, condVars, phase,
                 historyVars>>

\* A timed wait ends with the first interval.
WorkerTimer(w) ==
  /\ wpc[w] = "timed" /\ w \in waiting /\ Interval
  /\ waiting' = waiting \ {w}
  /\ UNCHANGED <<due, block, budgetVars, writerVars, queueVars, workerVars, senderVars, late, phase,
                 historyVars>>

WorkerExit(w) ==
  /\ wpc[w] = "loop" /\ w \notin waiting
  /\ Stopped /\ Empty
  /\ wpc' = [wpc EXCEPT ![w] = "exited"]
  /\ UNCHANGED <<due, block, budgetVars, writerVars, queueVars, wlist, task, senderVars, condVars, phase,
                 historyVars>>

\* A builder of which joins the sealed list, if it has a log.
Seal(k, which, built, list) ==
  IF k \in which /\ built[k] # {} THEN Append(list, built[k]) ELSE list

\* One critical section: merge the ingress queue (the batches of failed have
\* no key queue and get their callback), seal the builders, all of them on a
\* flush request or in a stop, and take the sealed list.
WorkerRound(w) ==
  /\ w \notin waiting
  /\ \/ wpc[w] = "timed"
     \/ wpc[w] = "loop" /\ (IF Stopped THEN ~Empty ELSE Work)
  /\ \E failed \in SUBSET (IF KeyLimit THEN DOMAIN ingress ELSE {}) :
       LET m == Merge(Unmerged, failed)
           built == [builder EXCEPT !["default"] = m.b]
           all == flush \/ Stopped \/ m.s # sealed
           seal == IF all THEN DOMAIN built ELSE due
       IN
       /\ builder' = [k \in DOMAIN built |-> IF k \in seal THEN {} ELSE built[k]]
       /\ wlist' = [wlist EXCEPT ![w] =
            Seal("key", seal, built, Seal("default", seal, built, m.s))]
       /\ ingressB' = Less(ingressB, AllSize)
       /\ queueB' = queueB + IngressSizes(DOMAIN ingress \ failed)
       /\ answered' = answered \cup UNION {ingress[i].logs : i \in failed}
       /\ Signal(m.n + Len(ingress))
  /\ ingress' = <<>> /\ sealed' = <<>> /\ flush' = FALSE
  /\ wpc' = [wpc EXCEPT ![w] = "items"]
  /\ KeepDue
  /\ UNCHANGED <<block, tlsB, sendSide, imported, writerVars, items, task, senderVars, late, phase,
                 next, lost>>

\* ve_tls_queue_pop: the bytes of a raw item are released at once.
WorkerItem(w) ==
  /\ wpc[w] = "items" /\ items # <<>>
  /\ task' = [task EXCEPT ![w] = {Head(items)}]
  /\ items' = Tail(items)
  /\ queueB' = queueB - 1
  /\ Signal(1)
  /\ wpc' = [wpc EXCEPT ![w] = "prepare"]
  /\ UNCHANGED <<due, block, tlsB, ingressB, sendSide, imported, writerVars, ingress, builder, sealed,
                 flush, wlist, senderVars, late, phase, historyVars>>

\* All items are done: the sealed batches follow, and then the next round.
WorkerBatch(w) ==
  /\ \/ wpc[w] = "items" /\ items = <<>>
     \/ wpc[w] = "batches"
  /\ IF wlist[w] = <<>>
       THEN wpc' = [wpc EXCEPT ![w] = "loop"] /\ UNCHANGED task
       ELSE /\ wpc' = [wpc EXCEPT ![w] = "prepare"]
            /\ task' = [task EXCEPT ![w] = Head(wlist[w])]
  /\ UNCHANGED <<due, block, budgetVars, writerVars, queueVars, wlist, senderVars, condVars, phase,
                 historyVars>>

\* Whether the task of the worker is a sealed batch, and not a raw item.
FromList(w) == wlist[w] # <<>> /\ task[w] = Head(wlist[w])

\* What follows the task: the bytes of a batch are released.
AfterTask(w) == IF FromList(w) THEN "release" ELSE "items"

DropTask(w) ==
  /\ answered' = answered \cup task[w]
  /\ wpc' = [wpc EXCEPT ![w] = AfterTask(w)]
  /\ late' = late \ {w}

ScratchBytes(batch) == Size(batch) + Scratch

\* A worker that has no room for its task waits or drops it; a close makes
\* it drop the task.
WorkerNoSpace(w) ==
  /\ \/ block /\ Closed /\ DropTask(w)
     \/ (block => Accepting) /\ GiveUp(w) /\ DropTask(w)
     \/ Accepting /\ Sleep(w) /\ UNCHANGED <<wpc, late, answered>>
  /\ UNCHANGED <<sendB, scratchB>>

\* ve_tls_manager_prepare_send_task compresses into a pooled buffer or with
\* scratch memory of its own.
WorkerPrepare(w) ==
  /\ wpc[w] = "prepare" /\ w \notin waiting
  /\ \/ /\ wpc' = [wpc EXCEPT ![w] = "reserve"]
        /\ NoSignal /\ UNCHANGED <<scratchB, sendB, flush, answered, late>>
     \/ /\ Scratch > 0 /\ HasSpaceForSend(ScratchBytes(task[w]))
        /\ scratchB' = scratchB + ScratchBytes(task[w])
        /\ wpc' = [wpc EXCEPT ![w] = "compress"]
        /\ late' = late \ {w}
        /\ NoSignal /\ UNCHANGED <<sendB, flush, answered>>
     \/ Scratch > 0 /\ ~HasSpaceForSend(ScratchBytes(task[w])) /\ WorkerNoSpace(w)
  /\ UNCHANGED <<due, block, ingressSide, inflightB, imported, writerVars, ingress, items, builder, sealed,
                 wlist, task, senderVars, phase, next, lost>>

\* The scratch memory is released; the payload may be too large after all.
WorkerCompress(w) ==
  /\ wpc[w] = "compress"
  /\ scratchB' = Less(scratchB, ScratchBytes(task[w]))
  /\ Broadcast
  /\ \/ wpc' = [wpc EXCEPT ![w] = "reserve"] /\ UNCHANGED <<answered, late>>
     \/ DropTask(w)
  /\ UNCHANGED <<due, block, ingressSide, sendB, inflightB, imported, writerVars, queueVars, wlist, task,
                 senderVars, phase, next, lost>>

\* ve_tls_producer_reserve_send_task_bytes
WorkerReserve(w) ==
  /\ wpc[w] = "reserve" /\ w \notin waiting
  /\ \/ /\ HasSpaceForSend(Size(task[w]))
        /\ sendB' = sendB + Size(task[w])
        /\ wpc' = [wpc EXCEPT ![w] = "put"]
        /\ late' = late \ {w}
        /\ NoSignal /\ UNCHANGED <<scratchB, flush, answered>>
     \/ ~HasSpaceForSend(Size(task[w])) /\ WorkerNoSpace(w)
  /\ UNCHANGED <<due, block, ingressSide, inflightB, imported, writerVars, ingress, items, builder, sealed,
                 wlist, task, senderVars, phase, next, lost>>

\* The send queue takes the task, or it is full or stopped: the reservation is
\* given back and the task dropped.
WorkerPut(w) ==
  /\ wpc[w] = "put"
  /\ \/ /\ ~Stopped
        /\ sendq' = sendq \cup {task[w]}
        /\ wpc' = [wpc EXCEPT ![w] = AfterTask(w)]
        /\ NoSignal /\ UNCHANGED <<sendB, answered, late>>
     \/ /\ sendB' = Less(sendB, Size(task[w]))
        /\ Broadcast
        /\ DropTask(w)
        /\ UNCHANGED sendq
  /\ UNCHANGED <<due, block, ingressSide, inflightB, scratchB, imported, writerVars, queueVars, wlist, task,
                 inflight, phase, next, lost>>

\* The batch is off the worker's hands.
WorkerRelease(w) ==
  /\ wpc[w] = "release"
  /\ queueB' = Less(queueB, Size(task[w]))
  /\ Signal(1)
  /\ wlist' = [wlist EXCEPT ![w] = Tail(@)]
  /\ wpc' = [wpc EXCEPT ![w] = "batches"]
  /\ UNCHANGED <<due, block, tlsB, ingressB, sendSide, imported, writerVars, queueVars, task, senderVars,
                 late, phase, historyVars>>

-----------------------------------------------------------------------------
(* The senders, reduced to what they do to the budget.                     *)

\* Mutant of SenderTake: the task is counted in the queue and in flight.
SenderTakeTwice(b) ==
  /\ b \in sendq
  /\ sendq' = sendq \ {b}
  /\ inflight' = inflight \cup {b}
  /\ sendB' = sendB
  /\ inflightB' = inflightB + Size(b)
  /\ UNCHANGED <<due, block, ingressSide, scratchB, imported, writerVars, queueVars, workerVars, condVars,
                 phase, historyVars>>

\* ve_tls_producer_move_send_task_to_inflight wakes nobody.
SenderTake(b) ==
  /\ b \in sendq
  /\ sendq' = sendq \ {b}
  /\ inflight' = inflight \cup {b}
  /\ sendB' = Less(sendB, Size(b))
  /\ inflightB' = inflightB + Size(b)
  /\ UNCHANGED <<due, block, ingressSide, scratchB, imported, writerVars, queueVars, workerVars, condVars,
                 phase, historyVars>>

\* The callback, and ve_tls_producer_release_inflight_task_bytes
SenderDone(b) ==
  /\ b \in inflight
  /\ inflight' = inflight \ {b}
  /\ inflightB' = Less(inflightB, Size(b))
  /\ answered' = answered \cup b
  /\ Broadcast
  /\ UNCHANGED <<due, block, ingressSide, sendB, scratchB, imported, writerVars, queueVars, workerVars,
                 sendq, late, phase, next, lost>>

-----------------------------------------------------------------------------
\* The deadline of a wait for room passes.
Deadline(th) ==
  /\ block /\ th \notin late
  /\ \/ th \in Writers /\ pc[th] \in {"space", "reflush", "push"}
     \/ th \in Workers /\ wpc[th] \in {"prepare", "reserve"} /\ th \in waiting
  /\ late' = late \cup {th}
  /\ waiting' = waiting \ {th}
  /\ UNCHANGED <<due, block, budgetVars, writerVars, queueVars, workerVars, senderVars, phase, historyVars>>

\* A thread goes on where it is.
WriterStep(a) ==
  \/ WriteSpace(a)
  \/ RawCopied(a)
  \/ TlsAppend(a)
  \/ FlushSpace(a)
  \/ PushSpace(a)
  \/ CloseDrained(a)
  \/ CloseJoin(a)

WorkerStep(w) ==
  \/ WorkerWait(w)
  \/ WorkerTimer(w)
  \/ WorkerExit(w)
  \/ WorkerRound(w)
  \/ WorkerItem(w)
  \/ WorkerBatch(w)
  \/ WorkerPrepare(w)
  \/ WorkerCompress(w)
  \/ WorkerReserve(w)
  \/ WorkerPut(w)
  \/ WorkerRelease(w)

SenderStep == \E b \in SUBSET Logs : SenderTake(b) \/ SenderDone(b)

Call(a) ==
  \/ \E kind \in Kinds, force \in Flushes : Write(a, kind, force)
  \/ CircuitOpen(a)
  \/ FlushCall(a, "close")
  \/ FlushCall(a, "export")
  \/ Export(a)
  \/ SwitchProducer(a)
  \/ Close(a)
  \/ CloseTimeout(a)

IngressNext ==
  \/ \E a \in Writers : Call(a) \/ WriterStep(a)
  \/ \E w \in Workers : WorkerStep(w)
  \/ SenderStep
  \/ ImportItem
  \/ Flush
  \/ \E k \in DOMAIN builder : IntervalOver(k)
  \/ \E th \in Writers \cup Workers : Deadline(th)

IngressSpec == IngressInit /\ [][IngressNext]_ingressVars

\* The platform runs every thread that is not waiting, and deadlines pass.
\* Nobody has to call anything.
IngressFairSpec ==
  /\ IngressSpec
  /\ \A a \in Writers : WF_ingressVars(WriterStep(a)) /\ WF_ingressVars(Deadline(a))
  /\ \A w \in Workers : WF_ingressVars(WorkerStep(w)) /\ WF_ingressVars(Deadline(w))
  /\ WF_ingressVars(SenderStep)
  /\ \A k \in {"default", "key"} : WF_ingressVars(IntervalOver(k))

-----------------------------------------------------------------------------
(* Properties.                                                             *)

\* The types of the variables.
IngressTypeOK ==
  /\ BudgetTypeOK
  /\ tls \in [Writers -> SUBSET Logs]
  /\ pc \in [Writers -> {"idle", "space", "copy", "append", "flush", "reflush", "push",
                         "drain", "join"}]
  /\ Len(ingress) <= IngressCap
  /\ ToSet(items) \subseteq Logs
  /\ wpc \in [Workers -> {"loop", "timed", "items", "batches", "prepare", "compress",
                          "reserve", "put", "release", "exited"}]
  /\ waiting \cup late \subseteq Writers \cup Workers

\* Every counter of the budget is exactly the size of what it stands for: a
\* path that released too little, twice, or too early would show up here.
CountersExact ==
  LET Tasks(p) == [w \in Workers |-> IF wpc[w] = p THEN task[w] ELSE {}]
      Writing(p) == [a \in Writers |-> IF pc[a] = p THEN {req[a].log} ELSE {}]
      Lists == [p \in UNION {{w} \X (DOMAIN wlist[w]) : w \in Workers} |-> wlist[p[1]][p[2]]]
      Compressing == {w \in Workers : wpc[w] = "compress"}
  IN
  /\ tlsB = Sizes(tls) + Sizes(Writing("append"))
  /\ ingressB = AllSize
  /\ queueB = Len(items) + Sizes(builder) + Sizes(sealed) + Sizes(Lists) + Sizes(Writing("copy"))
  /\ sendB = Sizes([b \in sendq |-> b]) + Sizes(Tasks("put"))
  /\ inflightB = Sizes([b \in inflight |-> b])
  /\ scratchB = Sizes(Tasks("compress")) + Scratch * Cardinality(Compressing)

\* The places where a log can be: with a writer, in the queues and builders,
\* with a worker, with the senders.
Places ==
  {{req[a].log : a \in {v \in Writers : pc[v] \in {"space", "copy", "append"}}},
   UNION {tls[a] : a \in Writers},
   UNION {ingress[i].logs : i \in DOMAIN ingress}, ToSet(items),
   builder["default"], builder["key"], UNION ToSet(sealed),
   UNION {UNION ToSet(wlist[w]) : w \in Workers},
   UNION {task[w] : w \in {v \in Workers : wpc[v] \in {"prepare", "compress", "reserve", "put"}
                                            /\ ~FromList(v)}},
   UNION sendq, UNION inflight}

\* Every log written is somewhere, has been answered, or was dropped in a batch
\* that the code frees without a callback: the batch of a thread that cannot be
\* flushed or turns to another producer, or the batch with which an export fails
\* at the key limit.  Nothing else loses logs.
Accounted ==
  /\ IngressTypeOK
  /\ \A l \in 1..(next - 1) : l \in answered \cup lost \cup UNION Places

\* While a batch or a flush request waits for a worker, some worker is awake.
\* With the BLOCK policy a writer that waits for room can take the signal.
WorkerAwake ==
  ~block /\ ~Stopped /\ (ingress # <<>> \/ sealed # <<>> \/ flush)
    => \E w \in Workers : w \notin waiting

\* A call of the application comes back.
CallsReturn == \A a \in Writers : (pc[a] # "idle") ~> (pc[a] = "idle")

\* A batch that was flushed or sealed is answered in the end, whatever the
\* application does next: the one signal on the shared condition variable
\* reaches a worker.  Only a failing export at the key limit frees such a batch
\* without a callback (lost), and a batch that a thread flushes while close
\* stops the workers may stay behind.
BatchesAnswered ==
  \A l \in Logs :
    (~block /\ \/ \E i \in DOMAIN ingress : l \in ingress[i].logs
               \/ l \in UNION ToSet(sealed))
    ~> (l \in answered \cup lost \/ Stopped)

\* flush_interval_ms is how long a log may wait for others: a log in a builder
\* is on its way after that, without any further call.
IntervalKept == \A l \in Logs : l \in builder["key"] ~> l \in answered
=============================================================================

-------------------------------- MODULE Pipeline --------------------------------
(***************************************************************************)
(* The way of a batch through the producer: the writer appends logs to the *)
(* builder that hangs off the key's queue, the worker threads seal         *)
(* builders and hand the batches to the send queue, the senders of         *)
(* KeyQueues send them, and close drains and stops it all.                 *)
(*                                                                         *)
(* This module composes KeyQueues, whose operations it calls, with the     *)
(* writer (add_log_kv with a hash key), the workers                        *)
(* (ve_tls_worker_main_builder) and ve_tls_producer_close.                 *)
(***************************************************************************)
EXTENDS KeyQueues

CONSTANTS
  Workers,  \* worker threads
  Flushes   \* the values of the flush argument the application uses

\* Batches are numbered in the order in which they are begun, as the log ids
\* in them are.
ASSUME PipelineAssumption ==
  /\ Tasks \subseteq Nat
  /\ Flushes \subseteq BOOLEAN

VARIABLES
  builder,  \* q->builder: the batch being built for a key, or None
  sealed,   \* the sealed list
  flush,    \* flush_requested
  wlist,    \* the sealed batches a worker took off the list
  wpc,      \* where each worker is
  phase,    \* how far ve_tls_producer_close is
  begun     \* history: the batches that were begun

workerVars == <<builder, sealed, flush, wlist, wpc>>
pipelineVars == <<vars, workerVars, phase, begun>>

PipelineInit ==
  /\ Init
  /\ builder = [k \in Keys |-> None]
  /\ sealed = <<>>
  /\ flush = FALSE
  /\ wlist = [w \in Workers |-> <<>>]
  /\ wpc = [w \in Workers |-> "idle"]
  /\ phase = "open"
  /\ begun = {}

-----------------------------------------------------------------------------
(* The writer.                                                             *)

\* Mutant of Joins: a batch that was sealed is begun again.
JoinsAgain(t) == builder[KeyOf[t]] \in {t, None}

\* The log is one more of the batch being built for its key, or the first of
\* the next one.
Joins(t) ==
  LET k == KeyOf[t] IN
  \/ builder[k] = t
  \/ /\ builder[k] = None /\ t \notin begun
     /\ \A u \in Tasks : KeyOf[u] = k /\ u < t => u \in begun

\* Mutant of Seal: the link to the batches sealed before is lost.
SealAlone(t) == sealed' = <<t>>

\* A sealed builder is linked to the end of the sealed list.
Seal(t) == sealed' = Append(sealed, t)

\* add_log_kv with a hash key while the producer accepts logs.  A log that
\* asks for a flush, or fills the batch, seals it.  A key that cannot get a
\* queue drops the log with a callback.
AddLog(t, full) ==
  LET k == KeyOf[t] IN
  /\ phase = "open"
  /\ Joins(t)
  /\ begun' = begun \cup {t}
  /\ \/ /\ Reserve(k)
        /\ builder' = [builder EXCEPT ![k] = IF full THEN None ELSE t]
        /\ IF full THEN Seal(t) ELSE UNCHANGED sealed
        /\ flush' = (flush \/ full)
     \/ /\ ~CanGet(k)
        /\ DropTask(t)
        /\ UNCHANGED <<builder, sealed, flush>>
  /\ UNCHANGED <<wlist, wpc, phase>>

-----------------------------------------------------------------------------
(* The workers.                                                            *)

\* The key queues that have a builder, found by the walk of the buckets.
Building == {k \in active : builder[k] # None}

\* The orders in which the bucket walk may append the builders of K.
SealOrders(K) ==
  {p \in [1..Cardinality(K) -> {builder[k] : k \in K}] :
     Elems(p) = {builder[k] : k \in K}}

\* One critical section of the worker: seal every builder on a flush request
\* or in a stop, or those whose flush interval is over, and take the whole
\* sealed list.
SealAndTake(w) ==
  /\ wpc[w] = "idle"
  /\ \E K \in SUBSET Building :
       /\ flush \/ stop => K = Building
       /\ flush \/ sealed # <<>> \/ K # {}
       /\ \E p \in SealOrders(K) : wlist' = [wlist EXCEPT ![w] = sealed \o p]
       /\ builder' = [k \in Keys |-> IF k \in K THEN None ELSE builder[k]]
  /\ sealed' = <<>>
  /\ flush' = FALSE
  /\ wpc' = [wpc EXCEPT ![w] = "work"]
  /\ UNCHANGED <<vars, phase, begun>>

\* What a worker does not wait for.
Work == flush \/ sealed # <<>> \/ stop

\* The round of a worker that has work.
WorkerRound(w) == Work /\ SealAndTake(w)

\* The round of a worker that saw a builder, waited for its flush interval and
\* found it over.  Nobody may rely on it: a worker that saw no builder waits
\* without a time limit, and a log that does not seal its builder wakes nobody.
WorkerInterval(w) == ~Work /\ SealAndTake(w)

\* The worker turns its next batch into a send task, and reserves the key
\* queue (ve_tls_manager_push_send_task); a batch that cannot be prepared or
\* whose key cannot get a queue is dropped.
WorkerReserve(w) ==
  /\ wpc[w] = "work" /\ wlist[w] # <<>>
  /\ \/ /\ Reserve(KeyOf[Head(wlist[w])])
        /\ wpc' = [wpc EXCEPT ![w] = "put"]
        /\ UNCHANGED wlist
     \/ /\ DropTask(Head(wlist[w]))
        /\ wlist' = [wlist EXCEPT ![w] = Tail(@)]
        /\ UNCHANGED wpc
  /\ UNCHANGED <<builder, sealed, flush, phase, begun>>

\* ... puts it in the send queue, or drops it: the memory budget or the send
\* queue has no room for it, or the send queue is stopped.
WorkerPut(w) ==
  /\ wpc[w] = "put"
  /\ Inbound(Head(wlist[w])) \/ DropTask(Head(wlist[w]))
  /\ wlist' = [wlist EXCEPT ![w] = Tail(@)]
  /\ wpc' = [wpc EXCEPT ![w] = "work"]
  /\ UNCHANGED <<builder, sealed, flush, phase, begun>>

\* The end of a round: worker_flushing_count goes down.
WorkerDone(w) ==
  /\ wpc[w] = "work" /\ wlist[w] = <<>>
  /\ wpc' = [wpc EXCEPT ![w] = "idle"]
  /\ UNCHANGED <<vars, builder, sealed, flush, wlist, phase, begun>>

WorkerExit(w) ==
  /\ wpc[w] = "idle" /\ stop
  /\ sealed = <<>> /\ \A k \in Keys : builder[k] = None
  /\ wpc' = [wpc EXCEPT ![w] = "exited"]
  /\ UNCHANGED <<vars, builder, sealed, flush, wlist, phase, begun>>

WorkerStep(w) ==
  \/ WorkerRound(w)
  \/ WorkerReserve(w)
  \/ WorkerPut(w)
  \/ WorkerDone(w)
  \/ WorkerExit(w)

-----------------------------------------------------------------------------
(* The senders and close.                                                  *)

\* A sender that frees a key queue frees the builder in it as well.
PipelineSender(s) ==
  /\ SenderStep(s)
  /\ builder' = [k \in Keys |-> IF k \in active \ active' THEN None ELSE builder[k]]
  /\ UNCHANGED <<sealed, flush, wlist, wpc, phase, begun>>

\* ve_tls_producer_close: no more logs, and a flush.  The application may call
\* it again after a timeout.
Close ==
  /\ phase \in {"open", "timedout"}
  /\ phase' = "closing"
  /\ flush' = TRUE
  /\ UNCHANGED <<vars, builder, sealed, wlist, wpc, begun>>

\* Mutant of IsDrained: the parked queues are counted, too.
IsDrainedActive ==
  /\ sealed = <<>> /\ sendq = <<>> /\ active = {}
  /\ \A w \in Workers : wpc[w] \notin {"work", "put"}

\* ve_tls_producer_is_drained_locked.  A sender that took a task off the send
\* queue and has not pushed it to its key queue is not seen.
IsDrained ==
  /\ sealed = <<>> /\ sendq = <<>>
  /\ \A w \in Workers : wpc[w] \notin {"work", "put"}
  /\ \A k \in active : tasks[k] = <<>> /\ k \notin inflight /\ builder[k] = None

\* The time of close is over and it returns VE_TLS_TIMEOUT: the producer
\* accepts no logs any more, and its threads go on.
CloseTimeout ==
  /\ phase = "closing" /\ ~IsDrained
  /\ phase' = "timedout"
  /\ UNCHANGED <<vars, workerVars, begun>>

CloseDrained ==
  /\ phase = "closing" /\ IsDrained
  /\ Stop
  /\ phase' = "stopping"
  /\ UNCHANGED <<workerVars, begun>>

CloseStopQueue ==
  /\ phase = "stopping"
  /\ StopSendQueue
  /\ phase' = "joining"
  /\ UNCHANGED <<workerVars, begun>>

\* Mutant of CloseJoin: the senders are not joined.
CloseJoinWorkers ==
  /\ phase = "joining"
  /\ \A w \in Workers : wpc[w] = "exited"
  /\ phase' = "closed"
  /\ UNCHANGED <<vars, workerVars, begun>>

\* close joins the workers and the senders, and returns VE_TLS_OK.
CloseJoin ==
  /\ phase = "joining"
  /\ \A w \in Workers : wpc[w] = "exited"
  /\ \A s \in Senders : pc[s] = "exited"
  /\ phase' = "closed"
  /\ UNCHANGED <<vars, workerVars, begun>>

CloseStep == CloseDrained \/ CloseStopQueue \/ CloseJoin

PipelineTick == Tick /\ UNCHANGED <<workerVars, phase, begun>>

PipelineNext ==
  \/ \E t \in Tasks, full \in Flushes : AddLog(t, full)
  \/ \E w \in Workers : WorkerStep(w) \/ WorkerInterval(w)
  \/ \E s \in Senders : PipelineSender(s)
  \/ Close
  \/ CloseTimeout
  \/ CloseStep
  \/ PipelineTick

PipelineSpec == PipelineInit /\ [][PipelineNext]_pipelineVars

\* The platform schedules every thread, the one in close too, and time passes.
\* A worker is woken for a sealed batch, a flush or a stop: writers do not wait
\* on the workers' condition variable here (no memory limit, or DROP).
PipelineFairSpec ==
  /\ PipelineSpec
  /\ WF_pipelineVars(PipelineTick)
  /\ WF_pipelineVars(CloseStep)
  /\ \A w \in Workers : WF_pipelineVars(WorkerStep(w))
  /\ \A s \in Senders : WF_pipelineVars(PipelineSender(s))

-----------------------------------------------------------------------------
(* Properties.                                                             *)

\* The types of the variables; only a queue that exists has a batch to seal.
PipelineTypeOK ==
  /\ builder \in [Keys -> Tasks \cup {None}]
  /\ sealed \in Seq(Tasks)
  /\ flush \in BOOLEAN
  /\ wlist \in [Workers -> Seq(Tasks)]
  /\ wpc \in [Workers -> {"idle", "work", "put", "exited"}]
  /\ phase \in {"open", "closing", "timedout", "stopping", "joining", "closed"}
  /\ begun \subseteq Tasks

\* The batches that are somewhere on their way.
Underway ==
  {t \in Tasks :
     \/ builder[KeyOf[t]] = t
     \/ t \in Elems(sealed) \cup Elems(sendq) \cup Elems(tasks[KeyOf[t]])
     \/ \E w \in Workers : t \in Elems(wlist[w])
     \/ \E s \in Senders : task[s] = t}

\* A batch the producer accepted is on its way or has had its callback: no
\* interleaving of writer, worker, senders, cleanup and close loses it.
NoLostBatch ==
  /\ PipelineTypeOK
  /\ \A t \in begun : callbacks[t] = 1 \/ t \in Underway

\* When close has returned VE_TLS_OK nothing is on its way any more, although
\* the drain check cannot see a task between the send queue and its key queue.
ClosedIsDrained == phase = "closed" => Underway = {}

\* The pipeline implements KeyQueues: the senders see the tasks of the workers
\* as KeyQueues says, each one once and before anything has happened to it.
KeyQueuesSpec == Spec

\* What the documentation promises of a hash key (README.md, hashKey order):
\* its batches are sent in the order in which they were written, that is, they
\* complete in the order in which they were begun.
KeyOrder ==
  \A k \in Keys : \A i, j \in DOMAIN finished[k] :
    i < j => finished[k][i] < finished[k][j]

\* close comes to an end even if it waits for ever: the producer drains and
\* all its threads leave.
CloseReturns == (phase = "closing") ~> (phase \in {"closed", "timedout"})

\* A batch that is sealed, by its writer or by a worker, has its callback in
\* the end, through key limit, breaker, retries, idle cleanup and close.  (A
\* batch nobody seals may wait for ever: see IntervalKept of Ingress.)
SealedBatchAnswered ==
  \A t \in Tasks :
    (t \in Elems(sealed) \/ \E w \in Workers : t \in Elems(wlist[w]))
      ~> (callbacks[t] = 1)
=============================================================================

----------------------------------- MODULE Env -----------------------------------
(***************************************************************************)
(* The global run environment (ve_tls_env.c): sender threads that serve    *)
(* all registered producers from one run queue, and the lifecycle of the   *)
(* environment under init, register, unregister, notify and destroy.       *)
(*                                                                         *)
(* An action is one critical section, under g_env_init_mu or g_env.mutex,  *)
(* or one step between two of them.  A producer is its own application     *)
(* thread and has a number of batches and tasks; the wait on g_env.cond is *)
(* left out, because it never lasts longer than 50 ms.                     *)
(***************************************************************************)
EXTENDS Naturals, FiniteSets, SequencesExt

CONSTANTS
  Producers,  \* the producers with use_global_env
  Senders,    \* the sender threads of the environment
  Admins,     \* the threads that init and destroy the environment
  MaxTasks,   \* bound on the batches of a producer
  MaxCalls,   \* bound on the calls of ve_tls_env_init and ve_tls_env_destroy
  Steps,      \* how often a sender calls ve_tls_sender_step in a row (64)
  QueueCap,   \* the places of the run queue (4096)
  MayFail,    \* whether creating the environment or a producer may fail, or
              \* the flush of its thread's batch with which a close begins
  None        \* no producer

ASSUME EnvAssumption ==
  /\ {MaxTasks, MaxCalls, Steps, QueueCap} \subseteq Nat \ {0}
  /\ MayFail \in BOOLEAN
  /\ None \notin Producers
  /\ IsFiniteSet(Producers) /\ IsFiniteSet(Senders)
  /\ Producers \cap Senders = {} /\ (Producers \cup Senders) \cap Admins = {}

VARIABLES
  inited, resources, destroying, tearing, ops, stop,  \* g_env
  list,        \* g_env.producers
  queue,       \* the run queue; unregister leaves a hole
  registered,  \* env_registered
  inQueue,     \* env_in_queue
  holds,       \* env_inflight
  building,    \* the batches of each producer that nobody has asked to flush
  packing,     \* its batches in the queues and with the workers
  tasks,       \* its tasks, which has_pending sees
  arrived,     \* history: how many batches each producer had
  calls,       \* history: the calls of init and destroy
  stopped,     \* the producer was closed: its stop
  held,        \* the producer each sender has taken
  round,       \* how many steps are left to it
  ret,         \* where a sender goes after ve_tls_env_notify
  pc

lifeVars == <<inited, resources, destroying, tearing, calls>>
flagVars == <<registered, inQueue>>
batchVars == <<building, packing, arrived>>
taskVars == <<batchVars, tasks, stopped>>
senderVars == <<held, round, ret>>
envVars == <<lifeVars, ops, stop, list, queue, flagVars, holds, taskVars, senderVars, pc>>

Threads == Producers \cup Senders \cup Admins

EnvInit ==
  /\ inited = FALSE /\ resources = FALSE /\ destroying = FALSE /\ tearing = FALSE
  /\ ops = 0 /\ stop = FALSE /\ calls = 0
  /\ list = {} /\ queue = <<>>
  /\ registered = [p \in Producers |-> FALSE]
  /\ inQueue = [p \in Producers |-> FALSE]
  /\ holds = [p \in Producers |-> 0]
  /\ building = [p \in Producers |-> 0]
  /\ packing = [p \in Producers |-> 0]
  /\ tasks = [p \in Producers |-> 0]
  /\ arrived = [p \in Producers |-> 0]
  /\ stopped = [p \in Producers |-> FALSE]
  /\ held = [s \in Senders |-> None]
  /\ round = [s \in Senders |-> 0]
  /\ ret = [s \in Senders |-> "done"]
  /\ pc = [th \in Threads |-> IF th \in Producers THEN "none"
                              ELSE IF th \in Senders THEN "exited" ELSE "idle"]

Goto(th, where) == pc' = [pc EXCEPT ![th] = where]

-----------------------------------------------------------------------------
(* The lifecycle, under g_env_init_mu.                                     *)

ResourcesReady == inited /\ resources

\* Mutant of MayBegin: an operation may begin while the environment is torn down.
MayBeginAlways == ResourcesReady

\* ve_tls_env_lifecycle_begin
MayBegin == ResourcesReady /\ ~tearing /\ ~destroying

\* Mutant of LifecycleEnd: the operation stays active.
LifecycleEndNot == UNCHANGED ops

\* ve_tls_env_lifecycle_end
LifecycleEnd == ops' = IF ops > 0 THEN ops - 1 ELSE 0

\* ve_tls_env_init: everything is set up anew and the senders start, or one of
\* them cannot be started and the environment is torn down at once.
InitEnv(d) ==
  /\ pc[d] = "idle" /\ ~tearing /\ ~inited
  /\ calls < MaxCalls /\ calls' = calls + 1
  /\ resources' = TRUE /\ ops' = 0 /\ stop' = FALSE
  /\ list' = {} /\ queue' = <<>>
  /\ held' = [s \in Senders |-> None]
  /\ \/ /\ inited' = TRUE /\ destroying' = FALSE /\ tearing' = FALSE
        /\ pc' = [th \in Threads |-> IF th \in Senders THEN "idle" ELSE pc[th]]
     \/ /\ MayFail
        /\ inited' = FALSE /\ destroying' = TRUE /\ tearing' = TRUE
        /\ \E started \in SUBSET Senders :
             /\ started # Senders
             /\ pc' = [th \in Threads |-> IF th \in started THEN "idle"
                                          ELSE IF th = d THEN "drain" ELSE pc[th]]
  /\ UNCHANGED <<flagVars, holds, taskVars, round, ret>>

\* ve_tls_env_prepare_destroy
DestroyCall(d) ==
  /\ pc[d] = "idle" /\ ~tearing
  /\ inited \/ resources
  /\ calls < MaxCalls /\ calls' = calls + 1
  /\ destroying' = TRUE
  /\ IF ops = 0
       THEN tearing' = TRUE /\ Goto(d, "drain")
       ELSE UNCHANGED tearing /\ Goto(d, "ops")
  /\ UNCHANGED <<inited, resources, ops, stop, list, queue, flagVars, holds, taskVars, senderVars>>

\* ve_tls_env_mark_destroying_locked: the last operation has ended.  There is
\* no second look at tearing_down; without resources the call returns at once.
DestroyOpsEnded(d) ==
  /\ pc[d] = "ops" /\ ops = 0
  /\ tearing' = TRUE
  /\ Goto(d, IF inited \/ resources THEN "drain" ELSE "idle")
  /\ UNCHANGED <<calls, inited, resources, destroying, ops, stop, list, queue, flagVars, holds, taskVars,
                 senderVars>>

-----------------------------------------------------------------------------
(* The run queue, under g_env.mutex.                                       *)

HasPending(p) == tasks[p] > 0

\* The producers a tick puts into the run queue, one after the other.
Ticked == {p \in list : registered[p] /\ ~inQueue[p] /\ HasPending(p)}

\* Mutant of Tick: the flag is left as it is.
TickUnmarked ==
  /\ \E order \in SetToSeqs(Ticked) :
       LET room == QueueCap - Len(queue)
       IN queue' = queue \o (IF Len(order) <= room THEN order ELSE SubSeq(order, 1, room))
  /\ UNCHANGED inQueue

\* ve_tls_env_tick_locked: the flag is set for all, and those that have no
\* place in the queue are left out of it.
Tick ==
  /\ \E order \in SetToSeqs(Ticked) :
       LET room == QueueCap - Len(queue)
       IN queue' = queue \o (IF Len(order) <= room THEN order ELSE SubSeq(order, 1, room))
  /\ inQueue' = [p \in Producers |-> inQueue[p] \/ p \in Ticked]

\* ve_tls_producer_is_drained_locked: no builder has a log, no batch is sealed,
\* queued or with a worker, and no task is queued or sent.
Drained(p) ==
  /\ building[p] = 0 /\ packing[p] = 0 /\ tasks[p] = 0
  /\ \A s \in Senders : held[s] = p => pc[s] # "sending"

DestroyDrained(d) ==
  /\ pc[d] = "drain"
  /\ queue = <<>> /\ \A p \in list : Drained(p)
  /\ stop' = TRUE
  /\ Goto(d, "join")
  /\ UNCHANGED <<lifeVars, ops, list, queue, flagVars, holds, taskVars, senderVars>>

NotDrained == queue # <<>> \/ \E p \in list : ~Drained(p)

\* Another turn of the loop, after 50 ms.
DestroyTick(d) ==
  /\ pc[d] = "drain" /\ NotDrained
  /\ Tick
  /\ UNCHANGED <<lifeVars, ops, stop, list, registered, holds, taskVars, senderVars, pc>>

\* The timeout: the environment goes on as before.
DestroyTimeout(d) ==
  /\ pc[d] = "drain" /\ NotDrained
  /\ destroying' = FALSE /\ tearing' = FALSE
  /\ Goto(d, "idle")
  /\ UNCHANGED <<calls, inited, resources, ops, stop, list, queue, flagVars, holds, taskVars, senderVars>>

DestroyJoin(d) ==
  /\ pc[d] = "join" /\ \A s \in Senders : pc[s] = "exited"
  /\ inited' = FALSE /\ stop' = FALSE
  /\ Goto(d, "free")
  /\ UNCHANGED <<calls, resources, destroying, tearing, ops, list, queue, flagVars, holds, taskVars, senderVars>>

DestroyFree(d) ==
  /\ pc[d] = "free"
  /\ resources' = FALSE
  /\ queue' = <<>> /\ list' = {}
  /\ registered' = [p \in Producers |-> registered[p] /\ p \notin list]
  /\ inQueue' = [p \in Producers |-> inQueue[p] /\ p \notin list]
  /\ Goto(d, "finish")
  /\ UNCHANGED <<calls, inited, destroying, tearing, ops, stop, holds, taskVars, senderVars>>

\* ve_tls_env_destroy_finish_lifecycle
DestroyFinish(d) ==
  /\ pc[d] = "finish"
  /\ destroying' = FALSE /\ tearing' = FALSE /\ ops' = 0
  /\ Goto(d, "idle")
  /\ UNCHANGED <<calls, inited, resources, stop, list, queue, flagVars, holds, taskVars, senderVars>>

-----------------------------------------------------------------------------
(* A producer registers, works, and unregisters.                           *)

\* ve_tls_producer_create: a producer that cannot register is destroyed again.
RegisterBegin(p) ==
  /\ pc[p] = "none"
  /\ \/ MayBegin /\ ops' = ops + 1 /\ Goto(p, "register")
     \/ ~MayBegin /\ UNCHANGED ops /\ Goto(p, "closing")
  /\ UNCHANGED <<lifeVars, stop, list, queue, flagVars, holds, taskVars, senderVars>>

RegisterInsert(p) ==
  /\ pc[p] = "register"
  /\ registered' = [registered EXCEPT ![p] = ~stop]
  /\ list' = IF stop THEN list ELSE list \cup {p}
  /\ Goto(p, "registered")
  /\ UNCHANGED <<lifeVars, ops, stop, queue, inQueue, holds, taskVars, senderVars>>

\* The rest of create may fail, too.
RegisterEnd(p) ==
  /\ pc[p] = "registered"
  /\ LifecycleEnd
  /\ \/ Goto(p, "notify")
     \/ MayFail /\ Goto(p, "closing")
  /\ UNCHANGED <<lifeVars, stop, list, queue, flagVars, holds, taskVars, senderVars>>

\* A log begins a batch.
AddLog(p) ==
  /\ pc[p] = "live" /\ arrived[p] < MaxTasks
  /\ building' = [building EXCEPT ![p] = @ + 1]
  /\ arrived' = [arrived EXCEPT ![p] = @ + 1]
  /\ UNCHANGED <<lifeVars, ops, stop, list, queue, flagVars, holds, packing, tasks, stopped, senderVars, pc>>

\* A log fills the batch, its interval ends, or the application asks for a flush.
SealBatch(p) ==
  /\ building[p] > 0
  /\ building' = [building EXCEPT ![p] = @ - 1]
  /\ packing' = [packing EXCEPT ![p] = @ + 1]
  /\ UNCHANGED <<lifeVars, ops, stop, list, queue, flagVars, holds, arrived, tasks, stopped, senderVars, pc>>

\* A worker of the producer puts a task into its send queue, and calls nobody;
\* or it drops the batch.
NewTask(p) ==
  /\ packing[p] > 0
  /\ packing' = [packing EXCEPT ![p] = @ - 1]
  /\ tasks' = [tasks EXCEPT ![p] = @ + 1] \/ UNCHANGED tasks
  /\ UNCHANGED <<lifeVars, ops, stop, list, queue, flagVars, holds, building, arrived, stopped, senderVars, pc>>

\* ve_tls_producer_destroy begins with a close, which asks for a flush.  Before
\* that it may fail to flush the batch of its own thread.
CloseCall(p) ==
  /\ pc[p] = "live"
  /\ \/ /\ Goto(p, "closing")
        /\ packing' = [packing EXCEPT ![p] = @ + building[p]]
        /\ building' = [building EXCEPT ![p] = 0]
     \/ MayFail /\ Goto(p, "unregister") /\ UNCHANGED <<packing, building>>
  /\ UNCHANGED <<lifeVars, ops, stop, list, queue, flagVars, holds, arrived, tasks, stopped, senderVars>>

\* ... which ends when the producer is drained, or with a timeout.
CloseEnd(p) ==
  /\ pc[p] = "closing"
  /\ stopped' = [stopped EXCEPT ![p] = Drained(p)]
  /\ Goto(p, "unregister")
  /\ UNCHANGED <<lifeVars, ops, stop, list, queue, flagVars, holds, batchVars, tasks, senderVars>>

\* ve_tls_env_lifecycle_begin_unregister
UnregisterBegin(p) ==
  /\ pc[p] = "unregister" /\ ~tearing
  /\ IF ResourcesReady
       THEN ops' = ops + 1 /\ Goto(p, "remove") /\ UNCHANGED flagVars
       ELSE /\ registered' = [registered EXCEPT ![p] = FALSE]
            /\ inQueue' = [inQueue EXCEPT ![p] = FALSE]
            /\ Goto(p, "unheld") /\ UNCHANGED ops
  /\ UNCHANGED <<lifeVars, stop, list, queue, holds, taskVars, senderVars>>

\* Mutant of TakeOut: the run queue keeps the producer.
TakeOutListed(p) ==
  /\ list' = list \ {p}
  /\ UNCHANGED queue

TakeOut(p) ==
  /\ list' = list \ {p}
  /\ queue' = [i \in DOMAIN queue |-> IF queue[i] = p THEN None ELSE queue[i]]

UnregisterRemove(p) ==
  /\ pc[p] = "remove"
  /\ TakeOut(p)
  /\ registered' = [registered EXCEPT ![p] = FALSE]
  /\ inQueue' = [inQueue EXCEPT ![p] = FALSE]
  /\ Goto(p, "removed")
  /\ UNCHANGED <<lifeVars, ops, stop, holds, taskVars, senderVars>>

UnregisterEnd(p) ==
  /\ pc[p] = "removed"
  /\ LifecycleEnd
  /\ Goto(p, "unheld")
  /\ UNCHANGED <<lifeVars, stop, list, queue, flagVars, holds, taskVars, senderVars>>

\* No sender works for the producer any more: it is freed, with all it has.
Free(p) ==
  /\ pc[p] = "unheld" /\ holds[p] = 0
  /\ building' = [building EXCEPT ![p] = 0]
  /\ packing' = [packing EXCEPT ![p] = 0]
  /\ tasks' = [tasks EXCEPT ![p] = 0]
  /\ Goto(p, "freed")
  /\ UNCHANGED <<lifeVars, ops, stop, list, queue, flagVars, holds, arrived, stopped, senderVars>>

-----------------------------------------------------------------------------
(* ve_tls_env_notify, by a sender for the producer it holds or by create.  *)

Target(th) == IF th \in Senders THEN held[th] ELSE th
NotifyReturns(th) == Goto(th, IF th \in Senders THEN ret[th] ELSE "live")

NotifyBegin(th) ==
  /\ pc[th] = "notify"
  /\ IF MayBegin
       THEN ops' = ops + 1 /\ Goto(th, "mark")
       ELSE UNCHANGED ops /\ NotifyReturns(th)
  /\ UNCHANGED <<lifeVars, stop, list, queue, flagVars, holds, taskVars, senderVars>>

\* The flag is exchanged before the mutex is taken.
NotifyMark(th) ==
  LET p == Target(th) IN
  /\ pc[th] = "mark"
  /\ IF registered[p] /\ ~inQueue[p]
       THEN inQueue' = [inQueue EXCEPT ![p] = TRUE] /\ Goto(th, "push")
       ELSE UNCHANGED inQueue /\ Goto(th, "notified")
  /\ UNCHANGED <<lifeVars, ops, stop, list, queue, registered, holds, taskVars, senderVars>>

NotifyPush(th) ==
  LET p == Target(th) IN
  /\ pc[th] = "push"
  /\ IF ~stop /\ registered[p]
       THEN /\ queue' = IF Len(queue) < QueueCap THEN Append(queue, p) ELSE queue
            /\ UNCHANGED inQueue
       ELSE inQueue' = [inQueue EXCEPT ![p] = FALSE] /\ UNCHANGED queue
  /\ Goto(th, "notified")
  /\ UNCHANGED <<lifeVars, ops, stop, list, registered, holds, taskVars, senderVars>>

NotifyEnd(th) ==
  /\ pc[th] = "notified"
  /\ LifecycleEnd
  /\ NotifyReturns(th)
  /\ UNCHANGED <<lifeVars, stop, list, queue, flagVars, holds, taskVars, senderVars>>

-----------------------------------------------------------------------------
(* ve_tls_env_sender_main                                                  *)

SenderTick(s) ==
  /\ pc[s] = "idle" /\ ~stop /\ queue = <<>>
  /\ Tick
  /\ UNCHANGED <<lifeVars, ops, stop, list, registered, holds, taskVars, senderVars, pc>>

SenderExit(s) ==
  /\ pc[s] = "idle" /\ stop
  /\ Goto(s, "exited")
  /\ UNCHANGED <<lifeVars, ops, stop, list, queue, flagVars, holds, taskVars, senderVars>>

\* env_inflight is raised under the mutex of the pop.
Hold(p) == holds' = [holds EXCEPT ![p] = @ + 1]

SenderPop(s) ==
  LET p == Head(queue) IN
  /\ pc[s] = "idle" /\ ~stop /\ queue # <<>>
  /\ queue' = Tail(queue)
  /\ IF p = None
       THEN UNCHANGED <<held, holds, pc>>
       ELSE held' = [held EXCEPT ![s] = p] /\ Hold(p) /\ Goto(s, "popped")
  /\ UNCHANGED <<lifeVars, ops, stop, list, flagVars, taskVars, round, ret>>

\* Mutant of ClearFlag: the flag is left set.
ClearFlagNot(p) == UNCHANGED inQueue

ClearFlag(p) == inQueue' = [inQueue EXCEPT ![p] = FALSE]

\* The flag is cleared after the mutex; a closed producer is left alone.
SenderCleared(s) ==
  /\ pc[s] = "popped"
  /\ ClearFlag(held[s])
  /\ round' = [round EXCEPT ![s] = Steps]
  /\ Goto(s, IF stopped[held[s]] THEN "done" ELSE "step")
  /\ UNCHANGED <<lifeVars, ops, stop, list, queue, registered, holds, taskVars, held, ret>>

\* ve_tls_sender_step takes a task, or finds none; after some of them, or
\* without a task, the sender looks for pending tasks.
SenderStep(s) ==
  LET p == held[s] IN
  /\ pc[s] = "step"
  /\ IF tasks[p] > 0 /\ round[s] > 0
       THEN /\ tasks' = [tasks EXCEPT ![p] = @ - 1]
            /\ round' = [round EXCEPT ![s] = @ - 1]
            /\ Goto(s, "sending")
       ELSE Goto(s, "pending") /\ UNCHANGED <<tasks, round>>
  /\ UNCHANGED <<lifeVars, ops, stop, list, queue, flagVars, holds, batchVars, stopped, held, ret>>

\* use_global_env is cleared before the producer unregisters.
UsesEnv(p) == pc[p] \in {"registered", "notify", "mark", "push", "notified", "live", "closing"}

\* The task is done; ve_tls_sender_step ends with a notify.
SenderSent(s) ==
  /\ pc[s] = "sending"
  /\ ret' = [ret EXCEPT ![s] = "step"]
  /\ Goto(s, IF UsesEnv(held[s]) THEN "notify" ELSE "step")
  /\ UNCHANGED <<lifeVars, ops, stop, list, queue, flagVars, holds, taskVars, held, round>>

SenderPending(s) ==
  /\ pc[s] = "pending"
  /\ ret' = [ret EXCEPT ![s] = "done"]
  /\ Goto(s, IF HasPending(held[s]) THEN "notify" ELSE "done")
  /\ UNCHANGED <<lifeVars, ops, stop, list, queue, flagVars, holds, taskVars, held, round>>

SenderDone(s) ==
  /\ pc[s] = "done"
  /\ holds' = [holds EXCEPT ![held[s]] = @ - 1]
  /\ held' = [held EXCEPT ![s] = None]
  /\ Goto(s, "idle")
  /\ UNCHANGED <<lifeVars, ops, stop, list, queue, flagVars, taskVars, round, ret>>

-----------------------------------------------------------------------------
AdminStep(d) ==
  \/ DestroyOpsEnded(d)
  \/ DestroyDrained(d)
  \/ DestroyTick(d)
  \/ DestroyJoin(d)
  \/ DestroyFree(d)
  \/ DestroyFinish(d)

Notify(th) ==
  \/ NotifyBegin(th)
  \/ NotifyMark(th)
  \/ NotifyPush(th)
  \/ NotifyEnd(th)

ProducerStep(p) ==
  \/ RegisterInsert(p)
  \/ RegisterEnd(p)
  \/ CloseEnd(p)
  \/ UnregisterBegin(p)
  \/ UnregisterRemove(p)
  \/ UnregisterEnd(p)
  \/ Free(p)
  \/ Notify(p)

EnvSender(s) ==
  \/ SenderTick(s)
  \/ SenderExit(s)
  \/ SenderPop(s)
  \/ SenderCleared(s)
  \/ SenderStep(s)
  \/ SenderSent(s)
  \/ SenderPending(s)
  \/ SenderDone(s)
  \/ Notify(s)

EnvNext ==
  \/ \E d \in Admins : InitEnv(d) \/ DestroyCall(d) \/ DestroyTimeout(d) \/ AdminStep(d)
  \/ \E p \in Producers : \/ RegisterBegin(p) \/ AddLog(p) \/ SealBatch(p) \/ CloseCall(p)
                         \/ NewTask(p) \/ ProducerStep(p)
  \/ \E s \in Senders : EnvSender(s)

EnvSpec == EnvInit /\ [][EnvNext]_envVars

\* Every thread that can go on does so.  Nobody has to call anything, and no
\* timeout has to come: a batch that nobody asks to flush may stay for ever.
EnvFairSpec ==
  /\ EnvSpec
  /\ \A d \in Admins : WF_envVars(AdminStep(d))
  /\ \A p \in Producers : WF_envVars(ProducerStep(p)) /\ WF_envVars(NewTask(p))
  /\ \A s \in Senders : WF_envVars(EnvSender(s))

-----------------------------------------------------------------------------
(* Properties.                                                             *)

\* The types of the variables; the run queue keeps to its capacity.
EnvTypeOK ==
  /\ {inited, resources, destroying, tearing, stop} \subseteq BOOLEAN
  /\ ops \in Nat
  /\ list \subseteq Producers
  /\ queue \in Seq(Producers \cup {None}) /\ Len(queue) <= QueueCap
  /\ flagVars \in [Producers -> BOOLEAN] \X [Producers -> BOOLEAN]
  /\ holds \in [Producers -> Nat]
  /\ {building, packing, tasks} \subseteq [Producers -> Nat]
  /\ held \in [Senders -> Producers \cup {None}]

\* Nothing the senders can reach leads to a producer that was freed: it is not
\* in the list or the run queue, and no sender works for it.
NoFreedProducer ==
  \A p \in Producers : pc[p] = "freed" =>
    /\ p \notin list /\ p \notin ToSet(queue)
    /\ \A s \in Senders : held[s] # p

\* Who uses g_env: after its memory is freed nobody does.
UsesResources(th) ==
  \/ th \in Senders /\ pc[th] # "exited"
  \/ pc[th] \in {"register", "registered", "remove", "removed", "mark", "push", "notified"}
  \/ pc[th] \in {"drain", "join", "free"}

\* The locks, the queue and the sender threads exist as long as someone uses
\* them: no destroy overtakes an operation, a sender or another destroy.
ResourcesAlive == \A th \in Threads : UsesResources(th) => resources

\* A producer with env_in_queue set is in the run queue, or on its way into
\* or out of it; no producer is there twice.  Otherwise it would never be run
\* again, since the flag keeps everyone from putting it there.
FlagExact ==
  /\ EnvTypeOK
  /\ \A p \in Producers :
       /\ Cardinality({i \in DOMAIN queue : queue[i] = p}) <= 1
       /\ inQueue[p] => \/ p \in ToSet(queue)
                        \/ \E s \in Senders : held[s] = p /\ pc[s] = "popped"
                        \/ \E th \in Producers \cup Senders : Target(th) = p /\ pc[th] = "push"

\* A task of a registered producer is taken by a sender in the end, although no
\* worker notifies the environment, unless the producer or the environment goes.
TasksServed ==
  \A p \in Producers : (tasks[p] > 0 /\ p \in list) ~> (tasks[p] = 0 \/ p \notin list)

\* A registered producer has a batch that nobody has asked to flush.
Unflushed == \E p \in list : building[p] > 0

\* destroy of the environment and destroy of a producer come back, also when
\* they wait for each other, unless a registered producer keeps a batch that is
\* never flushed: the destroy of the environment waits for its batches, too, but
\* asks nobody to flush them, and an unregister waits for that destroy.
DestroyReturns ==
  /\ \A d \in Admins : (pc[d] # "idle") ~> (pc[d] = "idle" \/ []Unflushed)
  /\ \A p \in Producers :
       (pc[p] \in {"closing", "unregister"}) ~> (pc[p] = "freed" \/ []Unflushed)
=============================================================================

----------------------------- MODULE PipelineProofs -----------------------------
(***************************************************************************)
(* Proofs about Pipeline, for every set of keys, batches, workers and      *)
(* senders and every configuration.  A batch is in one place on its way    *)
(* from the writer to the send queue, and KeyQueues has not seen it yet;   *)
(* hence the pipeline implements KeyQueues, and what KeyQueuesProofs shows *)
(* is true of it.  A batch is lost only by the free of its key queue       *)
(* (NoLostBatch), and a close that returns VE_TLS_OK leaves nothing behind *)
(* (ClosedIsDrained).                                                      *)
(***************************************************************************)
EXTENDS Pipeline, KeyQueuesProofs

-----------------------------------------------------------------------------
(* The inductive invariant.                                                *)

\* The batch is with the writer or with the workers.
Waiting(t) ==
  \/ builder[KeyOf[t]] = t
  \/ t \in Elems(sealed)
  \/ \E w \in Workers : t \in Elems(wlist[w])

\* A builder hangs off a queue that exists, and holds logs of its key.
BuildersOK == \A k \in Keys : builder[k] # None => k \in active /\ KeyOf[builder[k]] = k

\* A batch is in one builder, once in the sealed list or in one worker's list.
WaitingOnce ==
  /\ NoRepeat(sealed)
  /\ \A k \in Keys : builder[k] \notin Elems(sealed)
  /\ \A w \in Workers :
       /\ NoRepeat(wlist[w])
       /\ Elems(wlist[w]) \cap Elems(sealed) = {}
       /\ \A k \in Keys : builder[k] \notin Elems(wlist[w])
       /\ \A v \in Workers : v # w => Elems(wlist[v]) \cap Elems(wlist[w]) = {}

\* A batch that was not begun, or waits, is new to the senders.
WaitingFresh ==
  \A t \in Tasks :
    /\ Waiting(t) => t \in begun
    /\ Waiting(t) \/ t \notin begun => Fresh(t)

\* A worker has a list only in its round, and a batch when it puts one.
WorkersOK ==
  \A w \in Workers :
    /\ wpc[w] = "put" => wlist[w] # <<>>
    /\ wpc[w] \in {"idle", "exited"} => wlist[w] = <<>>

WayInv == PipelineTypeOK /\ BuildersOK /\ WaitingOnce /\ WaitingFresh /\ WorkersOK

PipelineInv == OnceInv /\ WayInv

-----------------------------------------------------------------------------
(* Facts about the steps.                                                  *)

\* What is at the front of a list, and what is behind it.
LEMMA TailElems ==
  ASSUME NEW q \in Seq(Tasks), q # <<>>
  PROVE  Elems(Tail(q)) \cup {Head(q)} = Elems(q)
<1>1. /\ Len(q) \in Nat /\ Len(q) > 0 /\ DOMAIN q = 1..Len(q)
      /\ Len(Tail(q)) = Len(q) - 1 /\ DOMAIN Tail(q) = 1..(Len(q) - 1)
      /\ \A i \in 1..(Len(q) - 1) : Tail(q)[i] = q[i + 1]
      /\ Head(q) = q[1]
  OBVIOUS
<1>2. ASSUME NEW e \in Elems(q)
      PROVE  e \in Elems(Tail(q)) \cup {Head(q)}
  <2>1. PICK i \in 1..Len(q) : e = q[i]
    BY <1>1 DEF Elems
  <2>2. CASE i = 1
    BY <1>1, <2>1, <2>2
  <2>3. CASE i # 1
    <3>1. i - 1 \in 1..(Len(q) - 1) /\ Tail(q)[i - 1] = e
      BY <1>1, <2>1, <2>3
    <3> QED
      BY <1>1, <3>1 DEF Elems
  <2> QED
    BY <2>2, <2>3
<1>3. Elems(Tail(q)) \subseteq Elems(q) /\ Head(q) \in Elems(q)
  BY <1>1 DEF Elems
<1> QED
  BY <1>2, <1>3

\* The batches that a round of a worker seals: each of them once.
LEMMA SealOrdersFacts ==
  ASSUME PipelineInv, NEW K \in SUBSET Building, NEW p \in SealOrders(K)
  PROVE  /\ p \in Seq(Tasks)
         /\ Elems(p) = {builder[k] : k \in K}
         /\ NoRepeat(p)
<1> DEFINE B == {builder[k] : k \in K}
<1>1. K \subseteq Keys /\ \A k \in K : builder[k] # None /\ builder[k] \in Tasks /\ KeyOf[builder[k]] = k
  BY DEF Building, PipelineInv, WayInv, BuildersOK, PipelineTypeOK, OnceInv, Inv, TypeOK, ListTypes
<1>2. IsFiniteSet(K)
  BY <1>1, FS_Subset, KeyQueuesAssumption
<1>3. Cardinality(K) \in Nat
  BY <1>2, FS_CardinalityType
<1>4. PICK n \in Nat : n = Cardinality(K)
  BY <1>3
<1>5. IsFiniteSet(B) /\ Cardinality(B) = n
  <2> DEFINE f == [k \in K |-> builder[k]]
  <2>1. f \in [K -> B]
    OBVIOUS
  <2>2. IsInjective(f)
    BY <1>1 DEF IsInjective
  <2>3. f \in Bijection(K, B)
    BY <2>1, <2>2 DEF Bijection, Injection, Surjection
  <2>4. ExistsBijection(K, B)
    BY <2>3 DEF ExistsBijection
  <2> QED
    BY <1>2, <1>4, <2>4, FS_Bijection
<1>6. p \in [1..n -> B] /\ Elems(p) = B
  BY <1>4 DEF SealOrders
<1>7. p \in Surjection(1..n, B)
  BY <1>6 DEF Surjection, Elems
<1>8. IsFiniteSet(1..n) /\ Cardinality(1..n) = n
  BY FS_Interval
<1>9. p \in Injection(1..n, B)
  BY <1>5, <1>7, <1>8, FS_SurjSameCardinalityImpliesInj
<1>10. NoRepeat(p)
  BY <1>6, <1>9 DEF Injection, IsInjective, NoRepeat
<1>11. p \in Seq(Tasks)
  <2>1. p \in [1..n -> Tasks]
    BY <1>1, <1>6
  <2> QED
    BY <2>1
<1> QED
  BY <1>6, <1>10, <1>11

\* A step of a sender leaves a batch alone that is new to the senders.
LEMMA FreshKept ==
  ASSUME OnceInv, NEW t \in Tasks, Fresh(t), NEW s \in Senders, SenderStep(s)
  PROVE  Fresh(t)'
<1> USE DEF OnceInv
<1>0. /\ callbacks[t] = 0 /\ t \notin Elems(sendq) /\ t \notin Elems(pushed[KeyOf[t]])
      /\ \A u \in Senders : task[u] # t
      /\ KeyOf[t] \in Keys /\ t # None
  BY ConstantFacts DEF Fresh
<1>t. /\ sendq \in Seq(Tasks) /\ pushed \in [Keys -> Seq(Tasks)] /\ callbacks \in [Tasks -> Nat]
      /\ task \in [Senders -> Tasks \cup {None}] /\ tasks \in [Keys -> Seq(Tasks)]
  BY DEF Inv, TypeOK, ListTypes, HistoryTypes, SenderTypes
<1> DEFINE Goal == /\ callbacks'[t] = 0
                   /\ t \notin Elems(sendq') /\ t \notin Elems(pushed'[KeyOf[t]])
                   /\ \A u \in Senders : task'[u] # t
<1>1. CASE NothingMoves
  BY <1>0, <1>1 DEF NothingMoves, Fresh, Elems
<1>2. ASSUME NEW k \in Keys, TakeMove(s, k)
      PROVE  Goal
  <2>1. Head(tasks[k]) \in Elems(tasks[k])
    BY <1>2, <1>t, TailFacts DEF TakeMove
  <2>2. Head(tasks[k]) \in Elems(pushed[k])
    BY <2>1, FifoParts
  <2>3. Head(tasks[k]) # t
    BY <1>0, <2>2 DEF PushedOnce
  <2> QED
    BY <1>0, <1>2, <2>3 DEF TakeMove, HandsOf
<1>3. CASE PopMove(s)
  <2>1. Head(sendq) # t /\ Elems(Tail(sendq)) \subseteq Elems(sendq)
    BY <1>0, <1>3, <1>t, TailFacts DEF PopMove, SendqOnce
  <2>2. Goal
    BY <1>0, <1>3, <2>1 DEF PopMove, HandsOf
  <2> QED
    BY <2>2 DEF Fresh, Elems
<1>4. CASE PushMove(s)
  <2>1. task[s] \in Tasks /\ KeyOf[task[s]] \in Keys
    BY <1>4, ConstantFacts DEF Inv, SenderOK, PushMove
  <2>2. t \notin Elems(pushed'[KeyOf[t]])
    <3>1. CASE KeyOf[task[s]] = KeyOf[t]
      <4>1. pushed'[KeyOf[t]] = Append(pushed[KeyOf[t]], task[s])
        BY <1>0, <1>4, <1>t, <3>1 DEF PushMove
      <4>2. Elems(Append(pushed[KeyOf[t]], task[s])) = Elems(pushed[KeyOf[t]]) \cup {task[s]}
        BY <1>0, <1>t, <2>1, AppendFacts
      <4> QED
        BY <1>0, <4>1, <4>2
    <3>2. CASE KeyOf[task[s]] # KeyOf[t]
      <4>1. pushed'[KeyOf[t]] = pushed[KeyOf[t]]
        BY <1>0, <1>4, <1>t, <3>2 DEF PushMove
      <4> QED
        BY <1>0, <4>1
    <3> QED
      BY <3>1, <3>2
  <2>3. Goal
    BY <1>0, <1>4, <2>2 DEF PushMove, HandsOf
  <2> QED
    BY <2>3 DEF Fresh, Elems
<1>5. CASE RefuseMove(s) \/ EndMove(s)
  <2>1. callbacks'[t] = 0
    BY <1>0, <1>5, <1>t DEF RefuseMove, EndMove
  <2>2. Goal
    BY <1>0, <1>5, <2>1 DEF RefuseMove, EndMove, HandsOf
  <2> QED
    BY <2>2 DEF Fresh, Elems
<1>6. CASE ReturnMove(s)
  <2>1. Goal
    BY <1>0, <1>6 DEF ReturnMove, HandsOf
  <2> QED
    BY <2>1 DEF Fresh, Elems
<1>7. ASSUME NEW k \in Keys, TakeMove(s, k)
      PROVE  Fresh(t)'
  <2>1. Goal
    BY <1>2, <1>7
  <2> QED
    BY <2>1 DEF Fresh, Elems
<1> QED
  BY <1>1, <1>3, <1>4, <1>5, <1>6, <1>7, SenderMoves DEF SenderMove

\* So does what a worker does with another batch.
LEMMA FreshOthers ==
  ASSUME OnceInv, NEW t \in Tasks, Fresh(t), NEW u \in Tasks, u # t, Inbound(u) \/ DropTask(u)
  PROVE  Fresh(t)'
<1>1. Elems(Append(sendq, u)) = Elems(sendq) \cup {u}
  BY AppendFacts DEF OnceInv, Inv, TypeOK, ListTypes
<1>2. CASE Inbound(u)
  <2>1. t \notin Elems(sendq') /\ UNCHANGED <<callbacks, pushed, task>>
    BY <1>1, <1>2 DEF Inbound, Fresh, historyVars, senderVars
  <2> QED
    BY <2>1 DEF Fresh, Elems
<1>3. CASE DropTask(u)
  <2>1. callbacks'[t] = callbacks[t] /\ UNCHANGED <<sendq, pushed, task>>
    BY <1>3 DEF DropTask, senderVars, OnceInv, Inv, TypeOK, HistoryTypes
  <2> QED
    BY <2>1 DEF Fresh, Elems
<1> QED
  BY <1>2, <1>3

\* And whatever leaves tasks and callbacks alone.
LEMMA FreshSame ==
  ASSUME NEW t \in Tasks, Fresh(t), UNCHANGED <<callbacks, sendq, pushed, task>>
  PROVE  Fresh(t)'
BY DEF Fresh, Elems

-----------------------------------------------------------------------------
(* Every step of the pipeline is a step of KeyQueues.                      *)

\* The batch a worker is at is new to the senders.
LEMMA WorkerBatch ==
  ASSUME PipelineInv, NEW w \in Workers, wlist[w] # <<>>
  PROVE  /\ Head(wlist[w]) \in Tasks /\ Head(wlist[w]) \in Elems(wlist[w])
         /\ Tail(wlist[w]) \in Seq(Tasks) /\ NoRepeat(Tail(wlist[w]))
         /\ Elems(Tail(wlist[w])) = Elems(wlist[w]) \ {Head(wlist[w])}
         /\ Fresh(Head(wlist[w])) /\ Head(wlist[w]) \in begun
         /\ KeyOf[Head(wlist[w])] \in Keys
<1>1. wlist[w] \in Seq(Tasks) /\ NoRepeat(wlist[w])
  BY DEF PipelineInv, WayInv, PipelineTypeOK, WaitingOnce
<1>2. /\ Head(wlist[w]) \in Tasks /\ Head(wlist[w]) \in Elems(wlist[w])
      /\ Tail(wlist[w]) \in Seq(Tasks) /\ NoRepeat(Tail(wlist[w]))
      /\ Elems(Tail(wlist[w])) = Elems(wlist[w]) \ {Head(wlist[w])}
  BY <1>1, TailFacts
<1>3. Waiting(Head(wlist[w]))
  BY <1>2 DEF Waiting
<1> QED
  BY <1>2, <1>3, ConstantFacts DEF PipelineInv, WayInv, WaitingFresh

\* A log joins the batch that is built for its key, or begins a new one.
LEMMA JoinedBatch ==
  ASSUME PipelineInv, NEW t \in Tasks, Joins(t)
  PROVE  /\ KeyOf[t] \in Keys /\ t # None
         /\ builder[KeyOf[t]] = t \/ ~Waiting(t)
         /\ builder[KeyOf[t]] # t => builder[KeyOf[t]] = None /\ t \notin begun
         /\ Fresh(t)
         /\ ~CanGet(KeyOf[t]) => builder[KeyOf[t]] = None /\ t \notin begun
<1>1. KeyOf[t] \in Keys /\ t # None
  BY ConstantFacts
<1>2. CASE builder[KeyOf[t]] = t
  <2>1. KeyOf[t] \in active /\ CanGet(KeyOf[t])
    BY <1>1, <1>2 DEF PipelineInv, WayInv, BuildersOK, CanGet
  <2>2. Fresh(t)
    BY <1>2 DEF PipelineInv, WayInv, WaitingFresh, Waiting
  <2> QED
    BY <1>1, <1>2, <2>1, <2>2
<1>3. CASE builder[KeyOf[t]] = None /\ t \notin begun
  <2>1. ~Waiting(t) /\ Fresh(t)
    BY <1>3 DEF PipelineInv, WayInv, WaitingFresh
  <2> QED
    BY <1>1, <1>3, <2>1
<1> QED
  BY <1>2, <1>3 DEF Joins

\* The pipeline does to the key queues what KeyQueues allows.
LEMMA PipelineStep ==
  ASSUME PipelineInv, [PipelineNext]_pipelineVars
  PROVE  [Next]_vars
<1>1. ASSUME NEW t \in Tasks, NEW full \in Flushes, AddLog(t, full)
      PROVE  Next
  <2>1. KeyOf[t] \in Keys /\ Fresh(t)
    BY <1>1, JoinedBatch DEF AddLog
  <2> QED
    BY <1>1, <2>1 DEF AddLog, Next
<1>2. ASSUME NEW w \in Workers, WorkerReserve(w)
      PROVE  Next
  <2>1. Head(wlist[w]) \in Tasks /\ KeyOf[Head(wlist[w])] \in Keys /\ Fresh(Head(wlist[w]))
    BY <1>2, WorkerBatch DEF WorkerReserve
  <2> QED
    BY <1>2, <2>1 DEF WorkerReserve, Next
<1>3. ASSUME NEW w \in Workers, WorkerPut(w)
      PROVE  Next
  <2>1. Head(wlist[w]) \in Tasks /\ Fresh(Head(wlist[w]))
    BY <1>3, WorkerBatch DEF WorkerPut, PipelineInv, WayInv, WorkersOK
  <2> QED
    BY <1>3, <2>1 DEF WorkerPut, Next
<1>4. ASSUME NEW w \in Workers, SealAndTake(w) \/ WorkerDone(w) \/ WorkerExit(w)
      PROVE  UNCHANGED vars
  BY <1>4 DEF SealAndTake, WorkerDone, WorkerExit
<1>5. ASSUME NEW s \in Senders, PipelineSender(s)
      PROVE  Next
  BY <1>5 DEF PipelineSender, Next
<1>6. CASE Close \/ CloseTimeout \/ CloseJoin \/ UNCHANGED pipelineVars
  BY <1>6 DEF Close, CloseTimeout, CloseJoin, pipelineVars
<1>7. CASE CloseDrained \/ CloseStopQueue \/ PipelineTick
  BY <1>7 DEF CloseDrained, CloseStopQueue, PipelineTick, Next
<1> QED
  BY <1>1, <1>2, <1>3, <1>4, <1>5, <1>6, <1>7
     DEF PipelineNext, WorkerStep, WorkerRound, WorkerInterval, CloseStep

-----------------------------------------------------------------------------
(* The invariant holds at the start and is kept.                           *)

\* Nothing was begun.
LEMMA WayInit ==
  ASSUME PipelineInit
  PROVE  WayInv
<1> USE DEF PipelineInit, Init
<1>1. PipelineTypeOK
  <2>1. wlist \in [Workers -> Seq(Tasks)] /\ sealed \in Seq(Tasks)
    OBVIOUS
  <2> QED
    BY <2>1 DEF PipelineTypeOK
<1>2. Elems(<<>>) = {} /\ NoRepeat(<<>>)
  BY DEF Elems, NoRepeat
<1>3. BuildersOK /\ WaitingOnce /\ WorkersOK
  BY <1>2 DEF BuildersOK, WaitingOnce, WorkersOK
<1>4. ASSUME NEW t \in Tasks
      PROVE  ~Waiting(t) /\ Fresh(t)
  <2>1. t # None /\ KeyOf[t] \in Keys
    BY ConstantFacts
  <2> QED
    BY <1>2, <2>1 DEF Waiting, Fresh
<1> QED
  BY <1>1, <1>3, <1>4 DEF WayInv, WaitingFresh

\* The parts of the invariant in the next state, with the primes at the
\* variables.
LEMMA WayIntro ==
  ASSUME PipelineTypeOK',
         \A k \in Keys : builder'[k] # None => k \in active' /\ KeyOf[builder'[k]] = k,
         NoRepeat(sealed'),
         \A k \in Keys : builder'[k] \notin Elems(sealed'),
         \A w \in Workers :
           /\ NoRepeat(wlist'[w])
           /\ Elems(wlist'[w]) \cap Elems(sealed') = {}
           /\ \A k \in Keys : builder'[k] \notin Elems(wlist'[w])
           /\ \A v \in Workers : v # w => Elems(wlist'[v]) \cap Elems(wlist'[w]) = {},
         \A t \in Tasks :
           \/ t \in begun' /\ Fresh(t)'
           \/ /\ t \notin begun' => Fresh(t)'
              /\ builder'[KeyOf[t]] # t /\ t \notin Elems(sealed')
              /\ \A w \in Workers : t \notin Elems(wlist'[w]),
         WorkersOK'
  PROVE  WayInv'
<1>1. BuildersOK'
  BY DEF BuildersOK
<1>2. WaitingOnce'
  BY DEF WaitingOnce, NoRepeat, Elems
<1>3. WaitingFresh'
  <2> SUFFICES ASSUME NEW t \in Tasks
               PROVE  /\ Waiting(t)' => t \in begun'
                      /\ Waiting(t)' \/ t \notin begun' => Fresh(t)'
    BY DEF WaitingFresh
  <2>1. Waiting(t)' <=> \/ builder'[KeyOf[t]] = t
                        \/ t \in Elems(sealed')
                        \/ \E w \in Workers : t \in Elems(wlist'[w])
    BY DEF Waiting, Elems
  <2> QED
    BY <2>1
<1> QED
  BY <1>1, <1>2, <1>3 DEF WayInv

\* A step that moves no batch, or frees builders.
LEMMA QuietWay ==
  ASSUME PipelineInv, UNCHANGED <<sealed, begun>>, PipelineTypeOK', WorkersOK',
         \A w \in Workers : wlist'[w] = wlist[w],
         \A k \in Keys : \/ builder'[k] = None
                         \/ builder'[k] = builder[k] /\ (k \in active => k \in active'),
         \A t \in Tasks : Fresh(t) => Fresh(t)'
  PROVE  WayInv'
<1> USE DEF PipelineInv, WayInv
<1>1. \A k \in Keys : builder'[k] # None => k \in active' /\ KeyOf[builder'[k]] = k
  BY DEF BuildersOK
<1>2. NoRepeat(sealed') /\ None \notin Elems(sealed)
  BY ConstantFacts DEF WaitingOnce, PipelineTypeOK, Elems
<1>3. \A w \in Workers : None \notin Elems(wlist[w])
  BY ConstantFacts DEF PipelineTypeOK, Elems
<1>4. \A k \in Keys : builder'[k] \notin Elems(sealed')
  BY <1>2 DEF WaitingOnce
<1>5. ASSUME NEW w \in Workers
      PROVE  /\ NoRepeat(wlist'[w])
             /\ Elems(wlist'[w]) \cap Elems(sealed') = {}
             /\ \A k \in Keys : builder'[k] \notin Elems(wlist'[w])
             /\ \A v \in Workers : v # w => Elems(wlist'[v]) \cap Elems(wlist'[w]) = {}
  BY <1>3 DEF WaitingOnce
<1>6. ASSUME NEW t \in Tasks
      PROVE  \/ t \in begun' /\ Fresh(t)'
             \/ /\ t \notin begun' => Fresh(t)'
                /\ builder'[KeyOf[t]] # t /\ t \notin Elems(sealed')
                /\ \A w \in Workers : t \notin Elems(wlist'[w])
  <2>1. t # None /\ KeyOf[t] \in Keys
    BY ConstantFacts
  <2>2. CASE Waiting(t)
    BY <2>2 DEF WaitingFresh
  <2>3. CASE ~Waiting(t)
    <3>1. builder'[KeyOf[t]] # t /\ t \notin Elems(sealed') /\ \A w \in Workers : t \notin Elems(wlist'[w])
      BY <2>1, <2>3 DEF Waiting
    <3> QED
      BY <3>1 DEF WaitingFresh
  <2> QED
    BY <2>2, <2>3
<1> QED
  BY <1>1, <1>2, <1>4, <1>5, <1>6, WayIntro

\* The steps of the senders, of close and of time, and the ends of the rounds.
LEMMA QuietSteps ==
  ASSUME PipelineInv,
         \/ \E s \in Senders : PipelineSender(s)
         \/ \E w \in Workers : WorkerDone(w) \/ WorkerExit(w)
         \/ Close \/ CloseTimeout \/ CloseStep \/ PipelineTick \/ UNCHANGED pipelineVars
  PROVE  WayInv'
<1> USE DEF PipelineInv, WayInv
<1>1. ASSUME NEW s \in Senders, PipelineSender(s)
      PROVE  WayInv'
  <2>1. PipelineTypeOK' /\ WorkersOK'
    BY <1>1 DEF PipelineSender, PipelineTypeOK, WorkersOK
  <2>2. \A k \in Keys : \/ builder'[k] = None
                        \/ builder'[k] = builder[k] /\ (k \in active => k \in active')
    BY <1>1 DEF PipelineSender
  <2>3. \A t \in Tasks : Fresh(t) => Fresh(t)'
    BY <1>1, FreshKept DEF PipelineSender
  <2> QED
    BY <1>1, <2>1, <2>2, <2>3, QuietWay DEF PipelineSender
<1>2. ASSUME NEW w \in Workers, WorkerDone(w) \/ WorkerExit(w)
      PROVE  WayInv'
  <2>1. PipelineTypeOK' /\ WorkersOK'
    BY <1>2 DEF WorkerDone, WorkerExit, PipelineTypeOK, WorkersOK
  <2>2. UNCHANGED vars /\ UNCHANGED <<builder, sealed, wlist, begun>>
    BY <1>2 DEF WorkerDone, WorkerExit
  <2>3. \A t \in Tasks : Fresh(t) => Fresh(t)'
    BY <2>2, FreshSame DEF vars, historyVars, senderVars
  <2> QED
    BY <2>1, <2>2, <2>3, QuietWay DEF vars, listVars
<1>3. CASE Close \/ CloseTimeout \/ CloseStep \/ PipelineTick \/ UNCHANGED pipelineVars
  <2>1. /\ UNCHANGED <<builder, sealed, wlist, wpc, begun>>
        /\ flush' \in BOOLEAN
        /\ phase' \in {"open", "closing", "timedout", "stopping", "joining", "closed"}
    BY <1>3 DEF Close, CloseTimeout, CloseStep, CloseDrained, CloseStopQueue, CloseJoin,
                PipelineTick, pipelineVars, workerVars, PipelineTypeOK
  <2>2. UNCHANGED <<active, callbacks, sendq, pushed, task>>
    BY <1>3 DEF Close, CloseTimeout, CloseStep, CloseDrained, CloseStopQueue, CloseJoin,
                PipelineTick, pipelineVars, Stop, StopSendQueue, Tick, vars, listVars,
                historyVars, senderVars
  <2>3. PipelineTypeOK' /\ WorkersOK'
    BY <2>1 DEF PipelineTypeOK, WorkersOK
  <2>4. \A t \in Tasks : Fresh(t) => Fresh(t)'
    BY <2>2, FreshSame
  <2> QED
    BY <2>1, <2>2, <2>3, <2>4, QuietWay
<1> QED
  BY <1>1, <1>2, <1>3

\* A log joins a batch that stays in its builder, is sealed, or is dropped.
LEMMA AddLogWay ==
  ASSUME PipelineInv, NEW t \in Tasks, NEW full \in Flushes, AddLog(t, full)
  PROVE  WayInv'
<1> USE DEF PipelineInv, WayInv
<1> DEFINE k == KeyOf[t]
<1>1. /\ k \in Keys /\ t # None
      /\ builder[k] = t \/ ~Waiting(t)
      /\ builder[k] # t => builder[k] = None /\ t \notin begun
      /\ Fresh(t)
      /\ ~CanGet(k) => builder[k] = None /\ t \notin begun
  BY JoinedBatch DEF AddLog
<1>2. /\ t \notin Elems(sealed) /\ \A w \in Workers : t \notin Elems(wlist[w])
  BY <1>1 DEF Waiting, WaitingOnce
<1>3. full \in BOOLEAN
  BY PipelineAssumption
<1>4. /\ UNCHANGED <<wlist, wpc, phase>> /\ begun' = begun \cup {t}
  BY DEF AddLog
<1>5. WorkersOK'
  BY <1>4 DEF WorkersOK
<1>n. /\ None \notin Elems(sealed) /\ \A w \in Workers : None \notin Elems(wlist[w])
  BY ConstantFacts DEF PipelineTypeOK, Elems
<1>o. \A l \in Keys : l # k => builder[l] # t
  BY <1>1 DEF BuildersOK
<1>6. CASE /\ Reserve(k)
           /\ builder' = [builder EXCEPT ![k] = IF full THEN None ELSE t]
           /\ IF full THEN Seal(t) ELSE UNCHANGED sealed
           /\ flush' = (flush \/ full)
  <2>1. active' = active \cup {k} /\ UNCHANGED <<callbacks, sendq, pushed, task>>
    BY <1>6 DEF Reserve, GetOrCreate, historyVars, senderVars
  <2>2. /\ sealed' \in Seq(Tasks) /\ NoRepeat(sealed')
        /\ Elems(sealed') = Elems(sealed) \cup (IF full THEN {t} ELSE {})
    <3>1. CASE full
      <4>1. sealed' = Append(sealed, t)
        BY <1>6, <3>1 DEF Seal
      <4>2. sealed \in Seq(Tasks) /\ NoRepeat(sealed)
        BY DEF PipelineTypeOK, WaitingOnce
      <4> QED
        BY <1>2, <3>1, <4>1, <4>2, AppendFacts
    <3>2. CASE ~full
      BY <1>6, <3>2 DEF PipelineTypeOK, WaitingOnce
    <3> QED
      BY <3>1, <3>2
  <2>3. PipelineTypeOK'
    BY <1>1, <1>3, <1>4, <1>6, <2>2 DEF PipelineTypeOK
  <2>4. /\ builder'[k] = IF full THEN None ELSE t
        /\ \A l \in Keys : l # k => builder'[l] = builder[l]
    BY <1>1, <1>6 DEF PipelineTypeOK
  <2>5. \A l \in Keys : builder'[l] # None => l \in active' /\ KeyOf[builder'[l]] = l
    BY <2>1, <2>4 DEF BuildersOK
  <2>6. \A l \in Keys : builder'[l] \notin Elems(sealed')
    BY <1>1, <1>2, <1>3, <1>n, <1>o, <2>2, <2>4 DEF WaitingOnce
  <2>7. ASSUME NEW w \in Workers
        PROVE  /\ NoRepeat(wlist'[w])
               /\ Elems(wlist'[w]) \cap Elems(sealed') = {}
               /\ \A l \in Keys : builder'[l] \notin Elems(wlist'[w])
               /\ \A v \in Workers : v # w => Elems(wlist'[v]) \cap Elems(wlist'[w]) = {}
    BY <1>1, <1>2, <1>4, <1>n, <2>2, <2>4 DEF WaitingOnce
  <2>8. ASSUME NEW u \in Tasks
        PROVE  \/ u \in begun' /\ Fresh(u)'
               \/ /\ u \notin begun' => Fresh(u)'
                  /\ builder'[KeyOf[u]] # u /\ u \notin Elems(sealed')
                  /\ \A w \in Workers : u \notin Elems(wlist'[w])
    <3>1. Fresh(u) => Fresh(u)'
      BY <2>1, FreshSame
    <3>2. CASE u = t \/ Waiting(u)
      BY <1>1, <1>4, <3>1, <3>2 DEF WaitingFresh
    <3>3. CASE u # t /\ ~Waiting(u)
      <4>1. u # None /\ KeyOf[u] \in Keys
        BY ConstantFacts
      <4>2. builder'[KeyOf[u]] # u /\ u \notin Elems(sealed') /\ \A w \in Workers : u \notin Elems(wlist'[w])
        BY <1>4, <2>2, <2>4, <3>3, <4>1 DEF Waiting
      <4> QED
        BY <1>4, <3>1, <4>2 DEF WaitingFresh
    <3> QED
      BY <3>2, <3>3
  <2> QED
    BY <1>5, <2>2, <2>3, <2>5, <2>6, <2>7, <2>8, WayIntro
<1>7. CASE ~CanGet(k) /\ DropTask(t) /\ UNCHANGED <<builder, sealed, flush>>
  <2>1. PipelineTypeOK'
    BY <1>4, <1>7 DEF PipelineTypeOK
  <2>2. active' = active
    BY <1>7 DEF DropTask, listVars
  <2>3. \A l \in Keys : builder'[l] # None => l \in active' /\ KeyOf[builder'[l]] = l
    BY <1>7, <2>2 DEF BuildersOK
  <2>4. NoRepeat(sealed') /\ \A l \in Keys : builder'[l] \notin Elems(sealed')
    BY <1>7 DEF WaitingOnce
  <2>5. ASSUME NEW w \in Workers
        PROVE  /\ NoRepeat(wlist'[w])
               /\ Elems(wlist'[w]) \cap Elems(sealed') = {}
               /\ \A l \in Keys : builder'[l] \notin Elems(wlist'[w])
               /\ \A v \in Workers : v # w => Elems(wlist'[v]) \cap Elems(wlist'[w]) = {}
    BY <1>4, <1>7 DEF WaitingOnce
  <2>6. ~Waiting(t)
    BY <1>1, <1>7
  <2>7. ASSUME NEW u \in Tasks
        PROVE  \/ u \in begun' /\ Fresh(u)'
               \/ /\ u \notin begun' => Fresh(u)'
                  /\ builder'[KeyOf[u]] # u /\ u \notin Elems(sealed')
                  /\ \A w \in Workers : u \notin Elems(wlist'[w])
    <3>1. u # t /\ Fresh(u) => Fresh(u)'
      BY <1>7, FreshOthers
    <3>2. CASE Waiting(u)
      BY <1>4, <2>6, <3>1, <3>2 DEF WaitingFresh
    <3>3. CASE ~Waiting(u)
      BY <1>4, <1>7, <3>1, <3>3 DEF Waiting, WaitingFresh
    <3> QED
      BY <3>2, <3>3
  <2> QED
    BY <1>5, <2>1, <2>3, <2>4, <2>5, <2>7, WayIntro
<1> QED
  BY <1>6, <1>7 DEF AddLog

\* A round of a worker: the builders that are due join the sealed list, and
\* the worker takes it.
LEMMA RoundWay ==
  ASSUME PipelineInv, NEW w \in Workers, SealAndTake(w)
  PROVE  WayInv'
<1> USE DEF PipelineInv, WayInv
<1>0. PICK K \in SUBSET Building :
        /\ \E p \in SealOrders(K) : wlist' = [wlist EXCEPT ![w] = sealed \o p]
        /\ builder' = [k \in Keys |-> IF k \in K THEN None ELSE builder[k]]
  BY DEF SealAndTake
<1>1. PICK p \in SealOrders(K) :
        /\ wlist' = [wlist EXCEPT ![w] = sealed \o p]
        /\ builder' = [k \in Keys |-> IF k \in K THEN None ELSE builder[k]]
  BY <1>0
<1>2. /\ wlist[w] = <<>> /\ sealed' = <<>> /\ flush' = FALSE
      /\ wpc' = [wpc EXCEPT ![w] = "work"] /\ UNCHANGED <<vars, phase, begun>>
  BY DEF SealAndTake, WorkersOK
<1>3. /\ p \in Seq(Tasks) /\ NoRepeat(p) /\ Elems(p) = {builder[k] : k \in K}
  BY <1>1, SealOrdersFacts
<1>4. K \subseteq Keys
  BY <1>1 DEF Building, OnceInv, Inv, TypeOK, ListTypes
<1>5. /\ sealed \in Seq(Tasks) /\ NoRepeat(sealed) /\ Elems(sealed) \cap Elems(p) = {}
  BY <1>3, <1>4 DEF PipelineTypeOK, WaitingOnce
<1>6. PICK q \in Seq(Tasks) :
        /\ q = sealed \o p /\ NoRepeat(q)
        /\ Elems(q) = Elems(sealed) \cup Elems(p)
  <2>1. /\ sealed \o p \in Seq(Tasks) /\ NoRepeat(sealed \o p)
        /\ Elems(sealed \o p) = Elems(sealed) \cup Elems(p)
    BY <1>3, <1>5, ConcatFacts
  <2> QED
    BY <2>1, Zenon
<1>7. wlist'[w] = q /\ \A v \in Workers : v # w => wlist'[v] = wlist[v]
  BY <1>1, <1>6 DEF PipelineTypeOK
<1>8. \A k \in Keys : builder'[k] = IF k \in K THEN None ELSE builder[k]
  BY <1>1
<1>9. PipelineTypeOK'
  <2>1. builder' \in [Keys -> Tasks \cup {None}]
    BY <1>1 DEF PipelineTypeOK
  <2>2. wlist' \in [Workers -> Seq(Tasks)]
    BY <1>1, <1>6 DEF PipelineTypeOK
  <2>3. wpc' \in [Workers -> {"idle", "work", "put", "exited"}]
    BY <1>2 DEF PipelineTypeOK
  <2>4. sealed' \in Seq(Tasks)
    BY <1>2
  <2> QED
    BY <1>2, <2>1, <2>2, <2>3, <2>4 DEF PipelineTypeOK
<1>10. WorkersOK'
  BY <1>2, <1>7 DEF WorkersOK, PipelineTypeOK
<1>11. Elems(sealed') = {} /\ NoRepeat(sealed')
  BY <1>2 DEF Elems, NoRepeat
<1>12. \A k \in Keys : builder'[k] # None => k \in active' /\ KeyOf[builder'[k]] = k
  BY <1>2, <1>8 DEF BuildersOK, vars, listVars
<1>n. /\ None \notin Elems(q) /\ \A v \in Workers : None \notin Elems(wlist[v])
  BY ConstantFacts DEF PipelineTypeOK, Elems
<1>13. \A k \in Keys : builder'[k] \notin Elems(q)
  <2> SUFFICES ASSUME NEW k \in Keys, k \notin K, builder[k] \in Elems(q)
               PROVE  FALSE
    BY <1>8, <1>n
  <2>1. builder[k] \in Elems(p)
    BY <1>6 DEF WaitingOnce
  <2>2. PICK l \in K : builder[l] = builder[k]
    BY <1>3, <2>1
  <2>3. builder[l] # None /\ builder[k] # None
    BY <2>2 DEF Building
  <2> QED
    BY <1>4, <2>2, <2>3 DEF BuildersOK
<1>14. \A v \in Workers : Elems(wlist[v]) \cap Elems(q) = {}
  BY <1>3, <1>4, <1>6 DEF WaitingOnce
<1>15. ASSUME NEW v \in Workers
       PROVE  /\ NoRepeat(wlist'[v])
              /\ Elems(wlist'[v]) \cap Elems(sealed') = {}
              /\ \A k \in Keys : builder'[k] \notin Elems(wlist'[v])
              /\ \A u \in Workers : u # v => Elems(wlist'[u]) \cap Elems(wlist'[v]) = {}
  <2>1. CASE v = w
    BY <1>6, <1>7, <1>11, <1>13, <1>14, <2>1
  <2>2. CASE v # w
    <3>1. wlist'[v] = wlist[v]
      BY <1>7, <2>2
    <3>2. \A u \in Workers : u # v => Elems(wlist'[u]) \cap Elems(wlist[v]) = {}
      BY <1>7, <1>14 DEF WaitingOnce
    <3>3. \A k \in Keys : builder'[k] \notin Elems(wlist[v])
      BY <1>8, <1>n DEF WaitingOnce
    <3>4. NoRepeat(wlist[v])
      BY DEF WaitingOnce
    <3> QED
      BY <1>11, <3>1, <3>2, <3>3, <3>4
  <2> QED
    BY <2>1, <2>2
<1>16. ASSUME NEW t \in Tasks
       PROVE  \/ t \in begun' /\ Fresh(t)'
              \/ /\ t \notin begun' => Fresh(t)'
                 /\ builder'[KeyOf[t]] # t /\ t \notin Elems(sealed')
                 /\ \A v \in Workers : t \notin Elems(wlist'[v])
  <2>1. Fresh(t) => Fresh(t)'
    BY <1>2, FreshSame DEF vars, historyVars, senderVars
  <2>2. CASE Waiting(t)
    BY <1>2, <2>1, <2>2 DEF WaitingFresh
  <2>3. CASE ~Waiting(t)
    <3>1. t # None /\ KeyOf[t] \in Keys
      BY ConstantFacts
    <3>2. t \notin Elems(q)
      <4>1. \A k \in Keys : builder[k] # t
        BY <2>3, <3>1 DEF Waiting, BuildersOK
      <4> QED
        BY <1>3, <1>4, <1>6, <2>3, <4>1 DEF Waiting
    <3>3. builder'[KeyOf[t]] # t
      BY <1>8, <2>3, <3>1 DEF Waiting
    <3>4. \A v \in Workers : t \notin Elems(wlist'[v])
      BY <1>7, <2>3, <3>2 DEF Waiting
    <3> QED
      BY <1>2, <1>11, <2>1, <3>3, <3>4 DEF WaitingFresh
  <2> QED
    BY <2>2, <2>3
<1> QED
  BY <1>9, <1>10, <1>11, <1>12, <1>15, <1>16, WayIntro

\* A worker reserves a queue for its batch, hands it over or drops it.
LEMMA BatchWay ==
  ASSUME PipelineInv, NEW w \in Workers, WorkerReserve(w) \/ WorkerPut(w)
  PROVE  WayInv'
<1> USE DEF PipelineInv, WayInv
<1> DEFINE t == Head(wlist[w])
<1>1. wlist[w] # <<>>
  BY DEF WorkerReserve, WorkerPut, WorkersOK
<1>2. /\ t \in Tasks /\ t \in Elems(wlist[w])
      /\ Tail(wlist[w]) \in Seq(Tasks) /\ NoRepeat(Tail(wlist[w]))
      /\ Elems(Tail(wlist[w])) = Elems(wlist[w]) \ {t}
      /\ Fresh(t) /\ t \in begun
  BY <1>1, WorkerBatch
<1>3. UNCHANGED <<builder, sealed, flush, phase, begun>>
  BY DEF WorkerReserve, WorkerPut
<1>4. CASE WorkerReserve(w) /\ Reserve(KeyOf[t]) /\ wpc' = [wpc EXCEPT ![w] = "put"] /\ UNCHANGED wlist
  <2>1. PipelineTypeOK'
    BY <1>3, <1>4 DEF PipelineTypeOK
  <2>2. WorkersOK'
    BY <1>1, <1>4 DEF WorkersOK, PipelineTypeOK
  <2>3. /\ active \subseteq active' /\ UNCHANGED <<callbacks, sendq, pushed, task>>
    BY <1>4 DEF Reserve, GetOrCreate, historyVars, senderVars
  <2>4. \A u \in Tasks : Fresh(u) => Fresh(u)'
    BY <2>3, FreshSame
  <2> QED
    BY <1>3, <1>4, <2>1, <2>2, <2>3, <2>4, QuietWay
<1>5. CASE /\ Inbound(t) \/ DropTask(t)
           /\ wlist' = [wlist EXCEPT ![w] = Tail(@)]
           /\ wpc' = [wpc EXCEPT ![w] = "work"]
  <2>1. wlist'[w] = Tail(wlist[w]) /\ \A v \in Workers : v # w => wlist'[v] = wlist[v]
    BY <1>5 DEF PipelineTypeOK
  <2>2. PipelineTypeOK'
    <3>1. wlist' \in [Workers -> Seq(Tasks)]
      BY <1>2, <1>5 DEF PipelineTypeOK
    <3> QED
      BY <1>3, <1>5, <3>1 DEF PipelineTypeOK
  <2>3. WorkersOK'
    BY <1>5, <2>1 DEF WorkersOK, PipelineTypeOK
  <2>4. active' = active
    BY <1>5 DEF Inbound, DropTask, listVars
  <2>5. /\ \A k \in Keys : builder'[k] # None => k \in active' /\ KeyOf[builder'[k]] = k
        /\ NoRepeat(sealed') /\ \A k \in Keys : builder'[k] \notin Elems(sealed')
    BY <1>3, <2>4 DEF BuildersOK, WaitingOnce
  <2>6. \A v \in Workers : NoRepeat(wlist'[v]) /\ Elems(wlist'[v]) \subseteq Elems(wlist[v])
    BY <1>2, <2>1 DEF WaitingOnce
  <2>7. ASSUME NEW v \in Workers
        PROVE  /\ NoRepeat(wlist'[v])
               /\ Elems(wlist'[v]) \cap Elems(sealed') = {}
               /\ \A k \in Keys : builder'[k] \notin Elems(wlist'[v])
               /\ \A u \in Workers : u # v => Elems(wlist'[u]) \cap Elems(wlist'[v]) = {}
    <3>1. \A u \in Workers : u # v => Elems(wlist'[u]) \cap Elems(wlist'[v]) = {}
      BY <2>6 DEF WaitingOnce
    <3> QED
      BY <1>3, <2>6, <3>1 DEF WaitingOnce
  <2>8. ASSUME NEW u \in Tasks
        PROVE  \/ u \in begun' /\ Fresh(u)'
               \/ /\ u \notin begun' => Fresh(u)'
                  /\ builder'[KeyOf[u]] # u /\ u \notin Elems(sealed')
                  /\ \A v \in Workers : u \notin Elems(wlist'[v])
    <3>1. CASE u = t
      <4>1. builder[KeyOf[t]] # t /\ t \notin Elems(sealed)
        BY <1>2, ConstantFacts DEF WaitingOnce
      <4>2. \A v \in Workers : t \notin Elems(wlist'[v])
        BY <1>2, <2>1 DEF WaitingOnce
      <4> QED
        BY <1>2, <1>3, <3>1, <4>1, <4>2
    <3>2. CASE u # t
      <4>1. Fresh(u) => Fresh(u)'
        BY <1>2, <1>5, <3>2, FreshOthers
      <4>2. CASE Waiting(u)
        BY <1>3, <4>1, <4>2 DEF WaitingFresh
      <4>3. CASE ~Waiting(u)
        BY <1>3, <2>6, <4>1, <4>3 DEF Waiting, WaitingFresh
      <4> QED
        BY <4>2, <4>3
    <3> QED
      BY <3>1, <3>2
  <2> QED
    BY <2>2, <2>3, <2>5, <2>7, <2>8, WayIntro
<1>6. ASSUME WorkerReserve(w), UNCHANGED wpc
      PROVE  wpc' = [wpc EXCEPT ![w] = "work"]
  BY <1>6 DEF WorkerReserve, PipelineTypeOK
<1> QED
  BY <1>4, <1>5, <1>6 DEF WorkerReserve, WorkerPut

\* The invariant is inductive.
LEMMA PipelineInvNext ==
  ASSUME PipelineInv, [PipelineNext]_pipelineVars
  PROVE  PipelineInv'
<1>1. OnceInv'
  BY PipelineStep, OnceNext DEF PipelineInv
<1>2. WayInv'
  BY AddLogWay, RoundWay, BatchWay, QuietSteps
     DEF PipelineNext, WorkerStep, WorkerRound, WorkerInterval
<1> QED
  BY <1>1, <1>2 DEF PipelineInv

\* Every batch is in one place on its way to the senders, in every reachable
\* state of the pipeline.
THEOREM PipelineInvariance == PipelineSpec => []PipelineInv
<1>1. PipelineInit => PipelineInv
  BY WayInit, OnceInit DEF PipelineInv, PipelineInit
<1> QED
  BY <1>1, PipelineInvNext, PTL DEF PipelineSpec

\* The pipeline implements KeyQueues: writer, workers, cleanup and close give
\* the senders each task once, and only tasks that nothing has happened to.
THEOREM PipelineRefines == PipelineSpec => KeyQueuesSpec
<1>1. PipelineInit => Init
  BY DEF PipelineInit
<1>2. PipelineInv /\ [PipelineNext]_pipelineVars => [Next]_vars
  BY PipelineStep
<1> QED
  BY <1>1, <1>2, PipelineInvariance, PTL DEF PipelineSpec, KeyQueuesSpec, Spec

\* What KeyQueuesProofs shows of the key queues is true in the pipeline.
THEOREM PipelineKeyQueues ==
  PipelineSpec => [](Placement /\ NoStrandedTask /\ OneSenderPerKey /\ KeyFifo
                       /\ OneCallback /\ SomeoneServes)
BY PipelineRefines, PlacementCorrect, NothingStranded, KeyExclusion, KeyFifoCorrect,
   OneCallbackCorrect, SomeoneServesCorrect, PTL DEF KeyQueuesSpec

-----------------------------------------------------------------------------
(* close drains the producer.                                              *)

\* From the drain check on, which sees the builders, the lists and the send
\* queue, nothing enters these any more; and close waits for the senders.
Drained ==
  /\ phase \in {"stopping", "joining", "closed"} =>
       /\ sealed = <<>> /\ sendq = <<>>
       /\ \A k \in Keys : builder[k] = None
       /\ \A w \in Workers : wlist[w] = <<>>
  /\ phase = "closed" => \A s \in Senders : pc[s] = "exited"

\* A sender that has left does nothing.
LEMMA ExitedStays ==
  ASSUME OnceInv, NEW s \in Senders, SenderStep(s)
  PROVE  pc[s] # "exited" /\ \A u \in Senders : u # s => pc'[u] = pc[u]
<1> USE DEF OnceInv, Inv, TypeOK, SenderTypes
<1>1. CASE Take(s)
  BY <1>1 DEF Take
<1>2. CASE PopInbound(s) \/ PopNothing(s) \/ PushTask(s) \/ CheckStop(s) \/ Sweep(s)
  BY <1>2 DEF PopInbound, PopNothing, PushTask, CheckStop, Sweep
<1>3. CASE InvalidPayload(s) \/ GateDenied(s) \/ GateAllowed(s) \/ Retry(s)
             \/ (\E ok \in BOOLEAN : Complete(s, ok)) \/ Finish(s)
  BY <1>3 DEF InvalidPayload, GateDenied, GateAllowed, Retry, Complete, Finish
<1> QED
  BY <1>1, <1>2, <1>3 DEF SenderStep

\* The drained state is kept.
LEMMA DrainedNext ==
  ASSUME PipelineInv, Drained, [PipelineNext]_pipelineVars
  PROVE  Drained'
<1> DEFINE Late == {"stopping", "joining", "closed"}
<1> USE DEF PipelineInv, WayInv
<1>1. ASSUME NEW t \in Tasks, NEW full \in Flushes, AddLog(t, full)
      PROVE  Drained'
  BY <1>1 DEF AddLog, Drained
<1>2. ASSUME NEW w \in Workers, SealAndTake(w)
      PROVE  Drained'
  <2>1. UNCHANGED <<phase, sendq, pc>> /\ sealed' = <<>>
    BY <1>2 DEF SealAndTake, vars, senderVars
  <2>2. ASSUME phase \in Late
        PROVE  wlist' = wlist /\ \A k \in Keys : builder'[k] = None
    <3>1. Building = {} /\ sealed = <<>> /\ wlist[w] = <<>>
      <4>1. active \subseteq Keys
        BY DEF OnceInv, Inv, TypeOK, ListTypes
      <4> QED
        BY <2>2, <4>1 DEF Drained, Building
    <3>2. PICK p \in SealOrders({}) : wlist' = [wlist EXCEPT ![w] = sealed \o p]
      BY <1>2, <3>1 DEF SealAndTake
    <3>3. p \in Seq(Tasks) /\ Elems(p) = {}
      BY <3>2, SealOrdersFacts
    <3>4. p = <<>>
      BY <3>3 DEF Elems
    <3>5. wlist' = wlist
      BY <3>1, <3>2, <3>4 DEF PipelineTypeOK
    <3>6. \A k \in Keys : builder'[k] = None
      BY <1>2, <2>2 DEF SealAndTake, Drained
    <3> QED
      BY <3>5, <3>6
  <2> QED
    BY <2>1, <2>2 DEF Drained
<1>3. ASSUME NEW w \in Workers, WorkerReserve(w) \/ WorkerPut(w)
      PROVE  Drained'
  <2>1. wlist[w] # <<>> /\ phase' = phase
    BY <1>3 DEF WorkerReserve, WorkerPut, WorkersOK
  <2> QED
    BY <2>1 DEF Drained
<1>4. ASSUME NEW w \in Workers, WorkerDone(w) \/ WorkerExit(w)
      PROVE  Drained'
  BY <1>4 DEF WorkerDone, WorkerExit, Drained, vars, senderVars
<1>5. ASSUME NEW s \in Senders, PipelineSender(s)
      PROVE  Drained'
  <2>1. UNCHANGED <<sealed, wlist, phase>> /\ SenderStep(s)
        /\ \A k \in Keys : builder'[k] \in {None, builder[k]}
    BY <1>5 DEF PipelineSender
  <2>2. phase # "closed"
    BY <2>1, ExitedStays DEF Drained
  <2>3. sendq = <<>> => sendq' = sendq
    BY <2>1, SenderMoves DEF OnceInv, NothingMoves, SenderMove, TakeMove, PopMove,
         PushMove, RefuseMove, ReturnMove, EndMove
  <2> QED
    BY <2>1, <2>2, <2>3 DEF Drained
<1>6. CASE Close \/ CloseTimeout
  BY <1>6 DEF Close, CloseTimeout, Drained
<1>7. CASE CloseDrained
  <2>1. UNCHANGED <<sealed, sendq, builder, wlist>> /\ phase' = "stopping"
    BY <1>7 DEF CloseDrained, Stop, workerVars
  <2>2. sealed = <<>> /\ sendq = <<>> /\ \A k \in Keys : builder[k] = None
    BY <1>7 DEF CloseDrained, IsDrained, BuildersOK
  <2>3. \A w \in Workers : wlist[w] = <<>>
    BY <1>7 DEF CloseDrained, IsDrained, WorkersOK, PipelineTypeOK
  <2> QED
    BY <2>1, <2>2, <2>3 DEF Drained
<1>8. CASE CloseStopQueue \/ CloseJoin
  <2>1. UNCHANGED <<sealed, sendq, builder, wlist, pc>> /\ phase \in Late
        /\ (phase' = "closed" => \A s \in Senders : pc[s] = "exited")
    BY <1>8 DEF CloseStopQueue, CloseJoin, StopSendQueue, workerVars, vars, senderVars
  <2> QED
    BY <2>1 DEF Drained
<1>9. CASE PipelineTick \/ UNCHANGED pipelineVars
  <2>1. UNCHANGED <<sealed, sendq, builder, wlist, pc, phase>>
    BY <1>9 DEF PipelineTick, pipelineVars, Tick, workerVars, vars, senderVars
  <2> QED
    BY <2>1 DEF Drained
<1> QED
  BY <1>1, <1>2, <1>3, <1>4, <1>5, <1>6, <1>7, <1>8, <1>9
     DEF PipelineNext, WorkerStep, WorkerRound, WorkerInterval, CloseStep

\* When close returns VE_TLS_OK nothing is on its way any more, whatever the
\* configuration: what the drain check cannot see, a task between the send
\* queue and its key queue, the senders finish before close has joined them.
THEOREM CloseDrains == PipelineSpec => []ClosedIsDrained
<1>1. PipelineInit => Drained
  BY DEF PipelineInit, Init, Drained
<1>2. PipelineInv /\ Drained /\ [PipelineNext]_pipelineVars => Drained'
  BY DrainedNext
<1>3. PipelineInv /\ Drained /\ SomeoneServes => ClosedIsDrained
  <2> SUFFICES ASSUME PipelineInv, Drained, SomeoneServes, phase = "closed", NEW t \in Tasks
               PROVE  t \notin Underway
    BY DEF ClosedIsDrained, Underway
  <2> USE DEF PipelineInv, OnceInv
  <2>1. /\ sealed = <<>> /\ sendq = <<>> /\ \A k \in Keys : builder[k] = None
        /\ \A w \in Workers : wlist[w] = <<>>
        /\ \A s \in Senders : pc[s] = "exited"
    BY DEF Drained
  <2>2. KeyOf[t] \in Keys /\ t # None
    BY ConstantFacts
  <2>3. tasks[KeyOf[t]] = <<>>
    BY <2>1, <2>2 DEF SomeoneServes
  <2>4. \A s \in Senders : task[s] = None
    BY <2>1 DEF HandsFree
  <2>5. Elems(<<>>) = {}
    BY DEF Elems
  <2> QED
    BY <2>1, <2>2, <2>3, <2>4, <2>5 DEF Underway
<1> QED
  BY <1>1, <1>2, <1>3, PipelineInvariance, PipelineKeyQueues, PTL DEF PipelineSpec

-----------------------------------------------------------------------------
(* No batch is lost, but by the free of its key queue.                     *)

\* The senders have the batch, or have answered for it.
Served(t) ==
  \/ callbacks[t] = 1
  \/ t \in Elems(sendq) \cup Elems(tasks[KeyOf[t]])
  \/ \E s \in Senders : task[s] = t

\* The batch is on its way or has had its callback.
Kept(t) == Waiting(t) \/ Served(t)

\* A step that takes a batch out of the pipeline without a callback frees the
\* key queue whose builder holds it.
LostOnlyByFree ==
  \A t \in begun :
    Kept(t) => Kept(t)' \/ (builder[KeyOf[t]] = t /\ KeyOf[t] \in active \ active')

\* What the senders have they keep, or answer for.
LEMMA ServedKept ==
  ASSUME OnceInv, OnceInv', Moves, NEW t \in Tasks, Served(t)
  PROVE  Served(t)'
<1> USE DEF OnceInv
<1>0. t # None /\ KeyOf[t] \in Keys
  BY ConstantFacts
<1>t. /\ sendq \in Seq(Tasks) /\ callbacks \in [Tasks -> Nat]
      /\ task \in [Senders -> Tasks \cup {None}] /\ tasks \in [Keys -> Seq(Tasks)]
  BY DEF Inv, TypeOK, ListTypes, HistoryTypes, SenderTypes
<1> DEFINE Goal == \/ callbacks'[t] = 1
                   \/ t \in Elems(sendq') \/ t \in Elems(tasks'[KeyOf[t]])
                   \/ \E s \in Senders : task'[s] = t
<1>1. SUFFICES Goal
  BY DEF Served, Elems
<1>2. callbacks'[t] \leq 1 /\ callbacks[t] \leq 1 /\ callbacks'[t] \in Nat
  BY DEF CallbackOnce, Inv, TypeOK, HistoryTypes
<1>3. CASE NothingMoves
  BY <1>3 DEF NothingMoves, Served
<1>4. ASSUME NEW s \in Senders, NEW k \in Keys, TakeMove(s, k)
      PROVE  Goal
  <2>1. /\ task'[s] = Head(tasks[k]) /\ tasks'[k] = Tail(tasks[k]) /\ task[s] = None
        /\ \A u \in Senders : u # s => task'[u] = task[u]
        /\ \A l \in Keys : l # k => tasks'[l] = tasks[l]
        /\ UNCHANGED <<sendq, callbacks>>
    BY <1>4, <1>t DEF TakeMove, HandsOf, HandsFree
  <2>2. ASSUME t \in Elems(tasks[k])
        PROVE  t = Head(tasks[k]) \/ t \in Elems(Tail(tasks[k]))
    <3>1. tasks[k] \in Seq(Tasks) /\ tasks[k] # <<>>
      BY <1>4, <1>t DEF TakeMove
    <3>2. Elems(Tail(tasks[k])) \cup {Head(tasks[k])} = Elems(tasks[k])
      BY <3>1, TailElems
    <3> QED
      BY <2>2, <3>2
  <2> QED
    BY <1>0, <2>1, <2>2 DEF Served
<1>5. ASSUME NEW s \in Senders, PopMove(s)
      PROVE  Goal
  <2>1. /\ task'[s] = Head(sendq) /\ sendq' = Tail(sendq) /\ task[s] = None
        /\ \A u \in Senders : u # s => task'[u] = task[u]
        /\ UNCHANGED <<tasks, callbacks>>
    BY <1>5, <1>t DEF PopMove, HandsOf, HandsFree
  <2>2. Elems(Tail(sendq)) \cup {Head(sendq)} = Elems(sendq)
    BY <1>5, <1>t, TailElems DEF PopMove
  <2> QED
    BY <1>0, <2>1, <2>2 DEF Served
<1>6. ASSUME NEW s \in Senders, PushMove(s)
      PROVE  Goal
  <2>1. task[s] \in Tasks /\ KeyOf[task[s]] \in Keys
    BY <1>6, ConstantFacts DEF PushMove, Inv, SenderOK
  <2>2. Elems(Append(tasks[KeyOf[task[s]]], task[s])) = Elems(tasks[KeyOf[task[s]]]) \cup {task[s]}
    BY <1>t, <2>1, AppendFacts
  <2>3. /\ tasks'[KeyOf[task[s]]] = Append(tasks[KeyOf[task[s]]], task[s])
        /\ \A l \in Keys : l # KeyOf[task[s]] => tasks'[l] = tasks[l]
        /\ \A u \in Senders : u # s => task'[u] = task[u]
        /\ UNCHANGED <<sendq, callbacks>>
    BY <1>6, <1>t, <2>1 DEF PushMove, HandsOf
  <2> QED
    BY <1>0, <2>2, <2>3 DEF Served
<1>7. ASSUME NEW s \in Senders, RefuseMove(s) \/ EndMove(s)
      PROVE  Goal
  <2>1. /\ UNCHANGED <<tasks, sendq>> /\ \A u \in Senders : u # s => task'[u] = task[u]
        /\ callbacks' = [callbacks EXCEPT ![task[s]] = @ + 1]
    BY <1>7 DEF RefuseMove, EndMove, HandsOf
  <2>2. CASE t = task[s] \/ callbacks[t] = 1
    BY <1>2, <1>t, <2>1, <2>2
  <2>3. CASE t # task[s] /\ callbacks[t] # 1
    BY <2>1, <2>3 DEF Served
  <2> QED
    BY <2>2, <2>3
<1>8. ASSUME NEW s \in Senders, ReturnMove(s)
      PROVE  Goal
  <2>1. task[s] \in Tasks /\ kq[s] \in Keys /\ KeyOf[task[s]] = kq[s]
    BY <1>8, TriedTask DEF ReturnMove, Trying
  <2>2. /\ tasks'[kq[s]] = <<task[s]>> \o tasks[kq[s]]
        /\ \A l \in Keys : l # kq[s] => tasks'[l] = tasks[l]
        /\ \A u \in Senders : u # s => task'[u] = task[u]
        /\ UNCHANGED <<sendq, callbacks>>
    BY <1>8, <1>t, <2>1 DEF ReturnMove, HandsOf
  <2>3. Elems(<<task[s]>> \o tasks[kq[s]]) = {task[s]} \cup Elems(tasks[kq[s]])
    <3>1. PICK h \in Seq(Tasks) : h = <<task[s]>> /\ Elems(h) = {task[s]}
      <4>1. <<task[s]>> \in Seq(Tasks)
        BY <2>1
      <4>2. Elems(<<task[s]>>) = {task[s]}
        BY DEF Elems
      <4> QED
        BY <4>1, <4>2, Zenon
    <3>2. PICK q \in Seq(Tasks) : q = tasks[kq[s]]
      BY <1>t, <2>1
    <3>3. Elems(h \o q) = Elems(h) \cup Elems(q)
      BY ConcatFacts
    <3> QED
      BY <3>1, <3>2, <3>3, Zenon
  <2> QED
    BY <1>0, <2>1, <2>2, <2>3 DEF Served
<1>9. ASSUME NEW u \in Tasks, EnterMove(u)
      PROVE  Goal
  <2>1. Elems(sendq') = Elems(sendq) \cup {u} /\ UNCHANGED <<tasks, task, callbacks>>
    BY <1>9, <1>t, AppendFacts DEF EnterMove
  <2> QED
    BY <2>1 DEF Served
<1>10. ASSUME NEW u \in Tasks, DropMove(u)
       PROVE  Goal
  <2>1. callbacks' = [callbacks EXCEPT ![u] = @ + 1] /\ UNCHANGED <<tasks, sendq, task>>
    BY <1>10 DEF DropMove
  <2>2. CASE t = u \/ callbacks[t] = 1
    BY <1>2, <1>t, <2>1, <2>2
  <2>3. CASE t # u /\ callbacks[t] # 1
    BY <2>1, <2>3 DEF Served
  <2> QED
    BY <2>2, <2>3
<1> QED
  BY <1>3, <1>4, <1>5, <1>6, <1>7, <1>8, <1>9, <1>10 DEF Moves, SenderMove

\* A batch with the writer or a worker goes on to the next of them or to the
\* senders, unless its queue is freed.
LEMMA WaitingKept ==
  ASSUME PipelineInv, PipelineInv', [PipelineNext]_pipelineVars, NEW t \in Tasks, Waiting(t)
  PROVE  Kept(t)' \/ (builder[KeyOf[t]] = t /\ KeyOf[t] \in active \ active')
<1> USE DEF PipelineInv, WayInv
<1>0. t # None /\ KeyOf[t] \in Keys
  BY ConstantFacts
<1>1. ASSUME \/ builder'[KeyOf[t]] = t \/ t \in Elems(sealed')
             \/ \E w \in Workers : t \in Elems(wlist'[w])
             \/ callbacks'[t] = 1 \/ t \in Elems(sendq')
      PROVE  Kept(t)'
  BY <1>1 DEF Kept, Waiting, Served, Elems
<1>2. ASSUME UNCHANGED <<builder, sealed, wlist>>
      PROVE  Kept(t)'
  BY <1>1, <1>2 DEF Waiting
<1>3. ASSUME NEW u \in Tasks, NEW full \in Flushes, AddLog(u, full)
      PROVE  Kept(t)'
  <2>1. CASE UNCHANGED <<builder, sealed>>
    BY <1>2, <1>3, <2>1 DEF AddLog
  <2>2. CASE /\ builder' = [builder EXCEPT ![KeyOf[u]] = IF full THEN None ELSE u]
             /\ IF full THEN Seal(u) ELSE UNCHANGED sealed
    <3>1. /\ KeyOf[u] \in Keys
          /\ builder[KeyOf[u]] \in {u, None}
      BY <1>3, JoinedBatch DEF AddLog
    <3>2. full => Elems(sealed') = Elems(sealed) \cup {u}
      BY <2>2, AppendFacts DEF Seal, PipelineTypeOK
    <3>3. /\ builder'[KeyOf[u]] = IF full THEN None ELSE u
          /\ \A l \in Keys : l # KeyOf[u] => builder'[l] = builder[l]
      BY <2>2, <3>1 DEF PipelineTypeOK
    <3>4. CASE builder[KeyOf[t]] = t
      BY <1>0, <1>1, <3>1, <3>2, <3>3, <3>4
    <3>5. CASE t \in Elems(sealed)
      BY <1>1, <2>2, <3>2, <3>5
    <3>6. ASSUME NEW w \in Workers, t \in Elems(wlist[w])
          PROVE  Kept(t)'
      BY <1>1, <1>3, <3>6 DEF AddLog
    <3> QED
      BY <3>4, <3>5, <3>6 DEF Waiting
  <2> QED
    BY <1>3, <2>1, <2>2 DEF AddLog
<1>4. ASSUME NEW w \in Workers, SealAndTake(w)
      PROVE  Kept(t)'
  <2>1. PICK K \in SUBSET Building :
          /\ \E p \in SealOrders(K) : wlist' = [wlist EXCEPT ![w] = sealed \o p]
          /\ builder' = [k \in Keys |-> IF k \in K THEN None ELSE builder[k]]
    BY <1>4 DEF SealAndTake
  <2>2. PICK p \in SealOrders(K) : wlist' = [wlist EXCEPT ![w] = sealed \o p]
    BY <2>1
  <2>3. p \in Seq(Tasks) /\ Elems(p) = {builder[k] : k \in K}
    BY <2>2, SealOrdersFacts
  <2>4. Elems(sealed \o p) = Elems(sealed) \cup Elems(p)
    BY <2>3, ConcatFacts DEF PipelineTypeOK
  <2>5. /\ Elems(wlist'[w]) = Elems(sealed) \cup Elems(p)
        /\ \A v \in Workers : v # w => wlist'[v] = wlist[v]
    BY <2>2, <2>4 DEF PipelineTypeOK
  <2>6. Elems(wlist[w]) = {}
    BY <1>4 DEF SealAndTake, WorkersOK, Elems
  <2>7. CASE builder[KeyOf[t]] = t
    BY <1>0, <1>1, <2>1, <2>3, <2>5, <2>7
  <2>8. CASE t \in Elems(sealed)
    BY <1>1, <2>5, <2>8
  <2>9. ASSUME NEW v \in Workers, t \in Elems(wlist[v])
        PROVE  Kept(t)'
    BY <1>1, <2>5, <2>6, <2>9
  <2> QED
    BY <2>7, <2>8, <2>9 DEF Waiting
<1>5. ASSUME NEW w \in Workers, WorkerReserve(w) \/ WorkerPut(w)
      PROVE  Kept(t)'
  <2>1. UNCHANGED <<builder, sealed>>
    BY <1>5 DEF WorkerReserve, WorkerPut
  <2>2. CASE UNCHANGED wlist
    BY <1>2, <2>1, <2>2
  <2>3. CASE /\ wlist' = [wlist EXCEPT ![w] = Tail(@)]
             /\ Inbound(Head(wlist[w])) \/ DropTask(Head(wlist[w]))
    <3>1. wlist[w] # <<>> /\ wlist[w] \in Seq(Tasks)
      BY <1>5 DEF WorkerReserve, WorkerPut, WorkersOK, PipelineTypeOK
    <3>2. Elems(Tail(wlist[w])) \cup {Head(wlist[w])} = Elems(wlist[w]) /\ Fresh(Head(wlist[w]))
          /\ Head(wlist[w]) \in Tasks
      BY <3>1, TailElems, WorkerBatch
    <3>3. wlist'[w] = Tail(wlist[w]) /\ \A v \in Workers : v # w => wlist'[v] = wlist[v]
      BY <2>3 DEF PipelineTypeOK
    <3>4. CASE t = Head(wlist[w])
      <4>1. CASE Inbound(t)
        <5>1. t \in Elems(sendq')
          BY <4>1, AppendFacts DEF Inbound, OnceInv, Inv, TypeOK, ListTypes
        <5> QED
          BY <1>1, <5>1
      <4>2. CASE DropTask(t)
        <5>1. callbacks'[t] = 1
          BY <3>2, <3>4, <4>2 DEF DropTask, Fresh, OnceInv, Inv, TypeOK, HistoryTypes
        <5> QED
          BY <1>1, <5>1
      <4> QED
        BY <2>3, <3>4, <4>1, <4>2
    <3>5. CASE t # Head(wlist[w])
      BY <1>1, <2>1, <3>2, <3>3, <3>5 DEF Waiting
    <3> QED
      BY <3>4, <3>5
  <2> QED
    BY <1>5, <2>2, <2>3 DEF WorkerReserve, WorkerPut
<1>6. ASSUME NEW s \in Senders, PipelineSender(s)
      PROVE  Kept(t)' \/ (builder[KeyOf[t]] = t /\ KeyOf[t] \in active \ active')
  <2>1. UNCHANGED <<sealed, wlist>>
        /\ builder'[KeyOf[t]] = IF KeyOf[t] \in active \ active' THEN None ELSE builder[KeyOf[t]]
    BY <1>0, <1>6 DEF PipelineSender
  <2> QED
    BY <1>1, <2>1 DEF Waiting
<1>7. CASE \/ \E w \in Workers : WorkerDone(w) \/ WorkerExit(w)
           \/ Close \/ CloseTimeout \/ CloseStep \/ PipelineTick \/ UNCHANGED pipelineVars
  <2>1. UNCHANGED <<builder, sealed, wlist>>
    BY <1>7 DEF WorkerDone, WorkerExit, Close, CloseTimeout, CloseStep, CloseDrained,
         CloseStopQueue, CloseJoin, PipelineTick, pipelineVars, workerVars
  <2> QED
    BY <1>2, <2>1
<1> QED
  BY <1>3, <1>4, <1>5, <1>6, <1>7
     DEF PipelineNext, WorkerStep, WorkerRound, WorkerInterval

\* Every step of the pipeline keeps each batch, or frees its queue.
LEMMA KeptNext ==
  ASSUME PipelineInv, [PipelineNext]_pipelineVars
  PROVE  LostOnlyByFree
<1>1. PipelineInv' /\ Moves
  BY PipelineInvNext, PipelineStep, StepMoves DEF PipelineInv, OnceInv
<1>2. \A t \in begun : t \in Tasks
  BY DEF PipelineInv, WayInv, PipelineTypeOK
<1>3. ASSUME NEW t \in begun, Served(t)
      PROVE  Kept(t)'
  <2>1. Served(t)'
    BY <1>1, <1>2, <1>3, ServedKept DEF PipelineInv
  <2> QED
    BY <2>1 DEF Kept
<1> QED
  BY <1>1, <1>2, <1>3, WaitingKept DEF LostOnlyByFree, Kept

\* A batch leaves the pipeline with a callback, or because a sender frees the
\* key queue that it is being built in, whatever the configuration.
THEOREM OnlyFreeLoses == PipelineSpec => [][LostOnlyByFree]_pipelineVars
<1>1. PipelineInv /\ [PipelineNext]_pipelineVars => [LostOnlyByFree]_pipelineVars
  BY KeptNext
<1> QED
  BY <1>1, PipelineInvariance, PTL DEF PipelineSpec

\* No batch stays in a builder, and all that were begun are kept.
NoBuilder == \A k \in Keys : builder[k] = None
KeptInv == NoBuilder /\ \A t \in begun : Kept(t)

\* The steps keep this if every log asks for a flush.
LEMMA KeptInvNext ==
  ASSUME FALSE \notin Flushes, PipelineInv, KeptInv, [PipelineNext]_pipelineVars
  PROVE  KeptInv'
<1>1. NoBuilder'
  <2> SUFFICES ASSUME NEW k \in Keys PROVE builder'[k] = None
    BY DEF NoBuilder
  <2>0. builder[k] = None /\ builder \in [Keys -> Tasks \cup {None}]
    BY DEF KeptInv, NoBuilder, PipelineInv, WayInv, PipelineTypeOK
  <2>1. ASSUME NEW t \in Tasks, NEW full \in Flushes, AddLog(t, full)
        PROVE  builder'[k] = None
    <3>1. full = TRUE
      BY PipelineAssumption
    <3> QED
      BY <2>0, <2>1, <3>1 DEF AddLog
  <2>2. ASSUME NEW w \in Workers, WorkerStep(w) \/ WorkerInterval(w)
        PROVE  builder'[k] = None
    BY <2>0, <2>2 DEF WorkerStep, WorkerRound, WorkerInterval, SealAndTake,
         WorkerReserve, WorkerPut, WorkerDone, WorkerExit
  <2>3. ASSUME NEW s \in Senders, PipelineSender(s)
        PROVE  builder'[k] = None
    BY <2>0, <2>3 DEF PipelineSender
  <2>4. CASE Close \/ CloseTimeout \/ CloseStep \/ PipelineTick \/ UNCHANGED pipelineVars
    BY <2>0, <2>4 DEF Close, CloseTimeout, CloseStep, CloseDrained, CloseStopQueue,
         CloseJoin, PipelineTick, pipelineVars, workerVars
  <2> QED
    BY <2>1, <2>2, <2>3, <2>4 DEF PipelineNext
<1>2. ASSUME NEW t \in begun, Kept(t)
      PROVE  Kept(t)'
  <2>1. t # None /\ builder[KeyOf[t]] # t
    BY ConstantFacts DEF KeptInv, NoBuilder, PipelineInv, WayInv, PipelineTypeOK
  <2> QED
    BY <1>2, <2>1, KeptNext DEF LostOnlyByFree
<1>3. ASSUME NEW t \in begun', t \notin begun
      PROVE  Kept(t)'
  <2>1. PICK full \in Flushes : AddLog(t, full) /\ t \in Tasks
    BY <1>3 DEF PipelineNext, AddLog, WorkerStep, WorkerRound, WorkerInterval, SealAndTake,
         WorkerReserve, WorkerPut,
         WorkerDone, WorkerExit, PipelineSender, Close, CloseTimeout, CloseStep, CloseDrained,
         CloseStopQueue, CloseJoin, PipelineTick, pipelineVars
  <2>2. full = TRUE
    BY PipelineAssumption
  <2>3. CASE Seal(t)
    <3>1. t \in Elems(sealed')
      BY <2>1, <2>3, AppendFacts DEF Seal, PipelineInv, WayInv, PipelineTypeOK
    <3> QED
      BY <3>1 DEF Kept, Waiting, Elems
  <2>4. CASE DropTask(t)
    <3>1. callbacks'[t] = 1
      BY <1>3, <2>1, <2>4 DEF DropTask, Fresh, PipelineInv, WayInv, WaitingFresh, OnceInv,
           Inv, TypeOK, HistoryTypes
    <3> QED
      BY <3>1 DEF Kept, Served
  <2> QED
    BY <2>1, <2>2, <2>3, <2>4 DEF AddLog
<1> QED
  BY <1>1, <1>2, <1>3 DEF KeptInv

\* If every log asks for a flush or fills its batch, so that no batch stays in
\* a builder, then no interleaving of writer, workers, senders, cleanup and
\* close loses a batch.
THEOREM NothingLost ==
  ASSUME FALSE \notin Flushes
  PROVE  PipelineSpec => []NoLostBatch
<1>1. PipelineInit => KeptInv
  BY DEF PipelineInit, KeptInv, NoBuilder
<1>2. PipelineInv /\ KeptInv /\ [PipelineNext]_pipelineVars => KeptInv'
  BY KeptInvNext
<1>3. PipelineInv /\ KeptInv => NoLostBatch
  <2> SUFFICES ASSUME PipelineInv, KeptInv
               PROVE  \A t \in begun : callbacks[t] = 1 \/ t \in Underway
    BY DEF NoLostBatch, PipelineInv, WayInv
  <2>1. \A t \in begun : t \in Tasks
    BY DEF PipelineInv, WayInv, PipelineTypeOK
  <2> QED
    BY <2>1 DEF KeptInv, Kept, Waiting, Served, Underway
<1> QED
  BY <1>1, <1>2, <1>3, PipelineInvariance, PTL DEF PipelineSpec

-----------------------------------------------------------------------------
(* The order of a key's batches.                                           *)

\* The stages of a batch's way, the last one first: given to its key queue, in
\* the hands of a sender on its way there, in the send queue, with a worker, in
\* the sealed list, in the builder, and not begun.
Stage(i, t) ==
  \/ i = 1 /\ t \in Elems(pushed[KeyOf[t]])
  \/ i = 2 /\ \E s \in Senders : pc[s] = "push" /\ task[s] = t
  \/ i = 3 /\ t \in Elems(sendq)
  \/ i = 4 /\ \E w \in Workers : t \in Elems(wlist[w])
  \/ i = 5 /\ t \in Elems(sealed)
  \/ i = 6 /\ builder[KeyOf[t]] = t
  \/ i = 7 /\ t \notin begun

\* No batch has overtaken an older one of its key from stage to stage ...
StagesOrdered ==
  \A t, u \in Tasks : KeyOf[t] = KeyOf[u] =>
    \A i, j \in 1..7 : i < j /\ Stage(i, t) /\ Stage(j, u) => t < u

\* ... or within one.
Ordered(q) == \A i, j \in DOMAIN q : i < j /\ KeyOf[q[i]] = KeyOf[q[j]] => q[i] < q[j]

OrderInv ==
  /\ StagesOrdered
  /\ \A k \in Keys : Ordered(pushed[k])
  /\ Ordered(sendq) /\ Ordered(sealed)
  /\ \A w \in Workers : Ordered(wlist[w])

\* The parts of the invariant in the next state, with the primes at the
\* variables.
LEMMA OrderIntro ==
  ASSUME StagesOrdered',
         \A k \in Keys : Ordered(pushed'[k]), Ordered(sendq'), Ordered(sealed'),
         \A w \in Workers : Ordered(wlist'[w])
  PROVE  OrderInv'
<1>1. \A k \in Keys : Ordered(pushed[k])'
  BY DEF Ordered
<1>2. Ordered(sendq)' /\ Ordered(sealed)'
  BY DEF Ordered
<1>3. \A w \in Workers : Ordered(wlist[w])'
  BY DEF Ordered
<1> QED
  BY <1>1, <1>2, <1>3 DEF OrderInv

\* So for the stages.
LEMMA StageNext ==
  ASSUME NEW i \in 1..7, NEW t \in Tasks
  PROVE  Stage(i, t)' <=> \/ i = 1 /\ t \in Elems(pushed'[KeyOf[t]])
                          \/ i = 2 /\ \E s \in Senders : pc'[s] = "push" /\ task'[s] = t
                          \/ i = 3 /\ t \in Elems(sendq')
                          \/ i = 4 /\ \E w \in Workers : t \in Elems(wlist'[w])
                          \/ i = 5 /\ t \in Elems(sealed')
                          \/ i = 6 /\ builder'[KeyOf[t]] = t
                          \/ i = 7 /\ t \notin begun'
BY DEF Stage, Elems

\* A batch that leaves its stage leaves the order as it is.
LEMMA LeaveStage ==
  ASSUME StagesOrdered, \A i \in 1..7, t \in Tasks : Stage(i, t)' => Stage(i, t)
  PROVE  StagesOrdered'
BY DEF StagesOrdered

\* A batch that goes from stage b on to stage a keeps the order if it is the
\* first of its key at b, and none of its key are in between.
LEMMA MoveStage ==
  ASSUME StagesOrdered, NEW t \in Tasks, NEW a \in 1..7, NEW b \in 1..7, a < b, Stage(b, t),
         \A i \in 1..7, u \in Tasks : Stage(i, u)' => Stage(i, u) \/ (u = t /\ i = a),
         \A i \in 1..7, u \in Tasks :
           KeyOf[u] = KeyOf[t] /\ a < i /\ i <= b /\ Stage(i, u)' => t < u
  PROVE  StagesOrdered'
<1> SUFFICES ASSUME NEW x \in Tasks, NEW y \in Tasks, KeyOf[x] = KeyOf[y],
                    NEW i \in 1..7, NEW j \in 1..7, i < j, Stage(i, x)', Stage(j, y)'
             PROVE  x < y
  BY DEF StagesOrdered
<1>1. Stage(i, x) \/ (x = t /\ i = a)
  OBVIOUS
<1>2. Stage(j, y) \/ (y = t /\ j = a)
  OBVIOUS
<1>3. CASE Stage(i, x) /\ Stage(j, y)
  BY <1>3 DEF StagesOrdered
<1>4. CASE x = t /\ i = a /\ j <= b
  BY <1>4
<1>5. CASE x = t /\ i = a /\ j > b
  <2>1. Stage(j, y)
    BY <1>2, <1>5
  <2> QED
    BY <1>5, <2>1 DEF StagesOrdered
<1>6. CASE Stage(i, x) /\ y = t /\ j = a
  <2>1. i < b
    BY <1>6
  <2> QED
    BY <1>6, <2>1 DEF StagesOrdered
<1> QED
  BY <1>1, <1>2, <1>3, <1>4, <1>5, <1>6

\* A batch behind all others of its key.
LEMMA OrderedAppend ==
  ASSUME NEW q \in Seq(Tasks), NEW t \in Tasks, Ordered(q),
         \A u \in Elems(q) : KeyOf[u] = KeyOf[t] => u < t
  PROVE  Ordered(Append(q, t))
<1> DEFINE a == Append(q, t)
<1>1. /\ DOMAIN q = 1..Len(q) /\ DOMAIN a = 1..(Len(q) + 1) /\ Len(q) \in Nat
      /\ a[Len(q) + 1] = t /\ \A i \in 1..Len(q) : a[i] = q[i]
  OBVIOUS
<1> SUFFICES ASSUME NEW i \in 1..(Len(q) + 1), NEW j \in 1..(Len(q) + 1), i < j,
                    KeyOf[a[i]] = KeyOf[a[j]]
             PROVE  a[i] < a[j]
  BY <1>1 DEF Ordered
<1> HIDE DEF a
<1>2. i \in 1..Len(q) /\ a[i] = q[i] /\ q[i] \in Elems(q)
  BY <1>1 DEF Elems
<1>3. CASE j = Len(q) + 1
  BY <1>1, <1>2, <1>3
<1>4. CASE j # Len(q) + 1
  <2>1. j \in 1..Len(q)
    BY <1>1, <1>4
  <2> QED
    BY <1>1, <1>2, <2>1 DEF Ordered
<1> QED
  BY <1>3, <1>4

\* The first of a list comes before the others of its key.
LEMMA OrderedTail ==
  ASSUME NEW q \in Seq(Tasks), q # <<>>, Ordered(q)
  PROVE  /\ Ordered(Tail(q))
         /\ \A u \in Elems(Tail(q)) : KeyOf[u] = KeyOf[Head(q)] => Head(q) < u
<1>1. /\ Len(q) \in Nat /\ Len(q) > 0 /\ DOMAIN q = 1..Len(q)
      /\ DOMAIN Tail(q) = 1..(Len(q) - 1)
      /\ \A i \in 1..(Len(q) - 1) : Tail(q)[i] = q[i + 1]
      /\ Head(q) = q[1]
  OBVIOUS
<1>2. Ordered(Tail(q))
  <2> SUFFICES ASSUME NEW i \in 1..(Len(q) - 1), NEW j \in 1..(Len(q) - 1), i < j,
                      KeyOf[Tail(q)[i]] = KeyOf[Tail(q)[j]]
               PROVE  Tail(q)[i] < Tail(q)[j]
    BY <1>1 DEF Ordered
  <2>1. /\ i + 1 \in 1..Len(q) /\ j + 1 \in 1..Len(q) /\ i + 1 < j + 1
        /\ Tail(q)[i] = q[i + 1] /\ Tail(q)[j] = q[j + 1]
    BY <1>1
  <2> QED
    BY <1>1, <2>1 DEF Ordered
<1>3. ASSUME NEW u \in Elems(Tail(q)), KeyOf[u] = KeyOf[Head(q)]
      PROVE  Head(q) < u
  <2>1. PICK i \in 1..(Len(q) - 1) : u = Tail(q)[i]
    BY <1>1 DEF Elems
  <2>2. i + 1 \in 1..Len(q) /\ 1 \in 1..Len(q) /\ 1 < i + 1 /\ u = q[i + 1]
    BY <1>1, <2>1
  <2> QED
    BY <1>1, <1>3, <2>2 DEF Ordered
<1> QED
  BY <1>2, <1>3

\* Two lists one behind the other.
LEMMA OrderedConcat ==
  ASSUME NEW q \in Seq(Tasks), NEW p \in Seq(Tasks), Ordered(q), Ordered(p),
         \A t \in Elems(q), u \in Elems(p) : KeyOf[t] = KeyOf[u] => t < u
  PROVE  Ordered(q \o p)
<1> DEFINE a == q \o p
<1>1. /\ DOMAIN q = 1..Len(q) /\ DOMAIN p = 1..Len(p) /\ Len(q) \in Nat /\ Len(p) \in Nat
      /\ DOMAIN a = 1..(Len(q) + Len(p))
      /\ \A i \in 1..Len(q) : a[i] = q[i]
      /\ \A i \in (Len(q) + 1)..(Len(q) + Len(p)) : a[i] = p[i - Len(q)]
  OBVIOUS
<1> SUFFICES ASSUME NEW i \in DOMAIN a, NEW j \in DOMAIN a, i < j, KeyOf[a[i]] = KeyOf[a[j]]
             PROVE  a[i] < a[j]
  BY DEF Ordered
<1> HIDE DEF a
<1>2. CASE j <= Len(q)
  <2>1. i \in 1..Len(q) /\ j \in 1..Len(q)
    BY <1>1, <1>2
  <2> QED
    BY <1>1, <2>1 DEF Ordered
<1>3. CASE i > Len(q)
  <2>1. /\ i - Len(q) \in 1..Len(p) /\ j - Len(q) \in 1..Len(p) /\ i - Len(q) < j - Len(q)
        /\ a[i] = p[i - Len(q)] /\ a[j] = p[j - Len(q)]
    BY <1>1, <1>3
  <2> QED
    BY <1>1, <2>1 DEF Ordered
<1>4. CASE i <= Len(q) /\ j > Len(q)
  <2>1. /\ i \in 1..Len(q) /\ j - Len(q) \in 1..Len(p)
        /\ a[i] = q[i] /\ a[j] = p[j - Len(q)]
    BY <1>1, <1>4
  <2>2. q[i] \in Elems(q) /\ p[j - Len(q)] \in Elems(p)
    BY <1>1, <2>1 DEF Elems
  <2> QED
    BY <2>1, <2>2
<1> QED
  BY <1>1, <1>2, <1>3, <1>4

\* The senders keep the order, if there is one: it gives its key queues the
\* tasks in the order of the send queue.
LEMMA SenderOrder ==
  ASSUME \A s, u \in Senders : s = u, PipelineInv, OrderInv,
         NEW s \in Senders, PipelineSender(s)
  PROVE  OrderInv'
<1> USE DEF PipelineInv, OnceInv
<1>0. /\ SenderStep(s) /\ UNCHANGED <<sealed, wlist, begun>>
      /\ \A k \in Keys : builder'[k] \in {builder[k], None}
  BY DEF PipelineSender
<1>t. /\ sendq \in Seq(Tasks) /\ pushed \in [Keys -> Seq(Tasks)]
      /\ \A t \in Tasks : t # None /\ KeyOf[t] \in Keys
      /\ pc \in [Senders -> Places]
  BY ConstantFacts DEF Inv, TypeOK, ListTypes, HistoryTypes, SenderTypes
<1>1. Ordered(sealed') /\ \A w \in Workers : Ordered(wlist'[w])
  BY <1>0 DEF OrderInv
<1>2. ASSUME NEW i \in 1..7, NEW t \in Tasks, i \notin 1..3, Stage(i, t)'
      PROVE  Stage(i, t)
  BY <1>0, <1>2, <1>t, StageNext DEF Stage
<1>3. ASSUME UNCHANGED <<pushed, sendq>>,
             \A u \in Senders : pc'[u] = "push" => pc[u] = "push" /\ task'[u] = task[u]
      PROVE  OrderInv'
  <2>1. \A i \in 1..7, t \in Tasks : Stage(i, t)' => Stage(i, t)
    BY <1>2, <1>3, StageNext DEF Stage
  <2> QED
    BY <1>1, <1>3, <2>1, LeaveStage, OrderIntro DEF OrderInv
<1>4. CASE NothingMoves
  BY <1>3, <1>4 DEF NothingMoves
<1>5. CASE \/ \E k \in Keys : TakeMove(s, k)
           \/ RefuseMove(s) \/ ReturnMove(s) \/ EndMove(s)
  <2>1. /\ UNCHANGED <<pushed, sendq>> /\ pc'[s] # "push"
    BY <1>5, <1>t DEF TakeMove, RefuseMove, ReturnMove, EndMove, HandsOf
  <2> QED
    BY <1>3, <2>1
<1>6. CASE PopMove(s)
  <2> DEFINE t == Head(sendq)
  <2>1. /\ t \in Tasks /\ t \in Elems(sendq)
        /\ Elems(Tail(sendq)) = Elems(sendq) \ {t}
    BY <1>6, <1>t, TailFacts DEF PopMove, SendqOnce
  <2>2. /\ Ordered(Tail(sendq))
        /\ \A u \in Elems(Tail(sendq)) : KeyOf[u] = KeyOf[t] => t < u
    BY <1>6, <1>t, OrderedTail DEF PopMove, OrderInv
  <2>3. /\ sendq' = Tail(sendq) /\ pushed' = pushed /\ task'[s] = t
    BY <1>6 DEF PopMove
  <2> HIDE DEF t
  <2>4. Stage(3, t)
    BY <2>1 DEF Stage
  <2>5. ASSUME NEW i \in 1..7, NEW u \in Tasks, Stage(i, u)'
        PROVE  Stage(i, u) \/ (u = t /\ i = 2)
    <3>1. CASE i = 1
      BY <2>3, <2>5, <3>1, StageNext DEF Stage
    <3>2. CASE i = 2
      BY <2>3, <2>5, <3>2, StageNext
    <3>3. CASE i = 3
      BY <2>1, <2>3, <2>5, <3>3, StageNext DEF Stage
    <3> QED
      BY <1>2, <2>5, <3>1, <3>2, <3>3
  <2>6. ASSUME NEW i \in 1..7, NEW u \in Tasks, KeyOf[u] = KeyOf[t], 2 < i, i <= 3, Stage(i, u)'
        PROVE  t < u
    <3>1. u \in Elems(Tail(sendq))
      BY <2>3, <2>6, StageNext
    <3> QED
      BY <2>2, <2>6, <3>1
  <2>7. StagesOrdered'
    BY <2>1, <2>4, <2>5, <2>6, MoveStage DEF OrderInv
  <2> QED
    BY <1>1, <2>2, <2>3, <2>7, OrderIntro DEF OrderInv
<1>7. CASE PushMove(s)
  <2> DEFINE t == task[s]
  <2> DEFINE k == KeyOf[t]
  <2>1. t \in Tasks /\ k \in Keys /\ pc[s] = "push"
    BY <1>7, <1>t DEF PushMove, Inv, SenderOK
  <2>2. /\ pushed'[k] = Append(pushed[k], t) /\ sendq' = sendq /\ pc'[s] = "loop"
        /\ \A l \in Keys : l # k => pushed'[l] = pushed[l]
    BY <1>7, <1>t, <2>1 DEF PushMove, HandsOf
  <2>3. Stage(2, t)
    BY <2>1 DEF Stage
  <2> HIDE DEF t
  <2>4. Elems(Append(pushed[k], t)) = Elems(pushed[k]) \cup {t}
    BY <1>t, <2>1, AppendFacts
  <2>5. \A u \in Elems(pushed[k]) : KeyOf[u] = KeyOf[t] => u < t
    <3> SUFFICES ASSUME NEW u \in Elems(pushed[k]), KeyOf[u] = k
                 PROVE  u < t
      OBVIOUS
    <3>1. u \in Tasks
      BY <1>t, <2>1 DEF Elems
    <3>2. Stage(1, u)
      BY DEF Stage
    <3> QED
      BY <2>1, <2>3, <3>1, <3>2 DEF OrderInv, StagesOrdered
  <2>6. \A l \in Keys : Ordered(pushed'[l])
    <3>1. Ordered(pushed'[k])
      BY <1>t, <2>1, <2>2, <2>5, OrderedAppend DEF OrderInv
    <3> QED
      BY <2>2, <3>1 DEF OrderInv
  <2>7. ASSUME NEW i \in 1..7, NEW u \in Tasks, Stage(i, u)'
        PROVE  Stage(i, u) \/ (u = t /\ i = 1)
    <3>1. CASE i = 1
      <4>1. KeyOf[u] \in Keys /\ u \in Elems(pushed'[KeyOf[u]])
        BY <1>t, <2>7, <3>1, StageNext
      <4> QED
        BY <2>2, <2>4, <3>1, <4>1 DEF Stage
    <3>2. CASE i = 2
      BY <2>2, <2>7, <3>2, StageNext
    <3>3. CASE i = 3
      BY <2>2, <2>7, <3>3, StageNext DEF Stage
    <3> QED
      BY <1>2, <2>7, <3>1, <3>2, <3>3
  <2>8. \A i \in 1..7, u \in Tasks : 1 < i /\ i <= 2 => ~Stage(i, u)'
    BY <2>2, StageNext
  <2>9. StagesOrdered'
    BY <2>1, <2>3, <2>7, <2>8, MoveStage DEF OrderInv
  <2> QED
    BY <1>1, <2>2, <2>6, <2>9, OrderIntro DEF OrderInv
<1> QED
  BY <1>0, <1>4, <1>5, <1>6, <1>7, SenderMoves DEF SenderMove

\* The writer keeps the order: its batches are numbered as they are begun.
LEMMA AddLogOrder ==
  ASSUME PipelineInv, OrderInv, NEW t \in Tasks, NEW full \in Flushes, AddLog(t, full)
  PROVE  OrderInv'
<1> USE DEF PipelineInv, WayInv
<1> DEFINE k == KeyOf[t]
<1>1. /\ k \in Keys /\ t # None
      /\ builder[k] # t => builder[k] = None /\ t \notin begun
      /\ Joins(t)
  BY JoinedBatch DEF AddLog
<1>2. /\ UNCHANGED <<sendq, pushed, pc, task, wlist>> /\ begun' = begun \cup {t}
  BY DEF AddLog, Reserve, DropTask, senderVars, historyVars
<1>3. \A u \in Tasks : u # None /\ KeyOf[u] \in Keys /\ u \in Nat
  BY ConstantFacts, PipelineAssumption
<1>4. /\ \A l \in Keys : Ordered(pushed'[l])
      /\ Ordered(sendq') /\ \A w \in Workers : Ordered(wlist'[w])
  BY <1>2 DEF OrderInv
<1>5. ASSUME NEW i \in 1..7, NEW u \in Tasks, i \notin 5..6, Stage(i, u)'
      PROVE  Stage(i, u)
  BY <1>2, <1>5, StageNext DEF Stage
<1>6. ASSUME NEW u \in Tasks, KeyOf[u] = k, Stage(7, u)'
      PROVE  t < u
  <2>1. u \notin begun /\ u # t
    BY <1>2, <1>6, StageNext
  <2>2. CASE builder[k] = t
    <3>1. Stage(6, t) /\ Stage(7, u)
      BY <2>1, <2>2 DEF Stage
    <3> QED
      BY <1>6, <3>1 DEF OrderInv, StagesOrdered
  <2>3. CASE builder[k] # t
    <3>1. ~(u < t)
      BY <1>1, <1>6, <2>1, <2>3 DEF Joins
    <3> QED
      BY <1>3, <2>1, <3>1
  <2> QED
    BY <2>2, <2>3
<1>7. CASE UNCHANGED <<builder, sealed>>
  <2>1. \A i \in 1..7, u \in Tasks : Stage(i, u)' => Stage(i, u)
    BY <1>5, <1>7, StageNext DEF Stage
  <2> QED
    BY <1>4, <1>7, <2>1, LeaveStage, OrderIntro DEF OrderInv
<1>8. CASE builder' = [builder EXCEPT ![k] = t] /\ UNCHANGED sealed
  <2>1. \A l \in Keys : builder'[l] = IF l = k THEN t ELSE builder[l]
    BY <1>1, <1>8 DEF PipelineTypeOK
  <2>2. CASE builder[k] = t
    <3>1. builder' = builder
      BY <1>8, <2>2 DEF PipelineTypeOK
    <3> QED
      BY <1>7, <1>8, <3>1
  <2>3. CASE builder[k] # t
    <3>1. Stage(7, t)
      BY <1>1, <2>3 DEF Stage
    <3>2. ASSUME NEW i \in 1..7, NEW u \in Tasks, Stage(i, u)'
          PROVE  Stage(i, u) \/ (u = t /\ i = 6)
      <4>1. CASE i = 5
        BY <1>8, <3>2, <4>1, StageNext DEF Stage
      <4>2. CASE i = 6
        BY <1>3, <2>1, <3>2, <4>2, StageNext DEF Stage
      <4> QED
        BY <1>5, <3>2, <4>1, <4>2
    <3>3. ASSUME NEW i \in 1..7, NEW u \in Tasks, KeyOf[u] = KeyOf[t], 6 < i, i <= 7, Stage(i, u)'
          PROVE  t < u
      <4>1. i = 7
        BY <3>3
      <4> QED
        BY <1>6, <3>3, <4>1
    <3>4. StagesOrdered'
      BY <3>1, <3>2, <3>3, MoveStage DEF OrderInv
    <3> QED
      BY <1>4, <1>8, <3>4, OrderIntro DEF OrderInv
  <2> QED
    BY <2>2, <2>3
<1>9. CASE builder' = [builder EXCEPT ![k] = None] /\ Seal(t)
  <2>1. \A l \in Keys : builder'[l] = IF l = k THEN None ELSE builder[l]
    BY <1>1, <1>9 DEF PipelineTypeOK
  <2>2. PICK b \in 6..7 : Stage(b, t)
    BY <1>1 DEF Stage
  <2>3. /\ sealed' = Append(sealed, t) /\ sealed \in Seq(Tasks)
        /\ Elems(sealed') = Elems(sealed) \cup {t}
    BY <1>9, AppendFacts DEF Seal, PipelineTypeOK
  <2>4. Ordered(sealed')
    <3>1. ASSUME NEW u \in Elems(sealed), KeyOf[u] = KeyOf[t]
          PROVE  u < t
      <4>1. u \in Tasks /\ Stage(5, u)
        BY <2>3 DEF Stage, Elems
      <4>2. b \in 1..7 /\ 5 < b
        OBVIOUS
      <4> QED
        BY <2>2, <3>1, <4>1, <4>2 DEF OrderInv, StagesOrdered
    <3> QED
      BY <2>3, <3>1, OrderedAppend DEF OrderInv
  <2>5. ASSUME NEW i \in 1..7, NEW u \in Tasks, Stage(i, u)'
        PROVE  Stage(i, u) \/ (u = t /\ i = 5)
    <3>1. CASE i = 5
      BY <2>3, <2>5, <3>1, StageNext DEF Stage
    <3>2. CASE i = 6
      BY <1>3, <2>1, <2>5, <3>2, StageNext DEF Stage
    <3> QED
      BY <1>5, <2>5, <3>1, <3>2
  <2>6. ASSUME NEW i \in 1..7, NEW u \in Tasks, KeyOf[u] = KeyOf[t], 5 < i, i <= b, Stage(i, u)'
        PROVE  t < u
    <3>1. CASE i = 6
      BY <1>1, <1>3, <2>1, <2>6, <3>1, StageNext
    <3>2. CASE i = 7
      BY <1>6, <2>6, <3>2
    <3> QED
      BY <2>6, <3>1, <3>2
  <2>7. StagesOrdered'
    <3>1. b \in 1..7 /\ 5 < b
      OBVIOUS
    <3> QED
      BY <2>2, <2>5, <2>6, <3>1, MoveStage DEF OrderInv
  <2> QED
    BY <1>4, <2>4, <2>7, OrderIntro DEF OrderInv
<1>10. full \in BOOLEAN
  BY PipelineAssumption
<1> QED
  BY <1>7, <1>8, <1>9, <1>10 DEF AddLog

\* A round of the only worker takes the sealed list and, behind it, at most one
\* builder of each key.
LEMMA RoundOrder ==
  ASSUME \A v, w \in Workers : v = w, PipelineInv, OrderInv,
         NEW w \in Workers, SealAndTake(w)
  PROVE  OrderInv'
<1> USE DEF PipelineInv, WayInv
<1>0. PICK K \in SUBSET Building :
        /\ \E p \in SealOrders(K) : wlist' = [wlist EXCEPT ![w] = sealed \o p]
        /\ builder' = [k \in Keys |-> IF k \in K THEN None ELSE builder[k]]
  BY DEF SealAndTake
<1>1. PICK p \in SealOrders(K) : wlist' = [wlist EXCEPT ![w] = sealed \o p]
  BY <1>0
<1>2. /\ sealed' = <<>> /\ UNCHANGED <<pushed, sendq, pc, task, begun>>
  BY DEF SealAndTake, vars, senderVars, historyVars
<1>3. p \in Seq(Tasks) /\ Elems(p) = {builder[k] : k \in K} /\ NoRepeat(p)
  BY <1>1, SealOrdersFacts
<1>4. \A k \in K : k \in Keys /\ builder[k] # None /\ KeyOf[builder[k]] = k /\ builder[k] \in Tasks
  BY DEF Building, BuildersOK, PipelineTypeOK, OnceInv, Inv, TypeOK, ListTypes
<1>5. /\ sealed \in Seq(Tasks) /\ Ordered(sealed)
      /\ \A t \in Tasks : t # None /\ KeyOf[t] \in Keys
  BY ConstantFacts DEF PipelineTypeOK, OrderInv
<1>6. Ordered(p)
  <2> SUFFICES ASSUME NEW i \in DOMAIN p, NEW j \in DOMAIN p, i < j, KeyOf[p[i]] = KeyOf[p[j]]
               PROVE  FALSE
    BY DEF Ordered
  <2>1. p[i] \in Elems(p) /\ p[j] \in Elems(p)
    BY DEF Elems
  <2>2. p[i] = p[j]
    BY <1>3, <1>4, <2>1
  <2>3. i \in Nat /\ j \in Nat /\ i = j
    BY <1>3, <2>2 DEF NoRepeat
  <2> QED
    BY <2>3
<1>7. ASSUME NEW t \in Elems(sealed), NEW u \in Elems(p), KeyOf[t] = KeyOf[u]
      PROVE  t < u
  <2>1. t \in Tasks /\ Stage(5, t)
    BY <1>5 DEF Stage, Elems
  <2>2. u \in Tasks /\ Stage(6, u)
    BY <1>3, <1>4 DEF Stage
  <2> QED
    BY <1>7, <2>1, <2>2 DEF OrderInv, StagesOrdered
<1>8. PICK q \in Seq(Tasks) : q = sealed \o p /\ Ordered(q) /\ Elems(q) = Elems(sealed) \cup Elems(p)
  <2>1. sealed \o p \in Seq(Tasks) /\ Elems(sealed \o p) = Elems(sealed) \cup Elems(p)
    BY <1>3, <1>5, ConcatFacts
  <2>2. Ordered(sealed \o p)
    BY <1>3, <1>5, <1>6, <1>7, OrderedConcat
  <2> QED
    BY <2>1, <2>2, Zenon
<1>9. \A v \in Workers : wlist'[v] = q
  BY <1>1, <1>8 DEF PipelineTypeOK
<1>10. Elems(sealed') = {} /\ Ordered(sealed')
  BY <1>2 DEF Elems, Ordered
<1>11. \A k \in Keys : builder'[k] = IF k \in K THEN None ELSE builder[k]
  BY <1>0
<1>12. ASSUME NEW i \in 1..7, NEW t \in Tasks, Stage(i, t)'
       PROVE  \/ i \in {1, 2, 3, 7} /\ Stage(i, t)
              \/ i = 4 /\ Stage(5, t)
              \/ i = 4 /\ Stage(6, t) /\ KeyOf[t] \in K
              \/ i = 6 /\ Stage(6, t) /\ KeyOf[t] \notin K
  <2>1. CASE i \in {1, 2, 3, 7}
    BY <1>2, <1>12, <2>1, StageNext DEF Stage
  <2>2. CASE i = 4
    <3>1. t \in Elems(q)
      BY <1>9, <1>12, <2>2, StageNext
    <3>2. CASE t \in Elems(sealed)
      BY <2>2, <3>2 DEF Stage
    <3>3. CASE t \in Elems(p)
      BY <1>3, <1>4, <2>2, <3>3 DEF Stage
    <3> QED
      BY <1>8, <3>1, <3>2, <3>3
  <2>3. CASE i = 5
    BY <1>10, <1>12, <2>3, StageNext
  <2>4. CASE i = 6
    BY <1>5, <1>11, <1>12, <2>4, StageNext DEF Stage
  <2> QED
    BY <2>1, <2>2, <2>3, <2>4
<1>13. StagesOrdered'
  <2> SUFFICES ASSUME NEW t \in Tasks, NEW u \in Tasks, KeyOf[t] = KeyOf[u],
                      NEW i \in 1..7, NEW j \in 1..7, i < j, Stage(i, t)', Stage(j, u)'
               PROVE  t < u
    BY DEF StagesOrdered
  <2>1. \E a, b \in 1..7 : a < b /\ Stage(a, t) /\ Stage(b, u)
    <3>1. CASE i \in {1, 2, 3, 7}
      BY <1>12, <3>1
    <3>2. CASE i = 4
      BY <1>12, <3>2
    <3>3. CASE i \in {5, 6}
      BY <1>12, <3>3
    <3> QED
      BY <3>1, <3>2, <3>3
  <2> QED
    BY <2>1 DEF OrderInv, StagesOrdered
<1> QED
  BY <1>2, <1>8, <1>9, <1>10, <1>13, OrderIntro DEF OrderInv

\* The only worker hands its batches over in their order.
LEMMA BatchOrder ==
  ASSUME \A v, w \in Workers : v = w, PipelineInv, OrderInv,
         NEW w \in Workers, WorkerReserve(w) \/ WorkerPut(w)
  PROVE  OrderInv'
<1> USE DEF PipelineInv, WayInv
<1>1. /\ wlist[w] # <<>> /\ wlist[w] \in Seq(Tasks) /\ sendq \in Seq(Tasks)
      /\ UNCHANGED <<pushed, pc, task, builder, sealed, begun>>
  BY DEF WorkerReserve, WorkerPut, WorkersOK, PipelineTypeOK, Reserve, Inbound, DropTask,
     senderVars, historyVars, OnceInv, Inv, TypeOK, ListTypes
<1> DEFINE t == Head(wlist[w])
<1>2. t \in Tasks /\ t \in Elems(wlist[w]) /\ Elems(Tail(wlist[w])) = Elems(wlist[w]) \ {t}
  BY <1>1, WorkerBatch
<1>3. /\ Ordered(Tail(wlist[w]))
      /\ \A u \in Elems(Tail(wlist[w])) : KeyOf[u] = KeyOf[t] => t < u
  BY <1>1, OrderedTail DEF OrderInv
<1>4. Ordered(sealed') /\ \A k \in Keys : Ordered(pushed'[k])
  BY <1>1 DEF OrderInv
<1>5. ASSUME NEW i \in 1..7, NEW u \in Tasks, i \notin 3..4, Stage(i, u)'
      PROVE  Stage(i, u)
  BY <1>1, <1>5, StageNext DEF Stage
<1>6. CASE Reserve(KeyOf[t]) /\ UNCHANGED wlist
  <2>1. UNCHANGED sendq
    BY <1>6 DEF Reserve
  <2>2. \A i \in 1..7, u \in Tasks : Stage(i, u)' => Stage(i, u)
    BY <1>5, <1>6, <2>1, StageNext DEF Stage
  <2> QED
    BY <1>4, <1>6, <2>1, <2>2, LeaveStage, OrderIntro DEF OrderInv
<1>7. CASE /\ Inbound(t) \/ DropTask(t)
           /\ wlist' = [wlist EXCEPT ![w] = Tail(@)]
  <2>1. \A v \in Workers : v = w /\ wlist'[v] = Tail(wlist[w])
    BY <1>7 DEF PipelineTypeOK
  <2>2. \A v \in Workers : Ordered(wlist'[v])
    BY <1>3, <2>1
  <2>3. ASSUME NEW u \in Tasks, Stage(4, u)'
        PROVE  Stage(4, u) /\ u \in Elems(Tail(wlist[w]))
    <3>1. u \in Elems(Tail(wlist[w]))
      BY <2>1, <2>3, StageNext
    <3> QED
      BY <1>2, <3>1 DEF Stage
  <2> HIDE DEF t
  <2>4. CASE DropTask(t)
    <3>1. sendq' = sendq
      BY <2>4 DEF DropTask
    <3>2. ASSUME NEW i \in 1..7, NEW u \in Tasks, Stage(i, u)'
          PROVE  Stage(i, u)
      <4>1. CASE i = 3
        BY <3>1, <3>2, <4>1, StageNext DEF Stage
      <4>2. CASE i = 4
        BY <2>3, <3>2, <4>2
      <4> QED
        BY <1>5, <3>2, <4>1, <4>2
    <3> QED
      BY <1>4, <2>2, <3>1, <3>2, LeaveStage, OrderIntro DEF OrderInv
  <2>5. CASE Inbound(t)
    <3>1. sendq' = Append(sendq, t) /\ Elems(sendq') = Elems(sendq) \cup {t}
      BY <1>1, <1>2, <2>5, AppendFacts DEF Inbound
    <3>2. Stage(4, t)
      BY <1>2 DEF Stage
    <3>3. ASSUME NEW u \in Elems(sendq), KeyOf[u] = KeyOf[t]
          PROVE  u < t
      <4>1. u \in Tasks /\ Stage(3, u)
        BY <1>1 DEF Stage, Elems
      <4> QED
        BY <1>2, <3>2, <3>3, <4>1 DEF OrderInv, StagesOrdered
    <3>4. Ordered(sendq')
      BY <1>1, <1>2, <3>1, <3>3, OrderedAppend DEF OrderInv
    <3>5. ASSUME NEW i \in 1..7, NEW u \in Tasks, Stage(i, u)'
          PROVE  Stage(i, u) \/ (u = t /\ i = 3)
      <4>1. CASE i = 3
        BY <3>1, <3>5, <4>1, StageNext DEF Stage
      <4>2. CASE i = 4
        BY <2>3, <3>5, <4>2
      <4> QED
        BY <1>5, <3>5, <4>1, <4>2
    <3>6. ASSUME NEW i \in 1..7, NEW u \in Tasks, KeyOf[u] = KeyOf[t], 3 < i, i <= 4, Stage(i, u)'
          PROVE  t < u
      <4>1. i = 4
        BY <3>6
      <4> QED
        BY <1>3, <2>3, <3>6, <4>1 DEF t
    <3>7. StagesOrdered'
      BY <1>2, <3>2, <3>5, <3>6, MoveStage DEF OrderInv
    <3> QED
      BY <1>4, <2>2, <3>4, <3>7, OrderIntro
  <2> QED
    BY <1>7, <2>4, <2>5
<1> QED
  BY <1>6, <1>7 DEF WorkerReserve, WorkerPut

\* A FIFO begins with what it has done.
LEMMA FrontPiece ==
  ASSUME NEW f \in Seq(Tasks), NEW h \in Seq(Tasks), NEW q \in Seq(Tasks), NEW i \in DOMAIN f
  PROVE  i \in DOMAIN (f \o h \o q) /\ (f \o h \o q)[i] = f[i]
<1>0. f \o h \in Seq(Tasks)
  BY ConcatFacts
<1>1. PICK g \in Seq(Tasks) : g = f \o h
  BY <1>0, Zenon
<1>2. i \in DOMAIN g /\ g[i] = f[i]
  BY <1>1
<1>3. i \in DOMAIN (g \o q) /\ (g \o q)[i] = g[i]
  BY <1>2
<1> QED
  BY <1>1, <1>2, <1>3

\* The other steps leave the batches where they are.
LEMMA QuietOrder ==
  ASSUME OrderInv, UNCHANGED <<pushed, pc, task, sendq, wlist, sealed, builder, begun>>
  PROVE  OrderInv'
<1>1. \A i \in 1..7, t \in Tasks : Stage(i, t)' => Stage(i, t)
  BY StageNext DEF Stage
<1> QED
  BY <1>1, LeaveStage, OrderIntro DEF OrderInv

\* With one worker and one sender the batches of a hash key complete in the
\* order in which they were begun: none overtakes another, in the lists or from
\* one to the next, and the key queue is a FIFO.
THEOREM KeysInOrder ==
  ASSUME \A v, w \in Workers : v = w, \A s, u \in Senders : s = u
  PROVE  PipelineSpec => []KeyOrder
<1>1. PipelineInit => OrderInv
  <2> SUFFICES ASSUME PipelineInit PROVE OrderInv
    OBVIOUS
  <2>1. Elems(<<>>) = {} /\ Ordered(<<>>)
    BY DEF Elems, Ordered
  <2>2. \A t \in Tasks : t # None /\ KeyOf[t] \in Keys
    BY ConstantFacts
  <2>3. \A i \in 1..7, t \in Tasks : Stage(i, t) => i = 7
    BY <2>1, <2>2 DEF Stage, PipelineInit, Init
  <2> QED
    BY <2>1, <2>3 DEF OrderInv, StagesOrdered, PipelineInit, Init
<1>2. PipelineInv /\ OrderInv /\ [PipelineNext]_pipelineVars => OrderInv'
  <2> SUFFICES ASSUME PipelineInv, OrderInv, [PipelineNext]_pipelineVars
               PROVE  OrderInv'
    OBVIOUS
  <2>1. ASSUME NEW s \in Senders, PipelineSender(s)
        PROVE  OrderInv'
    BY <2>1, SenderOrder
  <2>2. ASSUME NEW w \in Workers, SealAndTake(w) \/ WorkerReserve(w) \/ WorkerPut(w)
        PROVE  OrderInv'
    BY <2>2, RoundOrder, BatchOrder
  <2>3. CASE \/ \E w \in Workers : WorkerDone(w) \/ WorkerExit(w)
             \/ Close \/ CloseTimeout \/ CloseStep \/ PipelineTick \/ UNCHANGED pipelineVars
    <3>1. UNCHANGED <<pushed, pc, task, sendq, wlist, sealed, builder, begun>>
      BY <2>3 DEF WorkerDone, WorkerExit, Close, CloseTimeout, CloseStep, CloseDrained,
           CloseStopQueue, CloseJoin, PipelineTick, pipelineVars, workerVars, Stop,
           StopSendQueue, Tick, vars, senderVars, historyVars
    <3> QED
      BY <3>1, QuietOrder
  <2> QED
    BY <2>1, <2>2, <2>3, AddLogOrder DEF PipelineNext, WorkerStep, WorkerRound, WorkerInterval
<1>3. PipelineInv /\ OrderInv => KeyOrder
  <2> SUFFICES ASSUME PipelineInv, OrderInv, NEW k \in Keys,
                      NEW i \in DOMAIN finished[k], NEW j \in DOMAIN finished[k], i < j
               PROVE  finished[k][i] < finished[k][j]
    BY DEF KeyOrder
  <2> USE DEF PipelineInv, OnceInv
  <2>1. /\ finished[k] \in Seq(Tasks) /\ Held(k) \in Seq(Tasks) /\ tasks[k] \in Seq(Tasks)
        /\ pushed[k] = finished[k] \o Held(k) \o tasks[k]
    BY HeldIsExact, FifoTypes DEF KeyFifo
  <2>2. /\ i \in DOMAIN pushed[k] /\ j \in DOMAIN pushed[k]
        /\ finished[k][i] = pushed[k][i] /\ finished[k][j] = pushed[k][j]
    <3>1. PICK f \in Seq(Tasks), h \in Seq(Tasks), q \in Seq(Tasks) :
            f = finished[k] /\ pushed[k] = f \o h \o q
      BY <2>1, Zenon
    <3>2. i \in DOMAIN f /\ j \in DOMAIN f
      BY <3>1
    <3>3. \A m \in DOMAIN f : m \in DOMAIN (f \o h \o q) /\ (f \o h \o q)[m] = f[m]
      BY FrontPiece
    <3> QED
      BY <3>1, <3>2, <3>3, Zenon
  <2>3. finished[k][i] \in Elems(pushed[k]) /\ finished[k][j] \in Elems(pushed[k])
    BY <2>2 DEF Elems
  <2>4. KeyOf[finished[k][i]] = k /\ KeyOf[finished[k][j]] = k
    BY <2>3 DEF PushedOnce
  <2> QED
    BY <2>2, <2>4 DEF OrderInv, Ordered
<1> QED
  BY <1>1, <1>2, <1>3, PipelineInvariance, PTL DEF PipelineSpec
====

----------------------------- MODULE EnvProofs ------------------------------
(***************************************************************************)
(* Proofs about the global run environment, for every number of producers, *)
(* senders, tasks and calls, when one thread inits and destroys it.        *)
(***************************************************************************)
EXTENDS Env, FiniteSetTheorems, SequenceTheorems, TLAPS

-----------------------------------------------------------------------------
(* The invariant.                                                          *)

\* Where an operation on the environment is under way.
OpPoints == {"register", "registered", "remove", "removed", "mark", "push", "notified"}

ProducerPoints == OpPoints \cup {"none", "notify", "live", "closing", "unregister", "unheld", "freed"}
WorkPoints == {"popped", "step", "sending", "pending", "done", "notify", "mark", "push", "notified"}
AdminPoints == {"idle", "ops", "drain", "join", "free", "finish"}

\* Where a producer is that has not been taken out of the list.
ListPoints == {"registered", "notify", "mark", "push", "notified", "live", "closing", "unregister",
               "remove"}
GonePoints == {"removed", "unheld", "freed"}

EnvTypes ==
  /\ inited \in BOOLEAN /\ resources \in BOOLEAN /\ destroying \in BOOLEAN /\ tearing \in BOOLEAN
  /\ stop \in BOOLEAN /\ ops \in Nat
  /\ list \subseteq Producers /\ queue \in Seq(Producers \cup {None}) /\ Len(queue) <= QueueCap
  /\ registered \in [Producers -> BOOLEAN] /\ inQueue \in [Producers -> BOOLEAN]
  /\ holds \in [Producers -> Nat] /\ tasks \in [Producers -> Nat]
  /\ held \in [Senders -> Producers \cup {None}] /\ ret \in [Senders -> {"step", "done"}]
  /\ DOMAIN pc = Threads
  /\ \A p \in Producers : pc[p] \in ProducerPoints
  /\ \A s \in Senders : pc[s] \in WorkPoints \cup {"exited", "idle"}
  /\ \A s \in Senders : (held[s] = None) <=> (pc[s] \in {"exited", "idle"})
  /\ \A d \in Admins : pc[d] \in AdminPoints

OpThreads == {th \in Producers \cup Senders : pc[th] \in OpPoints}

\* Operations are counted, and there are none while the environment is torn down.
OpsInv ==
  /\ ops = Cardinality(OpThreads)
  /\ tearing \/ ~inited => OpThreads = {}

\* What the one admin has done so far.
LifeInv(d) ==
  /\ inited => resources
  /\ tearing <=> pc[d] \in {"drain", "join", "free", "finish"}
  /\ destroying <=> pc[d] # "idle"
  /\ stop <=> pc[d] = "join"
  /\ resources <=> pc[d] \in {"ops", "drain", "join", "free"} \/ inited
  /\ pc[d] = "ops" => inited
  /\ pc[d] \in {"free", "finish"} => ~inited
  /\ ~inited /\ pc[d] # "free" => list = {} /\ queue = <<>>
  /\ \A s \in Senders : pc[s] # "exited" => resources /\ pc[d] \notin {"free", "finish"}

HoldersOf(p) == {s \in Senders : held[s] = p}

\* A producer is in the list, and can be in the run queue, from its registration
\* until it is taken out; env_inflight counts the senders that hold it.
ListInv ==
  /\ \A p \in Producers : registered[p] <=> p \in list
  /\ \A p \in list : pc[p] \in ListPoints
  /\ \A i \in DOMAIN queue : queue[i] # None => queue[i] \in list
  /\ \A p \in Producers : holds[p] = Cardinality(HoldersOf(p))
  /\ \A p \in Producers : pc[p] = "freed" => holds[p] = 0
  /\ \A s \in Senders : held[s] # None => pc[held[s]] \notin {"none", "register"}

EnvInv(d) == EnvTypes /\ OpsInv /\ LifeInv(d) /\ ListInv

\* A place of the run queue belongs to the producer in it, or to one that left
\* a hole there, and nobody has two.
Owns(f) ==
  /\ \A i, j \in DOMAIN queue : f[i] = f[j] => i = j
  /\ \A i \in DOMAIN queue :
       queue[i] = f[i] \/ (queue[i] = None /\ pc[f[i]] \in GonePoints)

\* The threads between a producer and its place.
Carriers(p) ==
  {s \in Senders : held[s] = p /\ pc[s] = "popped"}
  \cup {th \in Producers \cup Senders : Target(th) = p /\ pc[th] = "push"}

\* The flag of a listed producer stands for its one place, or its one carrier.
FlagOf(p) ==
  /\ ~inQueue[p] => p \notin ToSet(queue) /\ Carriers(p) = {}
  /\ inQueue[p] => \/ p \in ToSet(queue) /\ Carriers(p) = {}
                   \/ p \notin ToSet(queue) /\ \E th : Carriers(p) = {th}

FlagInv ==
  /\ \E f \in [DOMAIN queue -> Producers] : Owns(f)
  /\ \A p \in Producers : IF p \in list THEN FlagOf(p) ELSE ~inQueue[p]

-----------------------------------------------------------------------------
(* Threads that move, and the sequences of a tick.                         *)

\* The threads of the three kinds are different threads.
LEMMA ThreadKinds ==
  ASSUME NEW d, Admins = {d}
  PROVE  /\ \A th \in Producers \cup Senders : th # d /\ th \in Threads
         /\ \A p \in Producers : p \notin Senders /\ p # None
         /\ \A s \in Senders : s \notin Producers
         /\ Threads = Producers \cup Senders \cup {d} /\ d \in Threads /\ d \notin Producers \cup Senders
BY EnvAssumption DEF Threads

\* The operations under way are finitely many.
LEMMA OpThreadsFinite ==
  /\ IsFiniteSet(OpThreads) /\ Cardinality(OpThreads) \in Nat
  /\ Cardinality(OpThreads) = 0 <=> OpThreads = {}
<1>1. IsFiniteSet(Producers \cup Senders)
  BY EnvAssumption, FS_Union
<1>2. IsFiniteSet(OpThreads)
  BY <1>1, FS_Subset DEF OpThreads
<1> QED
  BY <1>2, FS_CardinalityType, FS_EmptySet

\* A thread begins an operation, ends one, or goes on.
LEMMA OpsStep ==
  ASSUME EnvTypes, OpsInv, NEW th \in Producers \cup Senders, NEW w, Goto(th, w),
         UNCHANGED <<inited, tearing>>,
         \/ (pc[th] \in OpPoints <=> w \in OpPoints) /\ ops' = ops
         \/ pc[th] \notin OpPoints /\ w \in OpPoints /\ ops' = ops + 1 /\ ~tearing /\ inited
         \/ pc[th] \in OpPoints /\ w \notin OpPoints /\ LifecycleEnd
  PROVE  OpsInv' /\ ops' \in Nat
<1>1. th \in DOMAIN pc /\ pc'[th] = w /\ \A u \in Producers \cup Senders : u # th => pc'[u] = pc[u]
  BY DEF Goto, EnvTypes, Threads
<1>2. /\ IsFiniteSet(OpThreads) /\ ops = Cardinality(OpThreads) /\ ops \in Nat
      /\ ops = 0 <=> OpThreads = {}
  BY OpThreadsFinite DEF OpsInv
<1>3. CASE (pc[th] \in OpPoints <=> w \in OpPoints) /\ ops' = ops
  <2>1. OpThreads' = OpThreads
    BY <1>1, <1>3 DEF OpThreads
  <2> QED
    BY <1>2, <1>3, <2>1 DEF OpsInv
<1>4. CASE pc[th] \notin OpPoints /\ w \in OpPoints /\ ops' = ops + 1 /\ ~tearing /\ inited
  <2>1. OpThreads' = OpThreads \cup {th} /\ th \notin OpThreads
    BY <1>1, <1>4 DEF OpThreads
  <2>2. Cardinality(OpThreads') = Cardinality(OpThreads) + 1
    BY <1>2, <2>1, FS_AddElement
  <2> QED
    BY <1>2, <1>4, <2>2 DEF OpsInv
<1>5. CASE pc[th] \in OpPoints /\ w \notin OpPoints /\ LifecycleEnd
  <2>1. OpThreads' = OpThreads \ {th} /\ th \in OpThreads
    BY <1>1, <1>5 DEF OpThreads
  <2>2. Cardinality(OpThreads') = Cardinality(OpThreads) - 1
    BY <1>2, <2>1, FS_RemoveElement
  <2>3. ops > 0 /\ ops' = ops - 1
    BY <1>2, <1>5, <2>1 DEF LifecycleEnd
  <2> QED
    BY <1>2, <2>1, <2>2, <2>3 DEF OpsInv
<1> QED
  BY <1>3, <1>4, <1>5

\* What a tick puts into the run queue.
LEMMA TickSeq ==
  ASSUME EnvTypes, Tick
  PROVE  \E new \in Seq(Ticked) :
            /\ queue' = queue \o new /\ Len(queue) + Len(new) <= QueueCap
            /\ \A i, j \in DOMAIN new : new[i] = new[j] => i = j
            /\ \/ \A p \in Ticked : \E i \in DOMAIN new : new[i] = p
               \/ Len(queue) + Cardinality(Ticked) > QueueCap
<1>1. Ticked \subseteq Producers /\ IsFiniteSet(Ticked)
  BY EnvAssumption, FS_Subset DEF EnvTypes, Ticked
<1>2. PICK order \in SetToSeqs(Ticked) :
        queue' = queue \o (IF Len(order) <= QueueCap - Len(queue) THEN order
                           ELSE SubSeq(order, 1, QueueCap - Len(queue)))
  BY DEF Tick
<1> DEFINE n == Cardinality(Ticked)
           room == QueueCap - Len(queue)
<1>3. n \in Nat /\ room \in Nat /\ Len(queue) \in Nat /\ QueueCap \in Nat
  BY <1>1, FS_CardinalityType, EnvAssumption DEF EnvTypes
<1>4. /\ order \in [1..n -> Ticked] /\ \A i, j \in 1..n : order[i] = order[j] => i = j
  BY DEF SetToSeqs
<1>5. order \in Seq(Ticked) /\ Len(order) = n /\ DOMAIN order = 1..n
  BY <1>3, <1>4
<1>6. CASE n <= room
  <2>1. queue' = queue \o order
    BY <1>2, <1>5, <1>6
  <2>2. \A p \in Ticked : \E i \in 1..n : order[i] = p
    <3>1. order \in Injection(1..n, Ticked)
      BY <1>4 DEF Injection, IsInjective
    <3>2. Cardinality(1..n) = n
      BY <1>3, FS_Interval
    <3>3. order \in Surjection(1..n, Ticked)
      BY <1>1, <3>1, <3>2, FS_Injection
    <3> QED
      BY <3>3 DEF Surjection
  <2>3. Len(queue) + Len(order) <= QueueCap
    BY <1>3, <1>5, <1>6
  <2>4. \A i, j \in DOMAIN order : order[i] = order[j] => i = j
    BY <1>4, <1>5
  <2>5. \A p \in Ticked : \E i \in DOMAIN order : order[i] = p
    BY <1>5, <2>2
  <2> QED
    BY <1>5, <2>1, <2>3, <2>4, <2>5
<1>7. CASE ~(n <= room)
  <2> DEFINE new == SubSeq(order, 1, room)
  <2>1. queue' = queue \o new
    BY <1>2, <1>5, <1>7
  <2>2. new \in Seq(Ticked) /\ Len(new) = room /\ DOMAIN new = 1..room /\ \A i \in 1..room : new[i] = order[i]
    <3>1. \A i \in 1..room : order[i] \in Ticked
      BY <1>3, <1>4, <1>7
    <3>2. room \in Int /\ 1 \in Int /\ room - 1 + 1 = room
      BY <1>3
    <3> HIDE DEF room
    <3>3. /\ new \in Seq(Ticked) /\ Len(new) = IF 1 <= room THEN room - 1 + 1 ELSE 0
          /\ \A i \in 1..(room - 1 + 1) : new[i] = order[1 + i - 1]
      BY <3>1, <3>2, SubSeqProperties
    <3> HIDE DEF new
    <3> QED
      BY <1>3, <3>2, <3>3 DEF room
  <2>3. \A i, j \in DOMAIN new : new[i] = new[j] => i = j
    BY <1>3, <1>4, <1>7, <2>2
  <2>4. Len(queue) + Len(new) <= QueueCap /\ Len(queue) + n > QueueCap
    BY <1>3, <1>7, <2>2
  <2> HIDE DEF new
  <2> QED
    BY <2>1, <2>2, <2>3, <2>4
<1> QED
  BY <1>6, <1>7

-----------------------------------------------------------------------------
(* EnvInv holds initially, and the admin keeps it.                         *)

\* There is no environment and no producer.
LEMMA EnvInitInv ==
  ASSUME NEW d, Admins = {d}, EnvInit
  PROVE  EnvInv(d)
<1>1. /\ DOMAIN pc = Threads /\ pc[d] = "idle"
      /\ \A p \in Producers : pc[p] = "none"
      /\ \A s \in Senders : pc[s] = "exited" /\ held[s] = None
  BY ThreadKinds DEF EnvInit
<1>2. EnvTypes
  <2>1. /\ inited \in BOOLEAN /\ resources \in BOOLEAN /\ destroying \in BOOLEAN /\ tearing \in BOOLEAN
        /\ stop \in BOOLEAN /\ ops \in Nat
        /\ registered \in [Producers -> BOOLEAN] /\ inQueue \in [Producers -> BOOLEAN]
    BY DEF EnvInit
  <2>2. /\ list \subseteq Producers /\ queue \in Seq(Producers \cup {None}) /\ Len(queue) <= QueueCap
        /\ holds \in [Producers -> Nat] /\ tasks \in [Producers -> Nat]
        /\ held \in [Senders -> Producers \cup {None}] /\ ret \in [Senders -> {"step", "done"}]
    BY EnvAssumption DEF EnvInit
  <2> QED
    BY <1>1, <2>1, <2>2 DEF EnvTypes, ProducerPoints, AdminPoints
<1>3. OpThreads = {}
  BY <1>1 DEF OpThreads, OpPoints
<1>4. OpsInv
  BY <1>3, FS_EmptySet DEF OpsInv, EnvInit
<1>5. LifeInv(d)
  BY <1>1 DEF LifeInv, EnvInit
<1>6. \A p \in Producers : HoldersOf(p) = {}
  BY <1>1, ThreadKinds DEF HoldersOf
<1>7. ListInv
  <2>1. \A p \in Producers : holds[p] = 0 /\ Cardinality(HoldersOf(p)) = 0 /\ registered[p] = FALSE
    BY <1>6, FS_EmptySet DEF EnvInit
  <2>2. list = {} /\ queue = <<>> /\ DOMAIN queue = {}
    BY DEF EnvInit
  <2> QED
    BY <1>1, <2>1, <2>2 DEF ListInv
<1> QED
  BY <1>2, <1>4, <1>5, <1>7 DEF EnvInv

\* The admin goes on; producers, senders and the run queue stay as they are.
LEMMA AdminMoves ==
  ASSUME NEW d, Admins = {d}, EnvInv(d), NEW w \in AdminPoints, Goto(d, w),
         UNCHANGED <<list, queue, flagVars, holds, tasks, held, ret>>,
         inited' \in BOOLEAN, resources' \in BOOLEAN, destroying' \in BOOLEAN, tearing' \in BOOLEAN,
         stop' \in BOOLEAN, ops' = ops,
         tearing' \/ ~inited' => ops = 0
  PROVE  EnvTypes' /\ OpsInv' /\ ListInv'
<1> USE DEF EnvInv
<1>1. /\ pc'[d] = w /\ DOMAIN pc' = Threads
      /\ \A th \in Producers \cup Senders : pc'[th] = pc[th]
  BY ThreadKinds DEF Goto, EnvTypes
<1>2. EnvTypes'
  BY <1>1 DEF EnvTypes, flagVars
<1>3. OpThreads' = OpThreads
  BY <1>1 DEF OpThreads
<1>4. OpsInv'
  BY <1>3, OpThreadsFinite DEF OpsInv
<1>5. ListInv'
  <2>1. \A p : HoldersOf(p)' = HoldersOf(p)
    BY DEF HoldersOf
  <2> QED
    BY <1>1, <2>1 DEF ListInv, flagVars, EnvTypes
<1> QED
  BY <1>2, <1>4, <1>5

\* destroy from its call to the end of the senders, or to its timeout.
LEMMA DestroyInv ==
  ASSUME NEW d, Admins = {d}, EnvInv(d),
         DestroyCall(d) \/ DestroyOpsEnded(d) \/ DestroyDrained(d) \/ DestroyTimeout(d) \/ DestroyJoin(d)
  PROVE  EnvInv(d)'
<1> USE DEF EnvInv
<1>0. /\ UNCHANGED <<list, queue, flagVars, holds, tasks, held, ret>> /\ ops' = ops
      /\ d \in Threads /\ DOMAIN pc = Threads
  BY ThreadKinds DEF DestroyCall, DestroyOpsEnded, DestroyDrained, DestroyTimeout, DestroyJoin,
     lifeVars, taskVars, senderVars, EnvTypes
<1>1. PICK w \in AdminPoints : Goto(d, w) /\ w = pc'[d]
  BY <1>0 DEF DestroyCall, DestroyOpsEnded, DestroyDrained, DestroyTimeout, DestroyJoin, AdminPoints, Goto
<1>2. /\ inited' \in BOOLEAN /\ resources' \in BOOLEAN /\ destroying' \in BOOLEAN /\ tearing' \in BOOLEAN
      /\ stop' \in BOOLEAN
  BY DEF DestroyCall, DestroyOpsEnded, DestroyDrained, DestroyTimeout, DestroyJoin, lifeVars, EnvTypes
<1>3. ~inited \/ tearing => ops = 0
  BY FS_EmptySet DEF OpsInv
<1>4. tearing' \/ ~inited' => ops = 0
  BY <1>3 DEF DestroyCall, DestroyOpsEnded, DestroyDrained, DestroyTimeout, DestroyJoin, lifeVars, LifeInv
<1>5. EnvTypes' /\ OpsInv' /\ ListInv'
  BY <1>0, <1>1, <1>2, <1>4, AdminMoves
<1>6. \A s \in Senders : pc'[s] = pc[s]
  BY <1>0, <1>1, ThreadKinds DEF Goto
<1>7. LifeInv(d)'
  <2>1. CASE DestroyCall(d)
    <3>1. /\ UNCHANGED <<inited, resources, stop>> /\ pc[d] = "idle" /\ destroying' = TRUE
          /\ inited \/ resources
          /\ \/ pc'[d] = "drain" /\ tearing' = TRUE
             \/ pc'[d] = "ops" /\ tearing' = tearing
      BY <1>0, <2>1 DEF DestroyCall, Goto
    <3> QED
      BY <1>0, <1>6, <3>1 DEF LifeInv
  <2>2. CASE DestroyOpsEnded(d)
    <3>1. /\ UNCHANGED <<inited, resources, destroying, stop>> /\ pc[d] = "ops" /\ tearing' = TRUE
          /\ pc'[d] = IF inited \/ resources THEN "drain" ELSE "idle"
      BY <1>0, <2>2 DEF DestroyOpsEnded, Goto
    <3>2. pc'[d] = "drain"
      BY <3>1 DEF LifeInv
    <3> QED
      BY <1>0, <1>6, <3>1, <3>2 DEF LifeInv
  <2>3. CASE DestroyDrained(d)
    <3>1. /\ UNCHANGED <<inited, resources, destroying, tearing>> /\ pc[d] = "drain" /\ stop' = TRUE
          /\ pc'[d] = "join"
      BY <1>0, <2>3 DEF DestroyDrained, Goto, lifeVars
    <3> QED
      BY <1>0, <1>6, <3>1 DEF LifeInv
  <2>4. CASE DestroyTimeout(d)
    <3>1. /\ UNCHANGED <<inited, resources, stop>> /\ pc[d] = "drain" /\ destroying' = FALSE
          /\ tearing' = FALSE /\ pc'[d] = "idle"
          /\ queue # <<>> \/ list # {}
      BY <1>0, <2>4 DEF DestroyTimeout, Goto, NotDrained
    <3>2. inited
      BY <3>1 DEF LifeInv
    <3> QED
      BY <1>0, <1>6, <3>1, <3>2 DEF LifeInv
  <2>5. CASE DestroyJoin(d)
    <3>1. /\ UNCHANGED <<resources, destroying, tearing>> /\ pc[d] = "join" /\ stop' = FALSE
          /\ inited' = FALSE /\ pc'[d] = "free" /\ \A s \in Senders : pc[s] = "exited"
      BY <1>0, <2>5 DEF DestroyJoin, Goto
    <3> QED
      BY <1>0, <1>6, <3>1 DEF LifeInv
  <2> QED
    BY <2>1, <2>2, <2>3, <2>4, <2>5
<1> QED
  BY <1>5, <1>7

\* ve_tls_env_init finds no sender, no producer in the list and no operation.
LEMMA InitEnvInv ==
  ASSUME NEW d, Admins = {d}, EnvInv(d), InitEnv(d)
  PROVE  EnvInv(d)'
<1> USE DEF EnvInv
<1>1. /\ pc[d] = "idle" /\ ~tearing /\ ~inited /\ resources' = TRUE /\ ops' = 0 /\ stop' = FALSE
      /\ list' = {} /\ queue' = <<>> /\ held' = [s \in Senders |-> None]
      /\ UNCHANGED <<flagVars, holds, tasks, ret>>
  BY DEF InitEnv, taskVars
<1>2. /\ \A s \in Senders : pc[s] = "exited" /\ held[s] = None
      /\ list = {} /\ queue = <<>> /\ OpThreads = {}
  BY <1>1 DEF LifeInv, EnvTypes, OpsInv
<1>3. /\ DOMAIN pc' = Threads /\ \A p \in Producers : pc'[p] = pc[p]
      /\ \A s \in Senders : pc'[s] \in {"idle", "exited"}
      /\ \/ inited' = TRUE /\ destroying' = FALSE /\ tearing' = FALSE /\ pc'[d] = "idle"
         \/ inited' = FALSE /\ destroying' = TRUE /\ tearing' = TRUE /\ pc'[d] = "drain"
  <2>1. CASE /\ inited' = TRUE /\ destroying' = FALSE /\ tearing' = FALSE
             /\ pc' = [th \in Threads |-> IF th \in Senders THEN "idle" ELSE pc[th]]
    BY <1>1, <2>1, ThreadKinds
  <2>2. CASE /\ inited' = FALSE /\ destroying' = TRUE /\ tearing' = TRUE
             /\ \E started \in SUBSET Senders :
                  pc' = [th \in Threads |-> IF th \in started THEN "idle"
                                            ELSE IF th = d THEN "drain" ELSE pc[th]]
    <3>1. PICK started \in SUBSET Senders :
            pc' = [th \in Threads |-> IF th \in started THEN "idle"
                                      ELSE IF th = d THEN "drain" ELSE pc[th]]
      BY <2>2
    <3>2. /\ DOMAIN pc' = Threads /\ \A p \in Producers : pc'[p] = pc[p] /\ pc'[d] = "drain"
      BY <3>1, ThreadKinds
    <3>3. ASSUME NEW s \in Senders
          PROVE  pc'[s] \in {"idle", "exited"}
      BY <1>2, <3>1, ThreadKinds
    <3>4. pc'[d] = "drain"
      BY <3>1, ThreadKinds
    <3> QED
      BY <2>2, <3>2, <3>3, <3>4
  <2> QED
    BY <2>1, <2>2 DEF InitEnv
<1>4. EnvTypes'
  <2>1. /\ inited' \in BOOLEAN /\ resources' \in BOOLEAN /\ destroying' \in BOOLEAN
        /\ tearing' \in BOOLEAN /\ stop' \in BOOLEAN /\ ops' \in Nat
    BY <1>1, <1>3
  <2>2. /\ list' \subseteq Producers /\ queue' \in Seq(Producers \cup {None}) /\ Len(queue') <= QueueCap
        /\ held' \in [Senders -> Producers \cup {None}] /\ \A s \in Senders : held'[s] = None
    BY <1>1, EnvAssumption
  <2>3. \A e \in Admins : pc'[e] \in AdminPoints
    BY <1>3 DEF AdminPoints
  <2> QED
    BY <1>1, <1>3, <2>1, <2>2, <2>3 DEF EnvTypes, flagVars
<1>5. OpsInv'
  <2>1. OpThreads' = {}
    BY <1>2, <1>3 DEF OpThreads, OpPoints
  <2> QED
    BY <1>1, <2>1, FS_EmptySet DEF OpsInv
<1>6. LifeInv(d)'
  BY <1>1, <1>3 DEF LifeInv
<1>7. ListInv'
  <2>1. \A p : HoldersOf(p)' = HoldersOf(p)
    BY <1>1, <1>2 DEF HoldersOf
  <2>2. DOMAIN queue' = {} /\ \A s \in Senders : held'[s] = None
    BY <1>1
  <2> QED
    BY <1>1, <1>2, <1>3, <2>1, <2>2 DEF ListInv, flagVars
<1> QED
  BY <1>4, <1>5, <1>6, <1>7

\* Nothing is in the list: the tick finds nobody.
LEMMA TickNobody ==
  ASSUME EnvTypes, Tick, list = {}
  PROVE  queue' = queue /\ inQueue' = inQueue
<1>1. Ticked = {}
  BY DEF Ticked
<1>2. PICK new \in Seq(Ticked) : queue' = queue \o new
  BY TickSeq
<1>3. new = <<>>
  BY <1>1
<1>4. queue' = queue
  BY <1>2, <1>3 DEF EnvTypes
<1>5. inQueue' = inQueue
  BY <1>1 DEF Tick, EnvTypes
<1> QED
  BY <1>4, <1>5

\* Other producers of the list enter the run queue.
LEMMA TickInv ==
  ASSUME NEW d, Admins = {d}, EnvInv(d), Tick,
         UNCHANGED <<inited, resources, destroying, tearing, ops, stop, list, registered, holds, tasks,
                     held, ret, pc>>
  PROVE  EnvInv(d)'
<1> USE DEF EnvInv
<1>1. PICK new \in Seq(Ticked) : queue' = queue \o new /\ Len(queue) + Len(new) <= QueueCap
  BY TickSeq
<1>2. Ticked \subseteq list /\ list \subseteq Producers /\ new \in Seq(Producers \cup {None})
  BY DEF Ticked, EnvTypes
<1>3. /\ queue' \in Seq(Producers \cup {None}) /\ Len(queue') <= QueueCap
      /\ inQueue' \in [Producers -> BOOLEAN]
  <2>1. queue \in Seq(Producers \cup {None}) /\ inQueue \in [Producers -> BOOLEAN]
    BY DEF EnvTypes
  <2>2. inQueue' \in [Producers -> BOOLEAN]
    BY <2>1 DEF Tick
  <2> QED
    BY <1>1, <1>2, <2>1, <2>2, ConcatProperties
<1>4. EnvTypes'
  BY <1>3 DEF EnvTypes
<1>5. OpsInv'
  BY DEF OpsInv, OpThreads
<1>6. LifeInv(d)'
  BY TickNobody DEF LifeInv
<1>7. ListInv'
  <2>1. \A p : HoldersOf(p)' = HoldersOf(p)
    BY DEF HoldersOf
  <2>2. ASSUME NEW i \in DOMAIN queue', queue'[i] # None
        PROVE  queue'[i] \in list
    <3>1. queue \in Seq(Producers \cup {None})
      BY DEF EnvTypes
    <3>2. CASE i <= Len(queue)
      <4>1. i \in DOMAIN queue /\ queue'[i] = queue[i]
        BY <1>1, <1>2, <2>2, <3>1, <3>2
      <4> QED
        BY <2>2, <4>1 DEF ListInv
    <3>3. CASE ~(i <= Len(queue))
      <4>1. i - Len(queue) \in 1..Len(new) /\ queue'[i] = new[i - Len(queue)]
        BY <1>1, <1>2, <2>2, <3>1, <3>3
      <4>2. new[i - Len(queue)] \in Ticked
        BY <4>1, ElementOfSeq
      <4> QED
        BY <1>2, <4>1, <4>2
    <3> QED
      BY <3>2, <3>3
  <2> QED
    BY <2>1, <2>2 DEF ListInv
<1> QED
  BY <1>4, <1>5, <1>6, <1>7

\* The memory of the environment is freed, and the destroy comes to its end.
LEMMA FreeEnvInv ==
  ASSUME NEW d, Admins = {d}, EnvInv(d), DestroyFree(d) \/ DestroyFinish(d)
  PROVE  EnvInv(d)'
<1> USE DEF EnvInv
<1>1. /\ UNCHANGED <<inited, stop, holds, tasks, held, ret>> /\ pc[d] \in {"free", "finish"}
      /\ d \in Threads /\ DOMAIN pc = Threads
      /\ \A s \in Senders : pc[s] = "exited"
  BY ThreadKinds DEF DestroyFree, DestroyFinish, lifeVars, taskVars, senderVars, EnvTypes, LifeInv
<1>2. tearing /\ ~inited /\ OpThreads = {} /\ ops = 0
  BY <1>1, OpThreadsFinite DEF LifeInv, OpsInv
<1>3. PICK w \in AdminPoints : Goto(d, w) /\ w = pc'[d] /\ (w = "finish" \/ w = "idle")
  BY <1>1 DEF DestroyFree, DestroyFinish, AdminPoints, Goto
<1>4. /\ DOMAIN pc' = Threads /\ \A th \in Producers \cup Senders : pc'[th] = pc[th]
  BY <1>1, <1>3, ThreadKinds DEF Goto
<1>5. OpThreads' = {} /\ \A p : HoldersOf(p)' = HoldersOf(p)
  BY <1>1, <1>2, <1>4 DEF OpThreads, HoldersOf
<1>6. CASE DestroyFree(d)
  <2>1. /\ resources' = FALSE /\ queue' = <<>> /\ list' = {} /\ UNCHANGED <<destroying, tearing, ops>>
        /\ pc[d] = "free" /\ pc'[d] = "finish"
        /\ registered' = [p \in Producers |-> registered[p] /\ p \notin list]
        /\ inQueue' = [p \in Producers |-> inQueue[p] /\ p \notin list]
    BY <1>1, <1>6 DEF DestroyFree, Goto
  <2>2. registered' \in [Producers -> BOOLEAN] /\ inQueue' \in [Producers -> BOOLEAN]
    BY <2>1 DEF EnvTypes
  <2>3. queue' \in Seq(Producers \cup {None}) /\ Len(queue') <= QueueCap /\ DOMAIN queue' = {}
    BY <2>1, EnvAssumption
  <2>4. EnvTypes'
    BY <1>1, <1>3, <1>4, <2>1, <2>2, <2>3 DEF EnvTypes
  <2>5. OpsInv'
    BY <1>2, <1>5, <2>1, FS_EmptySet DEF OpsInv
  <2>6. LifeInv(d)'
    BY <1>1, <1>4, <2>1 DEF LifeInv
  <2>7. \A p \in Producers : registered'[p] = FALSE
    BY <2>1 DEF ListInv
  <2>8. ListInv'
    BY <1>1, <1>4, <1>5, <2>1, <2>3, <2>7 DEF ListInv, EnvTypes
  <2> QED
    BY <2>4, <2>5, <2>6, <2>8
<1>7. CASE DestroyFinish(d)
  <2>1. /\ destroying' = FALSE /\ tearing' = FALSE /\ ops' = 0 /\ UNCHANGED <<resources, list, queue, flagVars>>
        /\ pc[d] = "finish" /\ pc'[d] = "idle"
    BY <1>1, <1>7 DEF DestroyFinish, Goto
  <2>2. EnvTypes'
    BY <1>1, <1>3, <1>4, <2>1 DEF EnvTypes, flagVars
  <2>3. OpsInv'
    BY <1>5, <2>1, FS_EmptySet DEF OpsInv
  <2>4. LifeInv(d)'
    BY <1>1, <1>4, <2>1 DEF LifeInv
  <2>5. ListInv'
    BY <1>1, <1>4, <1>5, <2>1 DEF ListInv, flagVars, EnvTypes
  <2> QED
    BY <2>2, <2>3, <2>4, <2>5
<1> QED
  BY <1>6, <1>7

-----------------------------------------------------------------------------
(* Producers and senders keep it.                                          *)

\* A producer, or a sender that works for one, goes on; the list, the run queue
\* and the senders' producers stay as they are.
LEMMA PlainStep ==
  ASSUME NEW d, Admins = {d}, EnvInv(d), NEW th \in Producers \cup Senders, NEW w, Goto(th, w),
         UNCHANGED <<inited, resources, destroying, tearing, stop, list, queue, registered, holds, held>>,
         inQueue' \in [Producers -> BOOLEAN], tasks' \in [Producers -> Nat],
         ret' \in [Senders -> {"step", "done"}],
         \/ (pc[th] \in OpPoints <=> w \in OpPoints) /\ ops' = ops
         \/ pc[th] \notin OpPoints /\ w \in OpPoints /\ ops' = ops + 1 /\ ~tearing /\ inited
         \/ pc[th] \in OpPoints /\ w \notin OpPoints /\ LifecycleEnd,
         th \in Producers => /\ w \in ProducerPoints \ {"none"} /\ (w = "register" => pc[th] = "none")
                             /\ th \in list => w \in ListPoints
                             /\ w = "freed" => holds[th] = 0,
         th \in Senders => pc[th] \in WorkPoints /\ w \in WorkPoints
  PROVE  EnvInv(d)'
<1> USE DEF EnvInv
<1>1. /\ pc'[th] = w /\ DOMAIN pc' = Threads /\ \A u \in Threads : u # th => pc'[u] = pc[u]
      /\ th \in Threads /\ th # d /\ d \in Threads
  BY ThreadKinds DEF Goto, EnvTypes
<1>2. OpsInv' /\ ops' \in Nat
  BY OpsStep
<1>3. EnvTypes'
  <2>1. \A p \in Producers : pc'[p] \in ProducerPoints
    BY <1>1, ThreadKinds DEF EnvTypes
  <2>2. \A s \in Senders : /\ pc'[s] \in WorkPoints \cup {"exited", "idle"}
                           /\ (held[s] = None) <=> (pc'[s] \in {"exited", "idle"})
    BY <1>1, ThreadKinds DEF EnvTypes, WorkPoints
  <2>3. \A e \in Admins : pc'[e] \in AdminPoints
    BY <1>1 DEF EnvTypes
  <2> QED
    BY <1>1, <1>2, <2>1, <2>2, <2>3 DEF EnvTypes
<1>4. LifeInv(d)'
  <2>1. pc'[d] = pc[d]
    BY <1>1
  <2>2. \A s \in Senders : pc'[s] # "exited" => pc[s] # "exited"
    BY <1>1, ThreadKinds DEF WorkPoints
  <2> QED
    BY <2>1, <2>2 DEF LifeInv
<1>5. ListInv'
  <2>1. \A p : HoldersOf(p)' = HoldersOf(p)
    BY DEF HoldersOf
  <2>2. ASSUME NEW p \in list
        PROVE  pc'[p] \in ListPoints
    <3>1. p \in Producers /\ pc[p] \in ListPoints /\ p \in Threads
      BY ThreadKinds DEF ListInv, EnvTypes
    <3>2. CASE p = th
      BY <1>1, <3>1, <3>2
    <3>3. CASE p # th
      BY <1>1, <3>1, <3>3
    <3> QED
      BY <3>2, <3>3
  <2>3. \A p \in Producers : pc'[p] = "freed" => holds[p] = 0
    BY <1>1, ThreadKinds DEF ListInv
  <2>4. ASSUME NEW s \in Senders, held[s] # None
        PROVE  pc'[held[s]] \notin {"none", "register"}
    <3>1. held[s] \in Producers /\ pc[held[s]] \notin {"none", "register"}
      BY <2>4 DEF ListInv, EnvTypes
    <3> QED
      BY <1>1, <3>1, ThreadKinds
  <2> QED
    BY <2>1, <2>2, <2>3, <2>4 DEF ListInv
<1> QED
  BY <1>2, <1>3, <1>4, <1>5

\* The same where the list, the run queue or the senders' producers change.
LEMMA ThreadStep ==
  ASSUME NEW d, Admins = {d}, EnvInv(d), NEW th \in Producers \cup Senders, NEW w, Goto(th, w),
         UNCHANGED <<inited, resources, destroying, tearing, stop, tasks, ret>>,
         list' \subseteq Producers, queue' \in Seq(Producers \cup {None}), Len(queue') <= QueueCap,
         registered' \in [Producers -> BOOLEAN], inQueue' \in [Producers -> BOOLEAN],
         holds' \in [Producers -> Nat], held' \in [Senders -> Producers \cup {None}],
         (pc[th] \in OpPoints <=> w \in OpPoints) /\ ops' = ops,
         th \in Producers => w \in ProducerPoints,
         th \in Senders => /\ w \in WorkPoints \cup {"exited", "idle"} /\ pc[th] # "exited"
                           /\ (held'[th] = None) <=> (w \in {"exited", "idle"}),
         \A s \in Senders \ {th} : held'[s] = held[s],
         ~inited /\ pc[d] # "free" => list' = {} /\ queue' = <<>>,
         ListInv'
  PROVE  EnvInv(d)'
<1> USE DEF EnvInv
<1>1. /\ pc'[th] = w /\ DOMAIN pc' = Threads /\ \A u \in Threads : u # th => pc'[u] = pc[u]
      /\ th \in Threads /\ th # d /\ d \in Threads
  BY ThreadKinds DEF Goto, EnvTypes
<1>2. OpsInv' /\ ops' \in Nat
  BY OpsStep
<1>3. EnvTypes'
  <2>1. \A p \in Producers : pc'[p] \in ProducerPoints
    BY <1>1, ThreadKinds DEF EnvTypes
  <2>2. \A s \in Senders : /\ pc'[s] \in WorkPoints \cup {"exited", "idle"}
                           /\ (held'[s] = None) <=> (pc'[s] \in {"exited", "idle"})
    <3>1. SUFFICES ASSUME NEW s \in Senders
                   PROVE  /\ pc'[s] \in WorkPoints \cup {"exited", "idle"}
                          /\ (held'[s] = None) <=> (pc'[s] \in {"exited", "idle"})
      OBVIOUS
    <3>2. CASE s = th
      BY <1>1, <3>2
    <3>3. CASE s # th
      BY <1>1, <3>3, ThreadKinds DEF EnvTypes
    <3> QED
      BY <3>2, <3>3
  <2>3. \A e \in Admins : pc'[e] \in AdminPoints
    BY <1>1 DEF EnvTypes
  <2> QED
    BY <1>1, <1>2, <2>1, <2>2, <2>3 DEF EnvTypes
<1>4. LifeInv(d)'
  <2>1. pc'[d] = pc[d]
    BY <1>1
  <2>2. \A s \in Senders : pc'[s] # "exited" => pc[s] # "exited"
    BY <1>1, ThreadKinds
  <2> QED
    BY <2>1, <2>2 DEF LifeInv
<1> QED
  BY <1>2, <1>3, <1>4

\* Only tasks and histories change, or nothing.
LEMMA IdleStep ==
  ASSUME NEW d, Admins = {d}, EnvInv(d), tasks' \in [Producers -> Nat],
         UNCHANGED <<inited, resources, destroying, tearing, ops, stop, list, queue, flagVars, holds,
                     held, ret, pc>>
  PROVE  EnvInv(d)'
<1>1. EnvTypes'
  BY DEF EnvInv, EnvTypes, flagVars
<1>2. OpsInv'
  BY DEF EnvInv, OpsInv, OpThreads
<1>3. LifeInv(d)'
  BY DEF EnvInv, LifeInv
<1>4. ListInv'
  BY DEF EnvInv, ListInv, HoldersOf, flagVars
<1> QED
  BY <1>1, <1>2, <1>3, <1>4 DEF EnvInv

\* What an operation can rely on while it runs: the environment is there.
LEMMA OpRuns ==
  ASSUME NEW d, Admins = {d}, EnvInv(d), NEW th \in Producers \cup Senders, pc[th] \in OpPoints
  PROVE  inited /\ ~tearing /\ ~stop /\ resources /\ pc[d] # "free"
<1>1. th \in OpThreads
  BY DEF OpThreads
<1>2. inited /\ ~tearing
  BY <1>1 DEF EnvInv, OpsInv
<1> QED
  BY <1>2 DEF EnvInv, LifeInv

\* create, close and the plain steps of unregister.
LEMMA ProducerPlain ==
  ASSUME NEW d, Admins = {d}, EnvInv(d), NEW p \in Producers,
         \/ RegisterBegin(p) \/ RegisterEnd(p) \/ CloseCall(p) \/ CloseEnd(p)
         \/ UnregisterBegin(p) \/ UnregisterEnd(p) \/ Free(p)
  PROVE  EnvInv(d)'
<1>1. /\ EnvTypes /\ LifeInv(d) /\ ListInv /\ p \notin Senders
      /\ p \in list => pc[p] \in ListPoints
  BY ThreadKinds DEF EnvInv, ListInv
<1>2. /\ inQueue \in [Producers -> BOOLEAN] /\ tasks \in [Producers -> Nat]
      /\ ret \in [Senders -> {"step", "done"}] /\ registered \in [Producers -> BOOLEAN]
  BY <1>1 DEF EnvTypes
<1> USE DEF lifeVars, flagVars, taskVars, senderVars
<1>3. CASE RegisterBegin(p)
  <2>1. CASE MayBegin /\ ops' = ops + 1 /\ Goto(p, "register")
    BY <1>1, <1>2, <1>3, <2>1, PlainStep
       DEF RegisterBegin, MayBegin, ResourcesReady, OpPoints, ProducerPoints, ListPoints
  <2>2. CASE UNCHANGED ops /\ Goto(p, "closing")
    BY <1>1, <1>2, <1>3, <2>2, PlainStep DEF RegisterBegin, OpPoints, ProducerPoints, ListPoints
  <2> QED
    BY <1>3, <2>1, <2>2 DEF RegisterBegin
<1>4. CASE RegisterEnd(p)
  <2>1. CASE Goto(p, "notify")
    BY <1>1, <1>2, <1>4, <2>1, PlainStep DEF RegisterEnd, OpPoints, ProducerPoints, ListPoints
  <2>2. CASE Goto(p, "closing")
    BY <1>1, <1>2, <1>4, <2>2, PlainStep DEF RegisterEnd, OpPoints, ProducerPoints, ListPoints
  <2> QED
    BY <1>4, <2>1, <2>2 DEF RegisterEnd
<1>5. CASE CloseCall(p)
  BY <1>1, <1>2, <1>5, PlainStep DEF CloseCall, OpPoints, ProducerPoints, ListPoints
<1>6. CASE CloseEnd(p)
  BY <1>1, <1>2, <1>6, PlainStep DEF CloseEnd, OpPoints, ProducerPoints, ListPoints
<1>7. CASE UnregisterBegin(p)
  <2>1. CASE ResourcesReady
    BY <1>1, <1>2, <1>7, <2>1, PlainStep
       DEF UnregisterBegin, ResourcesReady, OpPoints, ProducerPoints, ListPoints
  <2>2. CASE ~ResourcesReady
    <3>1. /\ ~tearing /\ pc[p] = "unregister" /\ Goto(p, "unheld") /\ ops' = ops
          /\ registered' = [registered EXCEPT ![p] = FALSE] /\ inQueue' = [inQueue EXCEPT ![p] = FALSE]
      BY <1>7, <2>2 DEF UnregisterBegin
    <3>2. list = {}
      BY <1>1, <2>2, <3>1 DEF LifeInv, ResourcesReady
    <3>3. registered[p] = FALSE
      BY <1>1, <1>2, <3>2 DEF ListInv
    <3>4. registered' = registered /\ inQueue' \in [Producers -> BOOLEAN]
      BY <1>2, <3>1, <3>3
    <3> QED
      BY <1>1, <1>2, <1>7, <3>1, <3>2, <3>4, PlainStep DEF UnregisterBegin, OpPoints, ProducerPoints
  <2> QED
    BY <2>1, <2>2
<1>8. CASE UnregisterEnd(p)
  BY <1>1, <1>2, <1>8, PlainStep DEF UnregisterEnd, OpPoints, ProducerPoints, ListPoints
<1>9. CASE Free(p)
  <2>1. tasks' \in [Producers -> Nat]
    BY <1>2, <1>9 DEF Free
  <2> QED
    BY <1>1, <1>2, <1>9, <2>1, PlainStep DEF Free, OpPoints, ProducerPoints, ListPoints
<1> QED
  BY <1>3, <1>4, <1>5, <1>6, <1>7, <1>8, <1>9

\* A producer enters the list; the environment is not stopped meanwhile.
LEMMA InsertInv ==
  ASSUME NEW d, Admins = {d}, EnvInv(d), NEW p \in Producers, RegisterInsert(p)
  PROVE  EnvInv(d)'
<1> USE DEF lifeVars, taskVars, senderVars
<1>1. EnvTypes /\ LifeInv(d) /\ ListInv /\ p \notin Senders /\ p \in Threads /\ DOMAIN pc = Threads
  BY ThreadKinds DEF EnvInv, EnvTypes
<1>2. inited /\ ~stop /\ pc[p] = "register"
  BY OpRuns DEF RegisterInsert, OpPoints
<1>3. /\ list' = list \cup {p} /\ registered' = [registered EXCEPT ![p] = TRUE] /\ Goto(p, "registered")
      /\ UNCHANGED <<inited, resources, destroying, tearing, ops, stop, queue, inQueue, holds, tasks, held, ret>>
  BY <1>1, <1>2 DEF RegisterInsert, EnvTypes
<1>4. pc'[p] = "registered" /\ \A u \in Threads : u # p => pc'[u] = pc[u]
  BY <1>1, <1>3 DEF Goto
<1>5. ListInv'
  <2>1. \A q : HoldersOf(q)' = HoldersOf(q)
    BY <1>3 DEF HoldersOf
  <2>2. \A q \in Producers : registered'[q] <=> q \in list'
    BY <1>1, <1>3 DEF ListInv, EnvTypes
  <2>3. \A q \in list' : pc'[q] \in ListPoints
    BY <1>1, <1>3, <1>4, ThreadKinds DEF ListInv, EnvTypes, ListPoints
  <2>4. \A s \in Senders : held'[s] # None => pc'[held'[s]] \notin {"none", "register"}
    BY <1>1, <1>3, <1>4, ThreadKinds DEF ListInv, EnvTypes
  <2>5. \A q \in Producers : pc'[q] = "freed" => holds'[q] = 0
    BY <1>1, <1>3, <1>4, ThreadKinds DEF ListInv
  <2> QED
    BY <1>1, <1>3, <2>1, <2>2, <2>3, <2>4, <2>5 DEF ListInv
<1>6. /\ list' \subseteq Producers /\ queue' \in Seq(Producers \cup {None}) /\ Len(queue') <= QueueCap
      /\ registered' \in [Producers -> BOOLEAN] /\ inQueue' \in [Producers -> BOOLEAN]
      /\ holds' \in [Producers -> Nat] /\ held' \in [Senders -> Producers \cup {None}]
  BY <1>1, <1>3 DEF EnvTypes
<1> QED
  BY <1>1, <1>2, <1>3, <1>5, <1>6, ThreadStep DEF OpPoints, ProducerPoints

\* A producer leaves the list, and a hole where it was in the run queue.
LEMMA RemoveInv ==
  ASSUME NEW d, Admins = {d}, EnvInv(d), NEW p \in Producers, UnregisterRemove(p)
  PROVE  EnvInv(d)'
<1> USE DEF lifeVars, taskVars, senderVars
<1>1. /\ EnvTypes /\ LifeInv(d) /\ ListInv /\ p \notin Senders /\ p \in Threads /\ DOMAIN pc = Threads
      /\ pc[p] = "remove"
  BY ThreadKinds DEF EnvInv, EnvTypes, UnregisterRemove
<1>2. inited
  BY <1>1, OpRuns DEF OpPoints
<1>3. /\ list' = list \ {p} /\ registered' = [registered EXCEPT ![p] = FALSE] /\ Goto(p, "removed")
      /\ inQueue' = [inQueue EXCEPT ![p] = FALSE]
      /\ queue' = [i \in DOMAIN queue |-> IF queue[i] = p THEN None ELSE queue[i]]
      /\ UNCHANGED <<inited, resources, destroying, tearing, ops, stop, holds, tasks, held, ret>>
  BY DEF UnregisterRemove, TakeOut
<1>4. pc'[p] = "removed" /\ \A u \in Threads : u # p => pc'[u] = pc[u]
  BY <1>1, <1>3 DEF Goto
<1>5. /\ queue' \in Seq(Producers \cup {None}) /\ Len(queue') = Len(queue) /\ DOMAIN queue' = DOMAIN queue
      /\ \A i \in DOMAIN queue : queue'[i] = IF queue[i] = p THEN None ELSE queue[i]
  <2>1. queue \in Seq(Producers \cup {None}) /\ DOMAIN queue = 1..Len(queue) /\ Len(queue) \in Nat
    BY <1>1 DEF EnvTypes
  <2>2. queue' \in [1..Len(queue) -> Producers \cup {None}]
    BY <1>3, <2>1
  <2> QED
    BY <1>3, <2>1, <2>2
<1>6. ListInv'
  <2>1. \A q : HoldersOf(q)' = HoldersOf(q)
    BY <1>3 DEF HoldersOf
  <2>2. \A q \in Producers : registered'[q] <=> q \in list'
    BY <1>1, <1>3 DEF ListInv, EnvTypes
  <2>3. \A q \in list' : pc'[q] \in ListPoints
    BY <1>1, <1>3, <1>4, ThreadKinds DEF ListInv, EnvTypes
  <2>4. \A s \in Senders : held'[s] # None => pc'[held'[s]] \notin {"none", "register"}
    BY <1>1, <1>3, <1>4, ThreadKinds DEF ListInv, EnvTypes
  <2>5. \A q \in Producers : pc'[q] = "freed" => holds'[q] = 0
    BY <1>1, <1>3, <1>4, ThreadKinds DEF ListInv
  <2>6. \A i \in DOMAIN queue' : queue'[i] # None => queue'[i] \in list'
    BY <1>1, <1>3, <1>5 DEF ListInv
  <2> QED
    BY <1>1, <1>3, <2>1, <2>2, <2>3, <2>4, <2>5, <2>6 DEF ListInv
<1>7. /\ list' \subseteq Producers /\ Len(queue') <= QueueCap
      /\ registered' \in [Producers -> BOOLEAN] /\ inQueue' \in [Producers -> BOOLEAN]
      /\ holds' \in [Producers -> Nat] /\ held' \in [Senders -> Producers \cup {None}]
  BY <1>1, <1>3, <1>5 DEF EnvTypes
<1> QED
  BY <1>1, <1>2, <1>3, <1>5, <1>6, <1>7, ThreadStep DEF OpPoints, ProducerPoints

\* A notify works for a producer: its own, or the one its sender holds.
LEMMA TargetIsProducer ==
  ASSUME NEW d, Admins = {d}, EnvTypes, NEW th \in Producers \cup Senders,
         th \in Senders => pc[th] \in WorkPoints
  PROVE  Target(th) \in Producers
BY ThreadKinds DEF Target, EnvTypes, WorkPoints

\* The steps of ve_tls_env_notify that leave the run queue alone.
LEMMA NotifyPlain ==
  ASSUME NEW d, Admins = {d}, EnvInv(d), NEW th \in Producers \cup Senders,
         NotifyBegin(th) \/ NotifyMark(th) \/ NotifyEnd(th)
  PROVE  EnvInv(d)'
<1> USE DEF lifeVars, flagVars, taskVars, senderVars
<1>1. /\ EnvTypes /\ LifeInv(d) /\ ListInv /\ pc[th] \in {"notify", "mark", "notified"}
      /\ th \in Producers => th \notin Senders
      /\ inQueue \in [Producers -> BOOLEAN] /\ tasks \in [Producers -> Nat]
      /\ ret \in [Senders -> {"step", "done"}]
  BY ThreadKinds DEF EnvInv, EnvTypes, NotifyBegin, NotifyMark, NotifyEnd
<1>2. PICK back : /\ back = (IF th \in Senders THEN ret[th] ELSE "live")
                  /\ th \in Senders => back \in {"step", "done"}
                  /\ th \notin Senders => back = "live"
  BY <1>1
<1>3. back \notin OpPoints
  BY <1>2 DEF OpPoints
<1>4. /\ th \in Producers => back \in ProducerPoints \ {"none"} /\ back \in ListPoints
      /\ th \in Producers => back # "register" /\ back # "freed"
      /\ th \in Senders => back \in WorkPoints
  BY <1>1, <1>2 DEF ProducerPoints, ListPoints, WorkPoints
<1>5. CASE NotifyBegin(th)
  <2>1. CASE MayBegin
    BY <1>1, <1>5, <2>1, PlainStep
       DEF NotifyBegin, MayBegin, ResourcesReady, OpPoints, ProducerPoints, ListPoints, WorkPoints
  <2>2. CASE ~MayBegin
    <3>1. Goto(th, back) /\ ops' = ops /\ pc[th] = "notify"
      BY <1>2, <1>5, <2>2 DEF NotifyBegin, NotifyReturns
    <3>2. pc[th] \notin OpPoints
      BY <3>1 DEF OpPoints
    <3>3. th \in Senders => pc[th] \in WorkPoints
      BY <3>1 DEF WorkPoints
    <3>4. UNCHANGED <<inited, resources, destroying, tearing, stop, list, queue, registered, inQueue, holds,
                      tasks, held, ret>>
      BY <1>5 DEF NotifyBegin
    <3> QED
      BY <1>1, <1>3, <1>4, <3>1, <3>2, <3>3, <3>4, PlainStep
  <2> QED
    BY <2>1, <2>2
<1>6. CASE NotifyMark(th)
  <2>1. PICK w \in {"push", "notified"} : Goto(th, w)
    BY <1>6 DEF NotifyMark
  <2>2. inQueue' \in [Producers -> BOOLEAN]
    BY <1>1, <1>6 DEF NotifyMark
  <2> QED
    BY <1>1, <1>6, <2>1, <2>2, PlainStep DEF NotifyMark, OpPoints, ProducerPoints, ListPoints, WorkPoints
<1>7. CASE NotifyEnd(th)
  <2>1. Goto(th, back) /\ LifecycleEnd /\ pc[th] = "notified"
    BY <1>2, <1>7 DEF NotifyEnd, NotifyReturns
  <2>2. pc[th] \in OpPoints
    BY <2>1 DEF OpPoints
  <2>3. th \in Senders => pc[th] \in WorkPoints
    BY <2>1 DEF WorkPoints
  <2>4. UNCHANGED <<inited, resources, destroying, tearing, stop, list, queue, registered, inQueue, holds,
                    tasks, held, ret>>
    BY <1>7 DEF NotifyEnd
  <2> QED
    BY <1>1, <1>3, <1>4, <2>1, <2>2, <2>3, <2>4, PlainStep
<1> QED
  BY <1>5, <1>6, <1>7

\* A registered producer is put into the run queue.
LEMMA PushInv ==
  ASSUME NEW d, Admins = {d}, EnvInv(d), NEW th \in Producers \cup Senders, NotifyPush(th)
  PROVE  EnvInv(d)'
<1> USE DEF lifeVars, flagVars, taskVars, senderVars
<1>1. /\ EnvTypes /\ LifeInv(d) /\ ListInv /\ pc[th] = "push" /\ th \in Threads /\ DOMAIN pc = Threads
      /\ th \in Producers => th \notin Senders
      /\ inQueue \in [Producers -> BOOLEAN] /\ tasks \in [Producers -> Nat]
      /\ ret \in [Senders -> {"step", "done"}] /\ queue \in Seq(Producers \cup {None})
      /\ Len(queue) <= QueueCap /\ QueueCap \in Nat
  BY ThreadKinds, EnvAssumption DEF EnvInv, EnvTypes, NotifyPush
<1>2. inited
  BY <1>1, OpRuns DEF OpPoints
<1>3. PICK p \in Producers : p = Target(th)
  BY <1>1, TargetIsProducer DEF WorkPoints
<1>4. /\ Goto(th, "notified")
      /\ UNCHANGED <<inited, resources, destroying, tearing, ops, stop, list, registered, holds, tasks, held, ret>>
  BY DEF NotifyPush
<1>5. inQueue' \in [Producers -> BOOLEAN]
  BY <1>1 DEF NotifyPush
<1>6. CASE queue' = queue
  BY <1>1, <1>4, <1>5, <1>6, PlainStep DEF OpPoints, ProducerPoints, ListPoints, WorkPoints
<1>7. CASE registered[p] /\ Len(queue) < QueueCap /\ queue' = Append(queue, p)
  <2>1. /\ queue' \in Seq(Producers \cup {None}) /\ Len(queue') <= QueueCap /\ DOMAIN queue' = 1..(Len(queue) + 1)
        /\ DOMAIN queue = 1..Len(queue) /\ Len(queue) \in Nat
        /\ \A i \in 1..Len(queue) : queue'[i] = queue[i]
        /\ queue'[Len(queue) + 1] = p
    BY <1>1, <1>7
  <2>2. pc'[th] = "notified" /\ \A u \in Threads : u # th => pc'[u] = pc[u]
    BY <1>1, <1>4 DEF Goto
  <2>3. ListInv'
    <3>1. \A q : HoldersOf(q)' = HoldersOf(q)
      BY <1>4 DEF HoldersOf
    <3>2. \A q \in list' : pc'[q] \in ListPoints
      BY <1>1, <1>4, <2>2, ThreadKinds DEF ListInv, EnvTypes, ListPoints
    <3>3. \A i \in DOMAIN queue' : queue'[i] # None => queue'[i] \in list'
      <4>1. p \in list
        BY <1>1, <1>7 DEF ListInv
      <4>2. \A i \in DOMAIN queue' : i \in DOMAIN queue \/ i = Len(queue) + 1
        BY <2>1
      <4> QED
        BY <1>1, <1>4, <2>1, <4>1, <4>2 DEF ListInv
    <3>4. \A s \in Senders : held'[s] # None => pc'[held'[s]] \notin {"none", "register"}
      BY <1>1, <1>4, <2>2, ThreadKinds DEF ListInv, EnvTypes
    <3>5. \A q \in Producers : pc'[q] = "freed" => holds'[q] = 0
      BY <1>1, <1>4, <2>2, ThreadKinds DEF ListInv
    <3> QED
      BY <1>1, <1>4, <3>1, <3>2, <3>3, <3>4, <3>5 DEF ListInv
  <2>4. /\ list' \subseteq Producers /\ registered' \in [Producers -> BOOLEAN]
        /\ holds' \in [Producers -> Nat] /\ held' \in [Senders -> Producers \cup {None}]
        /\ \A s \in Senders : held[s] = None => pc[s] \in {"exited", "idle"}
    BY <1>1, <1>4 DEF EnvTypes
  <2>5. th \in Senders => held'[th] # None
    BY <1>1, <1>4, <2>4
  <2> QED
    BY <1>1, <1>2, <1>4, <1>5, <2>1, <2>3, <2>4, <2>5, ThreadStep
       DEF OpPoints, ProducerPoints, WorkPoints
<1> QED
  BY <1>1, <1>3, <1>6, <1>7 DEF NotifyPush

\* A sender works for the producer it holds.
LEMMA SenderPlain ==
  ASSUME NEW d, Admins = {d}, EnvInv(d), NEW s \in Senders,
         SenderCleared(s) \/ SenderStep(s) \/ SenderSent(s) \/ SenderPending(s)
  PROVE  EnvInv(d)'
<1> USE DEF lifeVars, flagVars, taskVars, senderVars
<1>1. /\ EnvTypes /\ s \notin Producers
      /\ inQueue \in [Producers -> BOOLEAN] /\ tasks \in [Producers -> Nat]
      /\ ret \in [Senders -> {"step", "done"}]
  BY ThreadKinds DEF EnvInv, EnvTypes
<1>2. UNCHANGED <<inited, resources, destroying, tearing, ops, stop, list, queue, registered, holds, held>>
  BY DEF SenderCleared, SenderStep, SenderSent, SenderPending
<1>3. /\ pc[s] \in {"popped", "step", "sending", "pending"}
      /\ \E w \in {"done", "step", "sending", "pending", "notify"} : Goto(s, w)
  BY DEF SenderCleared, SenderStep, SenderSent, SenderPending
<1>4. inQueue' \in [Producers -> BOOLEAN]
  BY <1>1 DEF SenderCleared, SenderStep, SenderSent, SenderPending, ClearFlag
<1>5. ret' \in [Senders -> {"step", "done"}]
  BY <1>1 DEF SenderCleared, SenderStep, SenderSent, SenderPending
<1>6. tasks' \in [Producers -> Nat]
  <2>1. CASE SenderStep(s)
    <3>1. held[s] \in Producers
      BY <1>1, <2>1 DEF EnvTypes, SenderStep
    <3> QED
      BY <1>1, <2>1, <3>1 DEF SenderStep
  <2> QED
    BY <1>1, <2>1 DEF SenderCleared, SenderSent, SenderPending
<1>7. PICK w \in {"done", "step", "sending", "pending", "notify"} : Goto(s, w)
  BY <1>3
<1>8. pc[s] \notin OpPoints /\ w \notin OpPoints /\ pc[s] \in WorkPoints /\ w \in WorkPoints
  BY <1>3, <1>7 DEF OpPoints, WorkPoints
<1> QED
  BY <1>1, <1>2, <1>4, <1>5, <1>6, <1>7, <1>8, PlainStep

\* A sender takes a producer out of the run queue, or finds a hole there.
LEMMA PopInv ==
  ASSUME NEW d, Admins = {d}, EnvInv(d), NEW s \in Senders, SenderPop(s)
  PROVE  EnvInv(d)'
<1> USE DEF lifeVars, flagVars, taskVars, senderVars
<1>1. /\ EnvTypes /\ OpsInv /\ LifeInv(d) /\ ListInv /\ s \notin Producers /\ s \in Threads
      /\ DOMAIN pc = Threads
      /\ queue \in Seq(Producers \cup {None}) /\ queue # <<>> /\ Len(queue) <= QueueCap /\ QueueCap \in Nat
      /\ pc[s] = "idle" /\ queue' = Tail(queue)
      /\ held \in [Senders -> Producers \cup {None}] /\ holds \in [Producers -> Nat]
      /\ UNCHANGED <<inited, resources, destroying, tearing, ops, stop, list, registered, inQueue, tasks, ret>>
  BY ThreadKinds, EnvAssumption DEF EnvInv, EnvTypes, SenderPop
<1>2. inited \/ pc[d] = "free"
  BY <1>1 DEF LifeInv
<1>3. /\ queue' \in Seq(Producers \cup {None}) /\ Len(queue') <= QueueCap
      /\ \A i \in DOMAIN queue' : i + 1 \in DOMAIN queue /\ queue'[i] = queue[i + 1]
      /\ 1 \in DOMAIN queue /\ Head(queue) = queue[1]
  BY <1>1
<1>4. \A i \in DOMAIN queue' : queue'[i] # None => queue'[i] \in list'
  BY <1>1, <1>3 DEF ListInv
<1>5. CASE Head(queue) = None
  <2>1. UNCHANGED <<held, holds, pc>>
    BY <1>5 DEF SenderPop
  <2>2. EnvTypes'
    BY <1>1, <1>3, <2>1 DEF EnvTypes
  <2>3. OpsInv'
    BY <1>1, <2>1 DEF OpsInv, OpThreads
  <2>4. LifeInv(d)'
    BY <1>1, <1>2, <2>1 DEF LifeInv
  <2>5. ListInv'
    BY <1>1, <1>4, <2>1 DEF ListInv, HoldersOf
  <2> QED
    BY <2>2, <2>3, <2>4, <2>5 DEF EnvInv
<1>6. CASE Head(queue) # None
  <2>1. PICK p \in list : p = Head(queue)
    BY <1>1, <1>3, <1>6 DEF ListInv
  <2>2. /\ held' = [held EXCEPT ![s] = p] /\ holds' = [holds EXCEPT ![p] = @ + 1] /\ Goto(s, "popped")
    BY <1>6, <2>1 DEF SenderPop, Hold
  <2>3. p \in Producers /\ pc[p] \in ListPoints /\ p # None
    BY <1>1, <2>1, ThreadKinds DEF ListInv, EnvTypes
  <2>4. pc'[s] = "popped" /\ \A u \in Threads : u # s => pc'[u] = pc[u]
    BY <1>1, <2>2 DEF Goto
  <2>5. /\ held' \in [Senders -> Producers \cup {None}] /\ holds' \in [Producers -> Nat] /\ held'[s] = p
        /\ \A u \in Senders \ {s} : held'[u] = held[u]
        /\ held[s] = None
    BY <1>1, <2>2, <2>3 DEF EnvTypes
  <2>6. \A q \in Producers : holds'[q] = Cardinality(HoldersOf(q)')
    <3>1. SUFFICES ASSUME NEW q \in Producers
                   PROVE  holds'[q] = Cardinality(HoldersOf(q)')
      OBVIOUS
    <3>2. IsFiniteSet(HoldersOf(q)) /\ holds[q] = Cardinality(HoldersOf(q)) /\ q # None
      BY <1>1, EnvAssumption, FS_Subset, ThreadKinds DEF HoldersOf, ListInv
    <3>3. CASE q = p
      <4>1. HoldersOf(q)' = HoldersOf(q) \cup {s} /\ s \notin HoldersOf(q)
        BY <2>5, <3>2, <3>3 DEF HoldersOf
      <4>2. Cardinality(HoldersOf(q)') = Cardinality(HoldersOf(q)) + 1
        BY <3>2, <4>1, FS_AddElement
      <4>3. holds'[q] = holds[q] + 1
        BY <1>1, <2>2, <3>3
      <4> QED
        BY <3>2, <4>2, <4>3
    <3>4. CASE q # p
      <4>1. HoldersOf(q)' = HoldersOf(q)
        BY <2>5, <3>2, <3>4 DEF HoldersOf
      <4> QED
        BY <1>1, <2>2, <3>2, <3>4, <4>1
    <3> QED
      BY <3>3, <3>4
  <2>7. list' \subseteq Producers /\ registered' \in [Producers -> BOOLEAN] /\ inQueue' \in [Producers -> BOOLEAN]
    BY <1>1 DEF EnvTypes
  <2>8. ListInv'
    <3>1. \A q \in Producers : pc'[q] = pc[q]
      BY <1>1, <2>4, ThreadKinds
    <3>2. \A q \in list' : pc'[q] \in ListPoints
      BY <1>1, <2>7, <3>1 DEF ListInv
    <3>4. \A u \in Senders : held'[u] # None => pc'[held'[u]] \notin {"none", "register"}
      <4>1. pc'[p] \notin {"none", "register"}
        BY <1>1, <2>3, <2>4, ThreadKinds DEF ListPoints
      <4>2. ASSUME NEW u \in Senders, u # s, held'[u] # None
            PROVE  pc'[held'[u]] \notin {"none", "register"}
        <5>1. held'[u] = held[u] /\ held[u] \in Producers /\ pc[held[u]] \notin {"none", "register"}
          BY <1>1, <2>5, <4>2 DEF ListInv
        <5> QED
          BY <1>1, <2>4, <5>1, ThreadKinds
      <4> QED
        BY <2>5, <4>1, <4>2
    <3>5. \A q \in Producers : pc'[q] = "freed" => holds'[q] = 0
      <4>1. ASSUME NEW q \in Producers, pc'[q] = "freed"
            PROVE  holds'[q] = 0
        <5>1. pc[q] = "freed"
          BY <1>1, <2>4, <4>1, ThreadKinds
        <5>2. q # p /\ holds[q] = 0
          BY <1>1, <2>3, <5>1 DEF ListPoints, ListInv
        <5> QED
          BY <1>1, <2>2, <5>2
      <4> QED
        BY <4>1
    <3> QED
      BY <1>1, <1>4, <2>6, <3>2, <3>4, <3>5 DEF ListInv
  <2> QED
    BY <1>1, <1>2, <1>3, <2>2, <2>3, <2>5, <2>7, <2>8, ThreadStep DEF OpPoints, WorkPoints
<1> QED
  BY <1>5, <1>6

\* A sender gives its producer back, or ends.
LEMMA DoneInv ==
  ASSUME NEW d, Admins = {d}, EnvInv(d), NEW s \in Senders, SenderDone(s) \/ SenderExit(s)
  PROVE  EnvInv(d)'
<1> USE DEF lifeVars, flagVars, taskVars, senderVars
<1>1. /\ EnvTypes /\ LifeInv(d) /\ ListInv /\ s \notin Producers /\ s \in Threads /\ DOMAIN pc = Threads
      /\ held \in [Senders -> Producers \cup {None}] /\ holds \in [Producers -> Nat]
      /\ pc[s] \in {"idle", "done"}
      /\ UNCHANGED <<inited, resources, destroying, tearing, ops, stop, list, queue, registered, inQueue, tasks, ret>>
  BY ThreadKinds DEF EnvInv, EnvTypes, SenderDone, SenderExit
<1>2. /\ list' \subseteq Producers /\ registered' \in [Producers -> BOOLEAN] /\ inQueue' \in [Producers -> BOOLEAN]
      /\ queue' \in Seq(Producers \cup {None}) /\ Len(queue') <= QueueCap
      /\ ~inited /\ pc[d] # "free" => list' = {} /\ queue' = <<>>
  BY <1>1 DEF EnvTypes, LifeInv
<1>3. PICK w \in {"idle", "exited"} : Goto(s, w)
  BY DEF SenderDone, SenderExit
<1>4. pc'[s] \in {"idle", "exited"} /\ \A u \in Threads : u # s => pc'[u] = pc[u]
  BY <1>1, <1>3 DEF Goto
<1>5. /\ \A q \in list' : pc'[q] \in ListPoints
      /\ \A q \in Producers : pc'[q] = pc[q]
  <2>1. \A q \in Producers : pc'[q] = pc[q]
    BY <1>1, <1>4, ThreadKinds
  <2> QED
    BY <1>1, <1>2, <2>1 DEF ListInv
<1>6. CASE SenderExit(s)
  <2>1. UNCHANGED <<held, holds>> /\ held'[s] = None
    BY <1>1, <1>6 DEF SenderExit, EnvTypes
  <2>2. \A q : HoldersOf(q)' = HoldersOf(q)
    BY <2>1 DEF HoldersOf
  <2>3. ListInv'
    BY <1>1, <1>5, <2>1, <2>2 DEF ListInv, EnvTypes
  <2> QED
    BY <1>1, <1>2, <1>3, <2>1, <2>3, ThreadStep DEF OpPoints, WorkPoints
<1>7. CASE SenderDone(s)
  <2>1. PICK p \in Producers : p = held[s]
    BY <1>1, <1>7 DEF SenderDone, EnvTypes
  <2>2. held' = [held EXCEPT ![s] = None] /\ holds' = [holds EXCEPT ![p] = @ - 1]
    BY <1>7, <2>1 DEF SenderDone
  <2>3. /\ held' \in [Senders -> Producers \cup {None}] /\ held'[s] = None
        /\ \A u \in Senders \ {s} : held'[u] = held[u]
        /\ \A q \in Producers \ {p} : holds'[q] = holds[q]
        /\ holds'[p] = holds[p] - 1 /\ holds[p] \in Nat /\ p # None
    BY <1>1, <2>2, ThreadKinds
  <2>4. \A q \in Producers : IsFiniteSet(HoldersOf(q)) /\ holds[q] = Cardinality(HoldersOf(q)) /\ q # None
    BY <1>1, EnvAssumption, FS_Subset, ThreadKinds DEF HoldersOf, ListInv
  <2>5. s \in HoldersOf(p) /\ HoldersOf(p)' = HoldersOf(p) \ {s}
    BY <2>1, <2>3 DEF HoldersOf
  <2>6. \A q \in Producers \ {p} : HoldersOf(q)' = HoldersOf(q)
    BY <2>1, <2>3, <2>4 DEF HoldersOf
  <2>7. holds[p] > 0
    <3>1. HoldersOf(p) # {}
      BY <2>5
    <3> QED
      BY <2>3, <2>4, <3>1, FS_EmptySet
  <2>8. Cardinality(HoldersOf(p)') = Cardinality(HoldersOf(p)) - 1
    BY <2>4, <2>5, FS_RemoveElement
  <2>9. holds' \in [Producers -> Nat]
    <3>1. holds[p] - 1 \in Nat
      BY <2>3, <2>7
    <3> QED
      BY <1>1, <2>2, <3>1
  <2>10. ListInv'
    <3>1. \A q \in Producers : holds'[q] = Cardinality(HoldersOf(q)')
      BY <2>3, <2>4, <2>6, <2>8
    <3>2. \A q \in Producers : pc'[q] = "freed" => holds'[q] = 0
      BY <1>1, <1>5, <2>3, <2>7 DEF ListInv
    <3>3. \A u \in Senders : held'[u] # None => pc'[held'[u]] \notin {"none", "register"}
      BY <1>1, <1>5, <2>3 DEF ListInv
    <3> QED
      BY <1>1, <1>5, <3>1, <3>2, <3>3 DEF ListInv
  <2> QED
    BY <1>1, <1>2, <1>3, <2>3, <2>9, <2>10, ThreadStep DEF OpPoints, WorkPoints
<1> QED
  BY <1>6, <1>7

-----------------------------------------------------------------------------
(* The invariant holds, and what follows from it.                          *)

\* Every step of the environment keeps its invariant.
LEMMA EnvStepInv ==
  ASSUME NEW d, Admins = {d}, EnvInv(d), [EnvNext]_envVars
  PROVE  EnvInv(d)'
<1> USE DEF lifeVars, flagVars, taskVars, senderVars
<1>1. ASSUME NEW e \in Admins, InitEnv(e) \/ DestroyCall(e) \/ DestroyTimeout(e) \/ AdminStep(e)
      PROVE  EnvInv(d)'
  <2>1. e = d
    OBVIOUS
  <2>2. CASE DestroyTick(d)
    BY <2>2, TickInv DEF DestroyTick
  <2> QED
    BY <1>1, <2>1, <2>2, InitEnvInv, DestroyInv, FreeEnvInv DEF AdminStep
<1>2. ASSUME NEW th \in Producers \cup Senders, Notify(th)
      PROVE  EnvInv(d)'
  BY <1>2, NotifyPlain, PushInv DEF Notify
<1>3. ASSUME NEW p \in Producers,
             \/ RegisterBegin(p) \/ AddLog(p) \/ SealBatch(p) \/ CloseCall(p)
             \/ NewTask(p) \/ ProducerStep(p)
      PROVE  EnvInv(d)'
  <2>1. CASE AddLog(p) \/ SealBatch(p) \/ NewTask(p)
    <3>1. tasks' \in [Producers -> Nat]
      BY <2>1 DEF AddLog, SealBatch, NewTask, EnvInv, EnvTypes
    <3> QED
      BY <2>1, <3>1, IdleStep DEF AddLog, SealBatch, NewTask
  <2> QED
    BY <1>2, <1>3, <2>1, ProducerPlain, InsertInv, RemoveInv DEF ProducerStep
<1>4. ASSUME NEW s \in Senders, EnvSender(s)
      PROVE  EnvInv(d)'
  <2>1. CASE SenderTick(s)
    BY <2>1, TickInv DEF SenderTick
  <2> QED
    BY <1>2, <1>4, <2>1, SenderPlain, PopInv, DoneInv DEF EnvSender
<1>5. CASE UNCHANGED envVars
  <2>1. tasks' \in [Producers -> Nat]
    BY <1>5 DEF envVars, EnvInv, EnvTypes
  <2> QED
    BY <1>5, <2>1, IdleStep DEF envVars
<1> QED
  BY <1>1, <1>3, <1>4, <1>5 DEF EnvNext

\* The numbers of batches of the producers are natural numbers.
BatchTypes == building \in [Producers -> Nat] /\ packing \in [Producers -> Nat]

\* Every step keeps them so.
LEMMA BatchStep ==
  ASSUME BatchTypes, [EnvNext]_envVars
  PROVE  BatchTypes'
<1> USE DEF taskVars, batchVars
<1>1. CASE UNCHANGED <<building, packing>>
  BY <1>1 DEF BatchTypes
<1>2. ASSUME NEW p \in Producers, AddLog(p) \/ SealBatch(p) \/ NewTask(p) \/ CloseCall(p) \/ Free(p)
      PROVE  BatchTypes'
  <2>1. building[p] \in Nat /\ packing[p] \in Nat
    BY DEF BatchTypes
  <2>2. CASE AddLog(p)
    BY <2>1, <2>2 DEF AddLog, BatchTypes
  <2>3. CASE SealBatch(p)
    BY <2>1, <2>3 DEF SealBatch, BatchTypes
  <2>4. CASE NewTask(p)
    BY <2>1, <2>4 DEF NewTask, BatchTypes
  <2>5. CASE CloseCall(p)
    BY <2>1, <2>5 DEF CloseCall, BatchTypes
  <2>6. CASE Free(p)
    BY <2>1, <2>6 DEF Free, BatchTypes
  <2> QED
    BY <1>2, <2>2, <2>3, <2>4, <2>5, <2>6
<1>3. ASSUME NEW th, Notify(th)
      PROVE  UNCHANGED <<building, packing>>
  BY <1>3 DEF Notify, NotifyBegin, NotifyMark, NotifyPush, NotifyEnd
<1>4. ASSUME NEW d \in Admins, InitEnv(d) \/ DestroyCall(d) \/ DestroyTimeout(d) \/ AdminStep(d)
      PROVE  UNCHANGED <<building, packing>>
  BY <1>4 DEF InitEnv, DestroyCall, DestroyTimeout, AdminStep, DestroyOpsEnded, DestroyDrained, DestroyTick,
     DestroyJoin, DestroyFree, DestroyFinish
<1>5. ASSUME NEW p \in Producers, RegisterBegin(p) \/ ProducerStep(p), ~Free(p)
      PROVE  UNCHANGED <<building, packing>>
  BY <1>3, <1>5 DEF RegisterBegin, ProducerStep, RegisterInsert, RegisterEnd, CloseEnd, UnregisterBegin,
     UnregisterRemove, UnregisterEnd
<1>6. ASSUME NEW s \in Senders, EnvSender(s)
      PROVE  UNCHANGED <<building, packing>>
  BY <1>3, <1>6 DEF EnvSender, SenderTick, SenderExit, SenderPop, SenderCleared, SenderStep, SenderSent,
     SenderPending, SenderDone
<1>7. CASE UNCHANGED envVars
  BY <1>1, <1>7 DEF envVars
<1> QED
  BY <1>1, <1>2, <1>4, <1>5, <1>6, <1>7 DEF EnvNext

\* With one thread that inits and destroys it, the environment keeps EnvInv: the
\* lifecycle's flags say where that thread is, active_ops counts the operations
\* under way, and env_inflight the senders that hold a producer.
THEOREM EnvInvariance ==
  ASSUME NEW d, Admins = {d}
  PROVE  EnvSpec => []EnvInv(d)
<1>1. EnvInit => EnvInv(d)
  BY EnvInitInv
<1>2. EnvInv(d) /\ [EnvNext]_envVars => EnvInv(d)'
  BY EnvStepInv
<1> QED
  BY <1>1, <1>2, PTL DEF EnvSpec

\* A producer that was freed is not in the list nor in the run queue, and no
\* sender holds it: unregister waits for the last one.
THEOREM NoFreedProducerHolds ==
  ASSUME NEW d, Admins = {d}
  PROVE  EnvSpec => []NoFreedProducer
<1>1. EnvInv(d) => NoFreedProducer
  <2>1. SUFFICES ASSUME EnvInv(d), NEW p \in Producers, pc[p] = "freed"
                 PROVE  /\ p \notin list /\ p \notin ToSet(queue)
                        /\ \A s \in Senders : held[s] # p
    BY DEF NoFreedProducer
  <2>2. p \notin list
    BY <2>1 DEF EnvInv, ListInv, ListPoints
  <2>3. p \notin ToSet(queue)
    BY <2>1, <2>2, ThreadKinds DEF EnvInv, ListInv, ToSet
  <2>4. IsFiniteSet(HoldersOf(p)) /\ Cardinality(HoldersOf(p)) = 0
    BY <2>1, EnvAssumption, FS_Subset DEF EnvInv, ListInv, HoldersOf
  <2>5. HoldersOf(p) = {}
    BY <2>4, FS_EmptySet
  <2> QED
    BY <2>2, <2>3, <2>5 DEF HoldersOf
<1> QED
  BY <1>1, EnvInvariance, PTL

\* The locks, the run queue and the senders are there as long as an operation, a
\* sender or the destroy itself uses them.
THEOREM ResourcesAliveHolds ==
  ASSUME NEW d, Admins = {d}
  PROVE  EnvSpec => []ResourcesAlive
<1>1. EnvInv(d) => ResourcesAlive
  <2>1. SUFFICES ASSUME EnvInv(d), NEW th \in Threads, UsesResources(th)
                 PROVE  resources
    BY DEF ResourcesAlive
  <2>2. CASE th = d
    BY <2>1, <2>2, ThreadKinds DEF UsesResources, EnvInv, LifeInv, EnvTypes, AdminPoints
  <2>3. CASE th \in Senders /\ pc[th] # "exited"
    BY <2>1, <2>3 DEF EnvInv, LifeInv
  <2>4. CASE th \in Producers \cup Senders /\ pc[th] \in OpPoints
    BY <2>1, <2>4, OpRuns
  <2>5. th \in Producers => pc[th] \notin {"drain", "join", "free"}
    BY <2>1 DEF EnvInv, EnvTypes, ProducerPoints, OpPoints
  <2>6. th = d \/ th \in Producers \/ th \in Senders
    BY ThreadKinds
  <2>7. th \in Senders => pc[th] \notin {"drain", "join", "free"}
    BY <2>1 DEF EnvInv, EnvTypes, WorkPoints
  <2> QED
    BY <2>1, <2>2, <2>3, <2>4, <2>5, <2>6, <2>7 DEF UsesResources, OpPoints
<1> QED
  BY <1>1, EnvInvariance, PTL

-----------------------------------------------------------------------------
(* The flag env_in_queue and the run queue.                                *)

\* A thread is a carrier by where it is and whom it works for.
LEMMA CarriersSame ==
  ASSUME NEW th,
         \A u \in (Producers \cup Senders) \ {th} : pc'[u] = pc[u] /\ (u \in Senders => held'[u] = held[u]),
         pc[th] \notin {"push", "popped"}, pc'[th] \notin {"push", "popped"}
  PROVE  \A p : Carriers(p)' = Carriers(p)
<1>1. ASSUME NEW p, NEW u \in Producers \cup Senders, u # th
      PROVE  /\ Target(u)' = Target(u)
             /\ (u \in Senders /\ held'[u] = p) <=> (u \in Senders /\ held[u] = p)
  BY <1>1 DEF Target
<1> QED
  BY <1>1 DEF Carriers

\* What keeps FlagInv when the list, the run queue and the flags are left alone.
LEMMA FlagKept ==
  ASSUME FlagInv, UNCHANGED <<list, queue, inQueue>>,
         \A p \in Producers : pc[p] \in GonePoints => pc'[p] \in GonePoints,
         \A p \in list : Carriers(p)' = Carriers(p)
  PROVE  FlagInv'
<1>1. PICK f \in [DOMAIN queue -> Producers] : Owns(f)
  BY DEF FlagInv
<1>2. f \in [DOMAIN queue' -> Producers] /\ Owns(f)'
  BY <1>1 DEF Owns
<1>3. ASSUME NEW p \in Producers
      PROVE  IF p \in list' THEN FlagOf(p)' ELSE ~inQueue'[p]
  BY DEF FlagInv, FlagOf
<1> QED
  BY <1>2, <1>3 DEF FlagInv

\* One thread moves, not to or from a place between a producer and the queue.
LEMMA FlagPlain ==
  ASSUME EnvTypes, FlagInv, UNCHANGED <<list, queue, inQueue>>,
         NEW th, NEW w, Goto(th, w), th \in Threads,
         \A s \in Senders \ {th} : held'[s] = held[s],
         pc[th] \notin {"push", "popped"}, w \notin {"push", "popped"},
         th \in Producers /\ pc[th] \in GonePoints => w \in GonePoints
  PROVE  FlagInv'
<1>1. pc'[th] = w /\ \A u \in (Producers \cup Senders) \ {th} : pc'[u] = pc[u]
  BY DEF Goto, EnvTypes, Threads
<1>2. \A p : Carriers(p)' = Carriers(p)
  BY <1>1, CarriersSame
<1> QED
  BY <1>1, <1>2, FlagKept

\* A producer in the run queue has its flag set, and is not on its way to it.
LEMMA QueuedFlag ==
  ASSUME NEW d, Admins = {d}, EnvInv(d), FlagInv, NEW i \in DOMAIN queue, queue[i] # None
  PROVE  /\ queue[i] \in list /\ inQueue[queue[i]] /\ Carriers(queue[i]) = {}
         /\ \A j \in DOMAIN queue : queue[j] = queue[i] => j = i
<1>1. PICK f \in [DOMAIN queue -> Producers] : Owns(f)
  BY DEF FlagInv
<1>2. queue[i] \in list /\ list \subseteq Producers
  BY DEF EnvInv, ListInv, EnvTypes
<1>3. queue[i] \in ToSet(queue)
  BY DEF ToSet
<1>4. FlagOf(queue[i])
  BY <1>2 DEF FlagInv
<1>5. \A j \in DOMAIN queue : queue[j] = queue[i] => j = i
  BY <1>1 DEF Owns
<1> QED
  BY <1>2, <1>3, <1>4, <1>5 DEF FlagOf

\* The owner of a place that is not in it has left the list.
LEMMA OwnerListed ==
  ASSUME EnvTypes, ListInv, NEW f \in [DOMAIN queue -> Producers], Owns(f), NEW i \in DOMAIN queue,
         f[i] \in list
  PROVE  queue[i] = f[i]
<1>1. pc[f[i]] \notin GonePoints
  BY DEF ListInv, GonePoints, ListPoints
<1> QED
  BY <1>1 DEF Owns

\* The run queue has room for all who have no place in it.
LEMMA RoomFor ==
  ASSUME EnvTypes, NEW f \in [DOMAIN queue -> Producers], Owns(f), NEW T \in SUBSET Producers,
         \A i \in DOMAIN queue : f[i] \notin T,
         Cardinality(Producers) <= QueueCap
  PROVE  Len(queue) + Cardinality(T) <= QueueCap
<1>1. /\ IsFiniteSet(Producers) /\ IsFiniteSet(T) /\ IsFiniteSet(Producers \ T)
      /\ Cardinality(Producers) \in Nat /\ Cardinality(T) \in Nat /\ Cardinality(Producers \ T) \in Nat
  <2>1. IsFiniteSet(Producers) /\ IsFiniteSet(T) /\ IsFiniteSet(Producers \ T)
    BY EnvAssumption, FS_Subset
  <2> QED
    BY <2>1, FS_CardinalityType
<1>2. Cardinality(Producers \ T) = Cardinality(Producers) - Cardinality(T)
  <2>1. Producers \cap T = T
    OBVIOUS
  <2> QED
    BY <1>1, <2>1, FS_Difference
<1>3. DOMAIN queue = 1..Len(queue) /\ Len(queue) \in Nat
  BY DEF EnvTypes
<1>4. IsFiniteSet(DOMAIN queue) /\ Cardinality(DOMAIN queue) = Len(queue)
  <2>1. PICK n \in Nat : n = Len(queue)
    BY <1>3
  <2>2. IsFiniteSet(1..n) /\ Cardinality(1..n) = n
    BY FS_Interval
  <2> QED
    BY <1>3, <2>1, <2>2
<1>5. f \in Injection(DOMAIN queue, Producers \ T)
  <2>1. f \in [DOMAIN queue -> Producers \ T]
    OBVIOUS
  <2>2. IsInjective(f)
    BY DEF IsInjective, Owns
  <2> QED
    BY <2>1, <2>2 DEF Injection
<1>6. Cardinality(DOMAIN queue) <= Cardinality(Producers \ T)
  BY <1>1, <1>5, FS_Injection
<1> QED
  BY <1>1, <1>2, <1>3, <1>4, <1>6, EnvAssumption

\* A producer registers: it is nowhere in the queue yet, and nobody holds it.
LEMMA FlagInsert ==
  ASSUME NEW d, Admins = {d}, EnvInv(d), FlagInv, NEW p \in Producers, RegisterInsert(p)
  PROVE  FlagInv'
<1>1. /\ EnvTypes /\ ListInv /\ pc[p] = "register" /\ p \in Threads /\ Goto(p, "registered")
      /\ ~stop /\ list' = list \cup {p} /\ UNCHANGED <<queue, inQueue, held>>
  BY OpRuns, ThreadKinds DEF RegisterInsert, OpPoints, EnvInv, senderVars
<1>2. pc'[p] = "registered" /\ \A u \in (Producers \cup Senders) \ {p} : pc'[u] = pc[u]
  BY <1>1 DEF Goto, EnvTypes, Threads
<1>3. \A q : Carriers(q)' = Carriers(q)
  BY <1>1, <1>2, CarriersSame
<1>4. p \notin list
  BY <1>1 DEF ListInv, ListPoints
<1>5. ~inQueue[p] /\ p \notin ToSet(queue)
  BY <1>1, <1>4, ThreadKinds DEF FlagInv, ListInv, ToSet
<1>6. Carriers(p) = {}
  <2>1. \A s \in Senders : held[s] # p
    BY <1>1, ThreadKinds DEF ListInv
  <2> QED
    BY <1>1, <2>1 DEF Carriers, Target
<1>7. PICK f \in [DOMAIN queue -> Producers] : Owns(f)
  BY DEF FlagInv
<1>8. f \in [DOMAIN queue' -> Producers] /\ Owns(f)'
  <2>1. \A q \in Producers : pc[q] \in GonePoints => pc'[q] \in GonePoints
    BY <1>1, <1>2 DEF GonePoints
  <2> QED
    BY <1>1, <1>7, <2>1 DEF Owns
<1>9. ASSUME NEW q \in Producers
      PROVE  IF q \in list' THEN FlagOf(q)' ELSE ~inQueue'[q]
  <2>1. CASE q = p
    BY <1>1, <1>3, <1>5, <1>6, <2>1 DEF FlagOf
  <2>2. CASE q # p
    BY <1>1, <1>3, <2>2 DEF FlagInv, FlagOf
  <2> QED
    BY <2>1, <2>2
<1> QED
  BY <1>8, <1>9 DEF FlagInv

\* A producer unregisters: its place becomes a hole, and stays its own.
LEMMA FlagRemove ==
  ASSUME NEW d, Admins = {d}, EnvInv(d), FlagInv, NEW p \in Producers, UnregisterRemove(p)
  PROVE  FlagInv'
<1>1. /\ EnvTypes /\ ListInv /\ pc[p] = "remove" /\ p \in Threads /\ Goto(p, "removed")
      /\ list' = list \ {p} /\ inQueue' = [inQueue EXCEPT ![p] = FALSE] /\ UNCHANGED held
      /\ queue' = [i \in DOMAIN queue |-> IF queue[i] = p THEN None ELSE queue[i]]
      /\ inQueue \in [Producers -> BOOLEAN] /\ p # None
  BY ThreadKinds DEF UnregisterRemove, TakeOut, EnvInv, EnvTypes, senderVars
<1>2. pc'[p] = "removed" /\ \A u \in (Producers \cup Senders) \ {p} : pc'[u] = pc[u]
  BY <1>1 DEF Goto, EnvTypes, Threads
<1>3. \A q : Carriers(q)' = Carriers(q)
  BY <1>1, <1>2, CarriersSame
<1>4. DOMAIN queue' = DOMAIN queue /\ \A i \in DOMAIN queue : queue'[i] = IF queue[i] = p THEN None ELSE queue[i]
  BY <1>1
<1>5. PICK f \in [DOMAIN queue -> Producers] : Owns(f)
  BY DEF FlagInv
<1>6. f \in [DOMAIN queue' -> Producers] /\ Owns(f)'
  <2>1. f \in [DOMAIN queue' -> Producers] /\ \A i, j \in DOMAIN queue' : f[i] = f[j] => i = j
    BY <1>4, <1>5 DEF Owns
  <2>2. ASSUME NEW i \in DOMAIN queue'
        PROVE  queue'[i] = f[i] \/ (queue'[i] = None /\ pc'[f[i]] \in GonePoints)
    <3>1. i \in DOMAIN queue /\ f[i] \in Producers
      BY <1>4
    <3>2. queue[i] = f[i] \/ (queue[i] = None /\ pc[f[i]] \in GonePoints)
      BY <1>5, <3>1 DEF Owns
    <3>3. CASE queue[i] = p
      BY <1>1, <1>2, <1>4, <3>1, <3>2, <3>3 DEF GonePoints
    <3>4. CASE queue[i] # p
      BY <1>1, <1>2, <1>4, <3>1, <3>2, <3>4 DEF GonePoints
    <3> QED
      BY <3>3, <3>4
  <2> QED
    BY <2>1, <2>2 DEF Owns
<1>7. ASSUME NEW q \in Producers
      PROVE  IF q \in list' THEN FlagOf(q)' ELSE ~inQueue'[q]
  <2>1. CASE q = p
    BY <1>1, <2>1
  <2>2. CASE q # p
    <3>1. q \in ToSet(queue') <=> q \in ToSet(queue)
      BY <1>4, <2>2, ThreadKinds DEF ToSet
    <3>2. inQueue'[q] = inQueue[q] /\ (q \in list' <=> q \in list)
      BY <1>1, <2>2
    <3> QED
      BY <1>3, <3>1, <3>2 DEF FlagInv, FlagOf
  <2> QED
    BY <2>1, <2>2
<1> QED
  BY <1>6, <1>7 DEF FlagInv

\* The flag is exchanged: the thread is on its way with the producer.
LEMMA FlagMark ==
  ASSUME NEW d, Admins = {d}, EnvInv(d), FlagInv, NEW th \in Producers \cup Senders, NotifyMark(th)
  PROVE  FlagInv'
<1>1. /\ EnvTypes /\ ListInv /\ pc[th] = "mark" /\ th \in Threads /\ UNCHANGED <<list, queue, held>>
      /\ inQueue \in [Producers -> BOOLEAN]
  BY ThreadKinds DEF NotifyMark, EnvInv, EnvTypes, senderVars
<1>2. PICK p \in Producers : p = Target(th)
  BY <1>1, TargetIsProducer DEF WorkPoints
<1>3. CASE ~(registered[p] /\ ~inQueue[p])
  <2>1. Goto(th, "notified") /\ inQueue' = inQueue
    BY <1>2, <1>3 DEF NotifyMark
  <2> QED
    BY <1>1, <2>1, FlagPlain DEF GonePoints
<1>4. CASE registered[p] /\ ~inQueue[p]
  <2>1. Goto(th, "push") /\ inQueue' = [inQueue EXCEPT ![p] = TRUE]
    BY <1>2, <1>4 DEF NotifyMark
  <2>2. pc'[th] = "push" /\ \A u \in (Producers \cup Senders) \ {th} : pc'[u] = pc[u]
    BY <1>1, <2>1 DEF Goto, EnvTypes, Threads
  <2>3. \A u : Target(u)' = Target(u)
    BY <1>1 DEF Target
  <2>4. p \in list /\ p \notin ToSet(queue) /\ Carriers(p) = {}
    BY <1>1, <1>4 DEF ListInv, FlagInv, FlagOf
  <2>5. Carriers(p)' = Carriers(p) \cup {th}
    BY <1>1, <1>2, <2>2, <2>3 DEF Carriers
  <2>6. \A q \in Producers \ {p} : Carriers(q)' = Carriers(q)
    BY <1>1, <1>2, <2>2, <2>3 DEF Carriers
  <2>7. PICK f \in [DOMAIN queue -> Producers] : Owns(f)
    BY DEF FlagInv
  <2>8. f \in [DOMAIN queue' -> Producers] /\ Owns(f)'
    <3>1. \A q \in Producers : pc[q] \in GonePoints => pc'[q] \in GonePoints
      BY <1>1, <2>2 DEF GonePoints
    <3> QED
      BY <1>1, <2>7, <3>1 DEF Owns
  <2>9. ASSUME NEW q \in Producers
        PROVE  IF q \in list' THEN FlagOf(q)' ELSE ~inQueue'[q]
    <3>1. CASE q = p
      <4>1. inQueue'[p] = TRUE /\ Carriers(p)' = {th} /\ p \notin ToSet(queue')
        BY <1>1, <2>1, <2>4, <2>5
      <4> QED
        BY <1>1, <2>4, <3>1, <4>1 DEF FlagOf
    <3>2. CASE q # p
      <4>1. inQueue'[q] = inQueue[q] /\ Carriers(q)' = Carriers(q)
        BY <1>1, <2>1, <2>6, <3>2
      <4> QED
        BY <1>1, <4>1 DEF FlagInv, FlagOf
    <3> QED
      BY <3>1, <3>2
  <2> QED
    BY <2>8, <2>9 DEF FlagInv
<1> QED
  BY <1>3, <1>4

\* The producer gets its place: the run queue cannot be full.
LEMMA FlagPush ==
  ASSUME NEW d, Admins = {d}, EnvInv(d), FlagInv, Cardinality(Producers) <= QueueCap,
         NEW th \in Producers \cup Senders, NotifyPush(th)
  PROVE  FlagInv'
<1>1. /\ EnvTypes /\ ListInv /\ pc[th] = "push" /\ th \in Threads /\ Goto(th, "notified")
      /\ UNCHANGED <<list, held>> /\ inQueue \in [Producers -> BOOLEAN]
      /\ queue \in Seq(Producers \cup {None}) /\ ~stop
  BY ThreadKinds, OpRuns DEF NotifyPush, EnvInv, EnvTypes, senderVars, OpPoints
<1>2. PICK p \in Producers : p = Target(th)
  BY <1>1, TargetIsProducer DEF WorkPoints
<1>3. pc'[th] = "notified" /\ \A u \in (Producers \cup Senders) \ {th} : pc'[u] = pc[u]
  BY <1>1 DEF Goto, EnvTypes, Threads
<1>4. \A u : Target(u)' = Target(u)
  BY <1>1 DEF Target
<1>5. th \in Carriers(p) /\ Carriers(p)' = Carriers(p) \ {th}
  BY <1>1, <1>2, <1>3, <1>4 DEF Carriers
<1>6. \A q \in Producers \ {p} : Carriers(q)' = Carriers(q)
  BY <1>1, <1>2, <1>3, <1>4 DEF Carriers
<1>7. PICK f \in [DOMAIN queue -> Producers] : Owns(f)
  BY DEF FlagInv
<1>8. \A q \in Producers : pc[q] \in GonePoints => pc'[q] \in GonePoints
  BY <1>1, <1>3 DEF GonePoints
<1>9. CASE ~registered[p]
  <2>1. p \notin list /\ ~inQueue[p]
    BY <1>1, <1>9 DEF ListInv, FlagInv
  <2>2. queue' = queue /\ inQueue' = [inQueue EXCEPT ![p] = FALSE]
    BY <1>2, <1>9 DEF NotifyPush
  <2>3. inQueue' = inQueue
    BY <1>1, <2>1, <2>2
  <2>4. list \subseteq Producers
    BY <1>1 DEF EnvTypes
  <2> QED
    BY <1>1, <1>6, <1>8, <2>1, <2>2, <2>3, <2>4, FlagKept
<1>10. CASE registered[p]
  <2>1. p \in list
    BY <1>1, <1>10 DEF ListInv
  <2>2. inQueue[p] /\ p \notin ToSet(queue) /\ Carriers(p) = {th}
    BY <1>5, <2>1 DEF FlagInv, FlagOf
  <2>3. \A i \in DOMAIN queue : f[i] # p
    <3>1. ASSUME NEW i \in DOMAIN queue, f[i] = p
          PROVE  FALSE
      <4>1. queue[i] = p
        BY <1>1, <1>7, <2>1, <3>1, OwnerListed
      <4> QED
        BY <2>2, <4>1 DEF ToSet
    <3> QED
      BY <3>1
  <2>4. Len(queue) + Cardinality({p}) <= QueueCap
    BY <1>1, <1>7, <2>3, RoomFor
  <2>5. Len(queue) < QueueCap /\ Len(queue) \in Nat
    <3>1. Cardinality({p}) = 1
      BY FS_Singleton
    <3> QED
      BY <1>1, <2>4, <3>1, EnvAssumption
  <2>6. queue' = Append(queue, p) /\ inQueue' = inQueue
    BY <1>1, <1>2, <1>10, <2>5 DEF NotifyPush
  <2>7. /\ DOMAIN queue = 1..Len(queue) /\ DOMAIN queue' = 1..(Len(queue) + 1)
        /\ \A i \in 1..Len(queue) : queue'[i] = queue[i]
        /\ queue'[Len(queue) + 1] = p
    BY <1>1, <2>6
  <2>8. PICK n \in Nat : n = Len(queue)
    BY <2>5
  <2>9. PICK g : g = [i \in 1..(n + 1) |-> IF i = n + 1 THEN p ELSE f[i]]
    OBVIOUS
  <2>10. /\ g \in [1..(n + 1) -> Producers] /\ g[n + 1] = p
         /\ \A i \in 1..n : g[i] = f[i] /\ f[i] # p
    BY <2>3, <2>7, <2>8, <2>9
  <2>11. g \in [DOMAIN queue' -> Producers] /\ Owns(g)'
    <3>1. \A i \in DOMAIN queue' : i \in 1..n \/ i = n + 1
      BY <2>7, <2>8
    <3>2. \A i, j \in DOMAIN queue' : g[i] = g[j] => i = j
      BY <1>7, <2>7, <2>8, <2>10, <3>1 DEF Owns
    <3>3. ASSUME NEW i \in DOMAIN queue'
          PROVE  queue'[i] = g[i] \/ (queue'[i] = None /\ pc'[g[i]] \in GonePoints)
      <4>1. CASE i = n + 1
        BY <2>7, <2>8, <2>10, <4>1
      <4>2. CASE i \in 1..n
        BY <1>7, <1>8, <2>7, <2>8, <2>10, <4>2 DEF Owns
      <4> QED
        BY <3>1, <4>1, <4>2
    <3> QED
      BY <2>7, <2>8, <2>10, <3>2, <3>3 DEF Owns
  <2>12. ToSet(queue') = ToSet(queue) \cup {p}
    <3>1. \A i \in DOMAIN queue' : i \in DOMAIN queue \/ i = Len(queue) + 1
      BY <2>5, <2>7
    <3>2. DOMAIN queue \subseteq DOMAIN queue' /\ Len(queue) + 1 \in DOMAIN queue'
      BY <2>5, <2>7
    <3> QED
      BY <2>7, <3>1, <3>2 DEF ToSet
  <2>13. ASSUME NEW q \in Producers
         PROVE  IF q \in list' THEN FlagOf(q)' ELSE ~inQueue'[q]
    <3>1. CASE q = p
      <4>1. Carriers(p)' = {} /\ p \in ToSet(queue') /\ inQueue'[p]
        BY <1>5, <2>2, <2>6, <2>12
      <4> QED
        BY <1>1, <2>1, <3>1, <4>1 DEF FlagOf
    <3>2. CASE q # p
      <4>1. Carriers(q)' = Carriers(q) /\ (q \in ToSet(queue') <=> q \in ToSet(queue))
        BY <1>6, <2>12, <3>2
      <4> QED
        BY <1>1, <2>6, <4>1 DEF FlagInv, FlagOf
    <3> QED
      BY <3>1, <3>2
  <2> QED
    BY <2>11, <2>13 DEF FlagInv
<1> QED
  BY <1>9, <1>10

\* A sender takes the first place: the queue has the producer no more, the sender
\* has it; a hole is dropped.
LEMMA FlagPop ==
  ASSUME NEW d, Admins = {d}, EnvInv(d), FlagInv, NEW s \in Senders, SenderPop(s)
  PROVE  FlagInv'
<1>1. /\ EnvTypes /\ ListInv /\ pc[s] = "idle" /\ s \in Threads /\ UNCHANGED <<list, inQueue>>
      /\ queue \in Seq(Producers \cup {None}) /\ queue # <<>> /\ queue' = Tail(queue)
      /\ held \in [Senders -> Producers \cup {None}]
  BY ThreadKinds DEF SenderPop, EnvInv, EnvTypes, flagVars
<1>2. /\ \A i \in DOMAIN queue' : i \in Nat /\ i + 1 \in DOMAIN queue /\ i + 1 # 1 /\ queue'[i] = queue[i + 1]
      /\ \A i \in DOMAIN queue : i = 1 \/ (i - 1 \in DOMAIN queue' /\ queue'[i - 1] = queue[i])
      /\ 1 \in DOMAIN queue /\ Head(queue) = queue[1]
  BY <1>1
<1>3. PICK f \in [DOMAIN queue -> Producers] : Owns(f)
  BY DEF FlagInv
<1>4. PICK g : g = [i \in DOMAIN queue' |-> f[i + 1]]
  OBVIOUS
<1>5. g \in [DOMAIN queue' -> Producers]
  BY <1>2, <1>4
<1>6. ToSet(queue) = ToSet(queue') \cup {queue[1]}
  <2>1. \A x \in ToSet(queue') : x \in ToSet(queue)
    BY <1>2 DEF ToSet
  <2>2. \A i \in DOMAIN queue : queue[i] \in ToSet(queue') \/ i = 1
    BY <1>2 DEF ToSet
  <2> QED
    BY <1>2, <2>1, <2>2 DEF ToSet
<1>7. ASSUME \A q \in Producers : pc[q] \in GonePoints => pc'[q] \in GonePoints
      PROVE  Owns(g)'
  <2>1. \A i, j \in DOMAIN queue' : g[i] = g[j] => i = j
    <3>1. SUFFICES ASSUME NEW i \in DOMAIN queue', NEW j \in DOMAIN queue', g[i] = g[j]
                   PROVE  i = j
      OBVIOUS
    <3>2. i + 1 = j + 1
      BY <1>2, <1>3, <1>4, <3>1 DEF Owns
    <3> QED
      BY <1>2, <3>2
  <2>2. ASSUME NEW i \in DOMAIN queue'
        PROVE  queue'[i] = g[i] \/ (queue'[i] = None /\ pc'[g[i]] \in GonePoints)
    <3>1. i + 1 \in DOMAIN queue /\ queue'[i] = queue[i + 1] /\ g[i] = f[i + 1] /\ f[i + 1] \in Producers
      BY <1>2, <1>4
    <3> QED
      BY <1>3, <1>7, <3>1 DEF Owns
  <2> QED
    BY <2>1, <2>2 DEF Owns
<1>8. CASE Head(queue) = None
  <2>1. UNCHANGED <<held, pc>>
    BY <1>8 DEF SenderPop
  <2>2. \A q : Carriers(q)' = Carriers(q)
    BY <2>1 DEF Carriers, Target
  <2>3. \A q \in Producers : q \in ToSet(queue') <=> q \in ToSet(queue)
    BY <1>2, <1>6, <1>8, ThreadKinds
  <2>4. \A q \in Producers : IF q \in list' THEN FlagOf(q)' ELSE ~inQueue'[q]
    BY <1>1, <2>2, <2>3 DEF FlagInv, FlagOf
  <2> QED
    BY <1>5, <1>7, <2>1, <2>4 DEF FlagInv
<1>9. CASE Head(queue) # None
  <2>1. PICK p : p = queue[1]
    OBVIOUS
  <2>2. /\ p \in list /\ inQueue[p] /\ Carriers(p) = {}
        /\ \A j \in DOMAIN queue : queue[j] = p => j = 1
    BY <1>2, <1>9, <2>1, QueuedFlag
  <2>3. held' = [held EXCEPT ![s] = p] /\ Goto(s, "popped") /\ held'[s] = p
    BY <1>1, <1>2, <1>9, <2>1 DEF SenderPop
  <2>4. pc'[s] = "popped" /\ \A u \in (Producers \cup Senders) \ {s} : pc'[u] = pc[u]
    BY <1>1, <2>3 DEF Goto, EnvTypes, Threads
  <2>5. \A u \in Senders \ {s} : held'[u] = held[u]
    BY <1>1, <2>3
  <2>6. \A u \in (Producers \cup Senders) \ {s} : Target(u)' = Target(u)
    BY <2>5 DEF Target
  <2>7. Carriers(p)' = {s}
    <3>1. Carriers(p)' = Carriers(p) \cup {s}
      BY <1>1, <2>3, <2>4, <2>5, <2>6 DEF Carriers
    <3> QED
      BY <2>2, <3>1
  <2>8. \A q \in Producers \ {p} : Carriers(q)' = Carriers(q)
    BY <1>1, <2>3, <2>4, <2>5, <2>6 DEF Carriers
  <2>9. p \notin ToSet(queue')
    BY <1>2, <2>2 DEF ToSet
  <2>10. \A q \in Producers : pc'[q] = pc[q]
    BY <2>4, ThreadKinds
  <2>11. ASSUME NEW q \in Producers
         PROVE  IF q \in list' THEN FlagOf(q)' ELSE ~inQueue'[q]
    <3>1. CASE q = p
      BY <1>1, <2>2, <2>7, <2>9, <3>1 DEF FlagOf
    <3>2. CASE q # p
      <4>1. Carriers(q)' = Carriers(q) /\ (q \in ToSet(queue') <=> q \in ToSet(queue))
        BY <1>6, <2>1, <2>8, <3>2
      <4> QED
        BY <1>1, <4>1 DEF FlagInv, FlagOf
    <3> QED
      BY <3>1, <3>2
  <2> QED
    BY <1>5, <1>7, <2>10, <2>11 DEF FlagInv
<1> QED
  BY <1>8, <1>9

\* The sender clears the flag of the producer it took.
LEMMA FlagCleared ==
  ASSUME NEW d, Admins = {d}, EnvInv(d), FlagInv, NEW s \in Senders, SenderCleared(s)
  PROVE  FlagInv'
<1>1. /\ EnvTypes /\ ListInv /\ pc[s] = "popped" /\ s \in Threads /\ UNCHANGED <<list, queue, held>>
      /\ inQueue \in [Producers -> BOOLEAN] /\ inQueue' = [inQueue EXCEPT ![held[s]] = FALSE]
  BY ThreadKinds DEF SenderCleared, ClearFlag, EnvInv, EnvTypes
<1>2. PICK p \in Producers : p = held[s]
  BY <1>1 DEF EnvTypes
<1>3. PICK w \in {"done", "step"} : Goto(s, w)
  BY DEF SenderCleared
<1>4. pc'[s] = w /\ \A u \in (Producers \cup Senders) \ {s} : pc'[u] = pc[u]
  BY <1>1, <1>3 DEF Goto, EnvTypes, Threads
<1>5. \A u : Target(u)' = Target(u)
  BY <1>1 DEF Target
<1>6. s \in Carriers(p) /\ Carriers(p)' = Carriers(p) \ {s}
  BY <1>1, <1>2, <1>4, <1>5 DEF Carriers
<1>7. \A q \in Producers \ {p} : Carriers(q)' = Carriers(q)
  BY <1>1, <1>2, <1>4, <1>5 DEF Carriers, Target
<1>8. PICK f \in [DOMAIN queue -> Producers] : Owns(f)
  BY DEF FlagInv
<1>9. f \in [DOMAIN queue' -> Producers] /\ Owns(f)'
  <2>1. \A q \in Producers : pc'[q] = pc[q]
    BY <1>4, ThreadKinds
  <2> QED
    BY <1>1, <1>8, <2>1 DEF Owns
<1>10. ASSUME NEW q \in Producers
       PROVE  IF q \in list' THEN FlagOf(q)' ELSE ~inQueue'[q]
  <2>1. CASE q = p
    <3>1. ~inQueue'[p]
      BY <1>1, <1>2
    <3>2. p \in list => Carriers(p)' = {} /\ p \notin ToSet(queue)
      BY <1>6 DEF FlagInv, FlagOf
    <3> QED
      BY <1>1, <2>1, <3>1, <3>2 DEF FlagOf
  <2>2. CASE q # p
    <3>1. inQueue'[q] = inQueue[q] /\ Carriers(q)' = Carriers(q)
      BY <1>1, <1>2, <1>7, <2>2
    <3> QED
      BY <1>1, <3>1 DEF FlagInv, FlagOf
  <2> QED
    BY <2>1, <2>2
<1> QED
  BY <1>9, <1>10 DEF FlagInv

\* A tick puts every producer it marks into the run queue: there is room for all.
LEMMA FlagTick ==
  ASSUME NEW d, Admins = {d}, EnvInv(d), FlagInv, Cardinality(Producers) <= QueueCap, Tick,
         UNCHANGED <<list, held, pc>>
  PROVE  FlagInv'
<1>1. /\ EnvTypes /\ ListInv /\ queue \in Seq(Producers \cup {None}) /\ inQueue \in [Producers -> BOOLEAN]
      /\ list \subseteq Producers
  BY DEF EnvInv, EnvTypes
<1>2. PICK f \in [DOMAIN queue -> Producers] : Owns(f)
  BY DEF FlagInv
<1>3. \A p \in Ticked : p \in list /\ p \in Producers /\ ~inQueue[p] /\ p \notin ToSet(queue) /\ Carriers(p) = {}
  BY <1>1 DEF Ticked, FlagInv, FlagOf
<1>4. \A i \in DOMAIN queue : f[i] \notin Ticked
  <2>1. ASSUME NEW i \in DOMAIN queue, f[i] \in Ticked
        PROVE  FALSE
    <3>1. f[i] \in list /\ f[i] \notin ToSet(queue)
      BY <1>3, <2>1
    <3>2. queue[i] = f[i]
      BY <1>1, <1>2, <3>1, OwnerListed
    <3> QED
      BY <3>1, <3>2 DEF ToSet
  <2> QED
    BY <2>1
<1>5. PICK T \in SUBSET Producers : T = Ticked
  BY <1>3
<1>6. Len(queue) + Cardinality(T) <= QueueCap
  BY <1>1, <1>2, <1>4, <1>5, RoomFor
<1>7. PICK new \in Seq(T) :
        /\ queue' = queue \o new
        /\ \A i, j \in DOMAIN new : new[i] = new[j] => i = j
        /\ \A p \in T : \E i \in DOMAIN new : new[i] = p
  <2>1. IsFiniteSet(T) /\ Cardinality(T) \in Nat /\ Len(queue) \in Nat /\ QueueCap \in Nat
    BY <1>1, EnvAssumption, FS_Subset, FS_CardinalityType
  <2>2. ~(Len(queue) + Cardinality(T) > QueueCap)
    BY <1>6, <2>1
  <2> QED
    BY <1>1, <1>5, <2>2, TickSeq
<1>8. PICK n \in Nat, m \in Nat : n = Len(queue) /\ m = Len(new)
  BY <1>1
<1>9. /\ DOMAIN queue = 1..n /\ DOMAIN new = 1..m /\ DOMAIN queue' = 1..(n + m)
      /\ \A i \in 1..n : queue'[i] = queue[i]
      /\ \A i \in 1..m : queue'[n + i] = new[i] /\ new[i] \in T
  <2>1. new \in Seq(Producers \cup {None})
    BY <1>5
  <2>2. /\ Len(queue') = n + m /\ queue' \in Seq(Producers \cup {None})
        /\ \A i \in 1..(n + m) : queue'[i] = IF i <= n THEN queue[i] ELSE new[i - n]
    BY <1>1, <1>7, <1>8, <2>1, ConcatProperties
  <2>3. DOMAIN queue = 1..n /\ DOMAIN new = 1..m /\ DOMAIN queue' = 1..(n + m)
    BY <1>1, <1>8, <2>1, <2>2
  <2>4. \A i \in 1..n : queue'[i] = queue[i]
    BY <2>2
  <2>5. ASSUME NEW i \in 1..m
        PROVE  queue'[n + i] = new[i] /\ new[i] \in T
    <3>1. n + i \in 1..(n + m) /\ ~(n + i <= n) /\ n + i - n = i
      OBVIOUS
    <3>2. new[i] \in T
      BY <1>7, <1>8, ElementOfSeq
    <3> QED
      BY <2>2, <3>1, <3>2
  <2> QED
    BY <2>3, <2>4, <2>5
<1>10. PICK g : g = [i \in 1..(n + m) |-> IF i <= n THEN f[i] ELSE queue'[i]]
  OBVIOUS
<1>11. \A i \in 1..(n + m) : i \in 1..n \/ (i > n /\ i - n \in 1..m /\ i = n + (i - n))
  OBVIOUS
<1>12. /\ \A i \in 1..n : g[i] = f[i] /\ f[i] \in Producers /\ f[i] \notin T
       /\ \A i \in 1..(n + m) : i > n => g[i] = queue'[i] /\ g[i] = new[i - n] /\ g[i] \in T
  <2>1. \A i \in 1..n : g[i] = f[i] /\ f[i] \in Producers /\ f[i] \notin T
    <3>1. \A i \in 1..n : i \in 1..(n + m) /\ i <= n
      OBVIOUS
    <3>2. \A i \in 1..n : f[i] \in Producers /\ f[i] \notin T
      BY <1>2, <1>4, <1>5, <1>9
    <3> QED
      BY <1>10, <3>1, <3>2
  <2>2. ASSUME NEW i \in 1..(n + m), i > n
        PROVE  g[i] = queue'[i] /\ g[i] = new[i - n] /\ g[i] \in T
    <3>1. i - n \in 1..m /\ i = n + (i - n) /\ ~(i <= n)
      BY <2>2
    <3>2. queue'[i] = new[i - n] /\ new[i - n] \in T
      BY <1>9, <3>1
    <3> QED
      BY <1>10, <3>1, <3>2
  <2> QED
    BY <2>1, <2>2
<1>13. g \in [DOMAIN queue' -> Producers]
  <2>1. \A i \in 1..(n + m) : g[i] \in Producers
    BY <1>11, <1>12
  <2> QED
    BY <1>9, <1>10, <2>1
<1>14. Owns(g)'
  <2>1. ASSUME NEW i \in 1..(n + m), NEW j \in 1..(n + m), g[i] = g[j]
        PROVE  i = j
    <3>1. CASE i \in 1..n /\ j \in 1..n
      BY <1>2, <1>9, <1>12, <2>1, <3>1 DEF Owns
    <3>2. CASE i > n /\ j > n
      <4>1. i - n \in DOMAIN new /\ j - n \in DOMAIN new /\ new[i - n] = new[j - n]
        BY <1>9, <1>12, <2>1, <3>2
      <4>2. i - n = j - n
        BY <1>7, <4>1
      <4> QED
        BY <4>2
    <3>3. CASE (i \in 1..n /\ j > n) \/ (i > n /\ j \in 1..n)
      BY <1>12, <2>1, <3>3
    <3> QED
      BY <1>11, <3>1, <3>2, <3>3
  <2>2. ASSUME NEW i \in 1..(n + m)
        PROVE  queue'[i] = g[i] \/ (queue'[i] = None /\ pc'[g[i]] \in GonePoints)
    <3>1. CASE i \in 1..n
      BY <1>2, <1>9, <1>12, <3>1 DEF Owns
    <3>2. CASE i > n
      BY <1>12, <3>2
    <3> QED
      BY <1>11, <3>1, <3>2
  <2> QED
    BY <1>9, <2>1, <2>2 DEF Owns
<1>15. ToSet(queue') = ToSet(queue) \cup T
  <2>1. \A x \in ToSet(queue) : x \in ToSet(queue')
    <3>1. \A i \in 1..n : i \in 1..(n + m)
      OBVIOUS
    <3> QED
      BY <1>9, <3>1 DEF ToSet
  <2>2. ASSUME NEW x \in T
        PROVE  x \in ToSet(queue')
    <3>1. PICK i \in 1..m : new[i] = x
      BY <1>7, <1>9
    <3>2. n + i \in 1..(n + m)
      OBVIOUS
    <3>3. n + i \in DOMAIN queue' /\ queue'[n + i] = x
      BY <1>9, <3>1, <3>2
    <3> QED
      BY <3>3 DEF ToSet
  <2>3. ASSUME NEW i \in 1..(n + m)
        PROVE  queue'[i] \in ToSet(queue) \cup T
    <3>1. CASE i \in 1..n
      BY <1>9, <3>1 DEF ToSet
    <3>2. CASE i > n
      BY <1>12, <3>2
    <3> QED
      BY <1>11, <3>1, <3>2
  <2> QED
    BY <1>9, <2>1, <2>2, <2>3 DEF ToSet
<1>16. \A q : Carriers(q)' = Carriers(q)
  BY DEF Carriers, Target
<1>17. ASSUME NEW q \in Producers
       PROVE  IF q \in list' THEN FlagOf(q)' ELSE ~inQueue'[q]
  <2>1. inQueue'[q] = (inQueue[q] \/ q \in Ticked)
    BY DEF Tick
  <2>2. CASE q \in T
    <3>1. q \in list /\ inQueue'[q] /\ q \in ToSet(queue') /\ Carriers(q)' = {}
      BY <1>3, <1>5, <1>15, <1>16, <2>1, <2>2
    <3> QED
      BY <3>1 DEF FlagOf
  <2>3. CASE q \notin T
    <3>1. (inQueue'[q] <=> inQueue[q]) /\ (q \in ToSet(queue') <=> q \in ToSet(queue))
      BY <1>5, <1>15, <2>1, <2>3
    <3> QED
      BY <1>16, <3>1 DEF FlagInv, FlagOf
  <2> QED
    BY <2>2, <2>3
<1> QED
  BY <1>13, <1>14, <1>17 DEF FlagInv

\* The memory of the environment is freed: no flag is left set.
LEMMA FlagFree ==
  ASSUME NEW d, Admins = {d}, FlagInv, DestroyFree(d)
  PROVE  FlagInv'
<1>1. /\ queue' = <<>> /\ list' = {} /\ inQueue' = [p \in Producers |-> inQueue[p] /\ p \notin list]
  BY DEF DestroyFree
<1>2. DOMAIN queue' = {}
  BY <1>1
<1>3. PICK f : f = [i \in {} |-> None]
  OBVIOUS
<1>4. f \in [DOMAIN queue' -> Producers] /\ Owns(f)'
  BY <1>2, <1>3 DEF Owns
<1>5. \A p \in Producers : ~inQueue'[p]
  BY <1>1 DEF FlagInv
<1> QED
  BY <1>1, <1>4, <1>5 DEF FlagInv

\* The steps of the admin.
LEMMA FlagAdmin ==
  ASSUME NEW d, Admins = {d}, EnvInv(d), FlagInv, Cardinality(Producers) <= QueueCap,
         InitEnv(d) \/ DestroyCall(d) \/ DestroyTimeout(d) \/ AdminStep(d)
  PROVE  FlagInv'
<1> USE DEF lifeVars, flagVars, taskVars, senderVars
<1>1. /\ EnvTypes /\ LifeInv(d) /\ d \in Threads /\ d \notin Producers \cup Senders
      /\ pc[d] \in AdminPoints
  BY ThreadKinds DEF EnvInv, EnvTypes
<1>2. pc[d] \notin {"push", "popped"}
  BY <1>1 DEF AdminPoints
<1>3. CASE InitEnv(d)
  <2>1. /\ pc[d] = "idle" /\ ~inited /\ list' = {} /\ queue' = <<>> /\ inQueue' = inQueue
    BY <1>3 DEF InitEnv
  <2>2. list = {} /\ queue = <<>> /\ \A s \in Senders : pc[s] = "exited"
    BY <1>1, <2>1 DEF LifeInv
  <2>3. \A p \in Producers : pc'[p] = pc[p]
    <3>1. CASE pc' = [th \in Threads |-> IF th \in Senders THEN "idle" ELSE pc[th]]
      BY <3>1, ThreadKinds
    <3>2. CASE \E started \in SUBSET Senders :
                  pc' = [th \in Threads |-> IF th \in started THEN "idle"
                                            ELSE IF th = d THEN "drain" ELSE pc[th]]
      BY <3>2, ThreadKinds
    <3> QED
      BY <1>3, <3>1, <3>2 DEF InitEnv
  <2> QED
    BY <2>1, <2>2, <2>3, FlagKept
<1>4. CASE DestroyTick(d)
  BY <1>4, FlagTick DEF DestroyTick
<1>5. CASE DestroyFree(d)
  BY <1>5, FlagFree
<1>6. CASE \/ DestroyCall(d) \/ DestroyTimeout(d) \/ DestroyOpsEnded(d) \/ DestroyDrained(d)
           \/ DestroyJoin(d) \/ DestroyFinish(d)
  <2>1. \E w \in {"idle", "ops", "drain", "join", "free"} : Goto(d, w)
    BY <1>6 DEF DestroyCall, DestroyTimeout, DestroyOpsEnded, DestroyDrained, DestroyJoin, DestroyFinish
  <2>2. UNCHANGED <<list, queue, inQueue, held>>
    BY <1>6 DEF DestroyCall, DestroyTimeout, DestroyOpsEnded, DestroyDrained, DestroyJoin, DestroyFinish
  <2> QED
    BY <1>1, <1>2, <2>1, <2>2, FlagPlain
<1> QED
  BY <1>3, <1>4, <1>5, <1>6 DEF AdminStep

\* The steps of a producer's own thread.
LEMMA FlagProducer ==
  ASSUME NEW d, Admins = {d}, EnvInv(d), FlagInv, NEW p \in Producers,
         \/ RegisterBegin(p) \/ RegisterEnd(p) \/ CloseCall(p) \/ CloseEnd(p)
         \/ UnregisterBegin(p) \/ UnregisterEnd(p) \/ Free(p)
  PROVE  FlagInv'
<1> USE DEF lifeVars, flagVars, taskVars, senderVars
<1>1. /\ EnvTypes /\ LifeInv(d) /\ p \in Threads /\ inQueue \in [Producers -> BOOLEAN]
      /\ UNCHANGED <<list, queue, held>>
  BY ThreadKinds DEF EnvInv, EnvTypes, RegisterBegin, RegisterEnd, CloseCall, CloseEnd, UnregisterBegin,
     UnregisterEnd, Free
<1>2. inQueue' = inQueue
  <2>1. CASE UnregisterBegin(p) /\ ~ResourcesReady
    <3>1. list = {} /\ inQueue' = [inQueue EXCEPT ![p] = FALSE]
      BY <1>1, <2>1 DEF LifeInv, ResourcesReady, UnregisterBegin
    <3>2. inQueue[p] = FALSE
      BY <1>1, <3>1 DEF FlagInv
    <3> QED
      BY <1>1, <3>1, <3>2
  <2> QED
    BY <2>1 DEF RegisterBegin, RegisterEnd, CloseCall, CloseEnd, UnregisterBegin, UnregisterEnd, Free
<1>3. /\ pc[p] \in {"none", "registered", "live", "closing", "unregister", "removed", "unheld"}
      /\ \E w \in {"register", "closing", "notify", "unregister", "remove", "unheld", "freed"} :
           Goto(p, w) /\ (pc[p] \in {"removed", "unheld"} => w \in {"unheld", "freed"})
  BY DEF RegisterBegin, RegisterEnd, CloseCall, CloseEnd, UnregisterBegin, UnregisterEnd, Free
<1> QED
  BY <1>1, <1>2, <1>3, FlagPlain DEF GonePoints

\* The steps of a notify.
LEMMA FlagNotify ==
  ASSUME NEW d, Admins = {d}, EnvInv(d), FlagInv, Cardinality(Producers) <= QueueCap,
         NEW th \in Producers \cup Senders, Notify(th)
  PROVE  FlagInv'
<1> USE DEF lifeVars, flagVars, taskVars, senderVars
<1>1. CASE NotifyBegin(th) \/ NotifyEnd(th)
  <2>1. /\ EnvTypes /\ th \in Threads /\ ret \in [Senders -> {"step", "done"}]
        /\ pc[th] \in {"notify", "notified"} /\ UNCHANGED <<list, queue, inQueue, held>>
    BY <1>1, ThreadKinds DEF EnvInv, EnvTypes, NotifyBegin, NotifyEnd
  <2>2. \E w \in {"mark", "step", "done", "live"} : Goto(th, w)
    BY <1>1, <2>1 DEF NotifyBegin, NotifyEnd, NotifyReturns
  <2> QED
    BY <2>1, <2>2, FlagPlain DEF GonePoints
<1> QED
  BY <1>1, FlagMark, FlagPush DEF Notify

\* The steps of a sender between a clear and the next pop.
LEMMA FlagSender ==
  ASSUME NEW d, Admins = {d}, EnvInv(d), FlagInv, NEW s \in Senders,
         SenderExit(s) \/ SenderStep(s) \/ SenderSent(s) \/ SenderPending(s) \/ SenderDone(s)
  PROVE  FlagInv'
<1> USE DEF lifeVars, flagVars, taskVars, senderVars
<1>1. EnvTypes /\ s \in Threads /\ s \notin Producers /\ UNCHANGED <<list, queue, inQueue>>
  BY ThreadKinds DEF EnvInv, SenderExit, SenderStep, SenderSent, SenderPending, SenderDone
<1>2. \A u \in Senders \ {s} : held'[u] = held[u]
  BY <1>1 DEF EnvTypes, SenderExit, SenderStep, SenderSent, SenderPending, SenderDone
<1>3. /\ pc[s] \in {"idle", "step", "sending", "pending", "done"}
      /\ \E w \in {"exited", "sending", "pending", "notify", "step", "done", "idle"} : Goto(s, w)
  BY DEF SenderExit, SenderStep, SenderSent, SenderPending, SenderDone
<1> QED
  BY <1>1, <1>2, <1>3, FlagPlain

\* Every step of the environment keeps FlagInv.
LEMMA FlagStepInv ==
  ASSUME NEW d, Admins = {d}, EnvInv(d), FlagInv, Cardinality(Producers) <= QueueCap, [EnvNext]_envVars
  PROVE  FlagInv'
<1> USE DEF lifeVars, flagVars, taskVars, senderVars
<1>1. ASSUME UNCHANGED <<list, queue, inQueue, held, pc>>
      PROVE  FlagInv'
  <2>1. \A p : Carriers(p)' = Carriers(p)
    BY <1>1 DEF Carriers, Target
  <2> QED
    BY <1>1, <2>1, FlagKept
<1>2. ASSUME NEW e \in Admins, InitEnv(e) \/ DestroyCall(e) \/ DestroyTimeout(e) \/ AdminStep(e)
      PROVE  FlagInv'
  BY <1>2, FlagAdmin
<1>3. ASSUME NEW p \in Producers,
             \/ RegisterBegin(p) \/ AddLog(p) \/ SealBatch(p) \/ CloseCall(p)
             \/ NewTask(p) \/ ProducerStep(p)
      PROVE  FlagInv'
  <2>1. CASE AddLog(p) \/ SealBatch(p) \/ NewTask(p)
    BY <1>1, <2>1 DEF AddLog, SealBatch, NewTask
  <2> QED
    BY <1>3, <2>1, FlagProducer, FlagInsert, FlagRemove, FlagNotify DEF ProducerStep
<1>4. ASSUME NEW s \in Senders, EnvSender(s)
      PROVE  FlagInv'
  <2>1. CASE SenderTick(s)
    BY <2>1, FlagTick DEF SenderTick
  <2> QED
    BY <1>4, <2>1, FlagSender, FlagPop, FlagCleared, FlagNotify DEF EnvSender
<1>5. CASE UNCHANGED envVars
  BY <1>1, <1>5 DEF envVars
<1> QED
  BY <1>2, <1>3, <1>4, <1>5 DEF EnvNext

\* Nothing is queued or marked at first.
LEMMA FlagInit ==
  ASSUME EnvInit
  PROVE  FlagInv
<1>1. queue = <<>> /\ DOMAIN queue = {} /\ list = {} /\ \A p \in Producers : ~inQueue[p]
  BY DEF EnvInit
<1>2. PICK f : f = [i \in {} |-> None]
  OBVIOUS
<1>3. f \in [DOMAIN queue -> Producers] /\ Owns(f)
  BY <1>1, <1>2 DEF Owns
<1> QED
  BY <1>1, <1>3 DEF FlagInv

\* As long as the run queue has a place for every producer, env_in_queue is set
\* only for a producer that is in the run queue or on its way in or out, and no
\* producer is in the run queue twice: nobody is left out for good.
THEOREM FlagExactHolds ==
  ASSUME NEW d, Admins = {d}, Cardinality(Producers) <= QueueCap
  PROVE  EnvSpec => []FlagExact
<1>1. EnvInit => FlagInv
  BY FlagInit
<1>2. EnvInv(d) /\ FlagInv /\ [EnvNext]_envVars => FlagInv'
  BY FlagStepInv
<1>3. EnvInv(d) /\ FlagInv /\ BatchTypes => FlagExact
  <2>1. SUFFICES ASSUME EnvInv(d), FlagInv, BatchTypes
                 PROVE  FlagExact
    OBVIOUS
  <2>2. EnvTypeOK
    BY <2>1 DEF EnvInv, EnvTypes, EnvTypeOK, flagVars, BatchTypes
  <2>3. ASSUME NEW p \in Producers
        PROVE  Cardinality({i \in DOMAIN queue : queue[i] = p}) <= 1
    <3>1. CASE \E i \in DOMAIN queue : queue[i] = p
      <4>1. PICK i \in DOMAIN queue : queue[i] = p
        BY <3>1
      <4>2. {j \in DOMAIN queue : queue[j] = p} = {i}
        BY <2>1, <4>1, QueuedFlag, ThreadKinds
      <4>3. Cardinality({i}) = 1
        BY FS_Singleton
      <4> QED
        BY <4>2, <4>3
    <3>2. CASE ~ \E i \in DOMAIN queue : queue[i] = p
      <4>1. {j \in DOMAIN queue : queue[j] = p} = {}
        BY <3>2
      <4> QED
        BY <4>1, FS_EmptySet
    <3> QED
      BY <3>1, <3>2
  <2>4. ASSUME NEW p \in Producers, inQueue[p]
        PROVE  \/ p \in ToSet(queue)
               \/ \E s \in Senders : held[s] = p /\ pc[s] = "popped"
               \/ \E th \in Producers \cup Senders : Target(th) = p /\ pc[th] = "push"
    <3>1. FlagOf(p)
      BY <2>1, <2>4 DEF FlagInv
    <3> QED
      BY <2>4, <3>1 DEF FlagOf, Carriers
  <2> QED
    BY <2>2, <2>3, <2>4 DEF FlagExact
<1>4. EnvInit => BatchTypes
  BY DEF EnvInit, BatchTypes
<1>5. BatchTypes /\ [EnvNext]_envVars => BatchTypes'
  BY BatchStep
<1> QED
  BY <1>1, <1>2, <1>3, <1>4, <1>5, EnvInvariance, PTL DEF EnvSpec
=============================================================================

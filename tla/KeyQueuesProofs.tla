---------------------------- MODULE KeyQueuesProofs ----------------------------
(***************************************************************************)
(* Proofs about KeyQueues, for every set of keys, tasks and senders and    *)
(* every configuration: the key queues are where the lists and flags say   *)
(* (Placement), no task is stranded in a queue that is on no list          *)
(* (NoStrandedTask), and a queue in flight has one owner (OneSenderPerKey).*)
(* From there the way of the tasks: a key queue is a FIFO through retries  *)
(* and requeues (KeyFifo), a task is in one place and has one callback     *)
(* (OneCallback), and while there is work a sender serves (SomeoneServes). *)
(***************************************************************************)
EXTENDS KeyQueues, FiniteSetTheorems, TLAPS

-----------------------------------------------------------------------------
(* Facts about the sequences that model the lists.                         *)

\* Appending to a list adds one element; a new one is not repeated.
LEMMA AppendFacts ==
  ASSUME NEW S, NEW q \in Seq(S), NEW e \in S
  PROVE  /\ Append(q, e) \in Seq(S)
         /\ Append(q, e) # <<>>
         /\ Elems(Append(q, e)) = Elems(q) \cup {e}
         /\ NoRepeat(q) /\ e \notin Elems(q) => NoRepeat(Append(q, e))
<1> DEFINE a == Append(q, e)
<1>1. /\ a \in Seq(S) /\ Len(a) = Len(q) + 1
      /\ a[Len(q) + 1] = e
      /\ \A i \in 1..Len(q) : a[i] = q[i]
  OBVIOUS
<1>2. Elems(a) = Elems(q) \cup {e}
  <2>1. Elems(a) \subseteq Elems(q) \cup {e}
    BY <1>1 DEF Elems
  <2>2. Elems(q) \subseteq Elems(a)
    BY <1>1 DEF Elems
  <2>3. e \in Elems(a)
    BY <1>1 DEF Elems
  <2> QED
    BY <2>1, <2>2, <2>3
<1>3. ASSUME NoRepeat(q), e \notin Elems(q)
      PROVE  NoRepeat(Append(q, e))
  BY <1>1, <1>3 DEF NoRepeat, Elems
<1>4. a # <<>>
  BY <1>1
<1> QED
  BY <1>1, <1>2, <1>3, <1>4

\* Taking the head of a list without repetitions removes just that element.
LEMMA TailFacts ==
  ASSUME NEW S, NEW q \in Seq(S), q # <<>>
  PROVE  /\ Head(q) \in S
         /\ Head(q) \in Elems(q)
         /\ Tail(q) \in Seq(S)
         /\ NoRepeat(q) => NoRepeat(Tail(q)) /\ Elems(Tail(q)) = Elems(q) \ {Head(q)}
<1>1. Head(q) \in S /\ Tail(q) \in Seq(S)
  OBVIOUS
<1>2. Head(q) \in Elems(q)
  BY DEF Elems
<1>3. ASSUME NoRepeat(q)
      PROVE  NoRepeat(Tail(q))
  BY <1>3 DEF NoRepeat
<1>4. ASSUME NoRepeat(q)
      PROVE  Elems(Tail(q)) = Elems(q) \ {Head(q)}
  <2>1. Elems(Tail(q)) \subseteq Elems(q) \ {Head(q)}
    BY <1>4 DEF NoRepeat, Elems
  <2>2. ASSUME NEW x \in Elems(q), x # Head(q)
        PROVE  x \in Elems(Tail(q))
    <3>1. PICK i \in 1..Len(q) : x = q[i]
      BY DEF Elems
    <3>2. i # 1
      BY <2>2, <3>1
    <3>3. i - 1 \in 1..Len(Tail(q)) /\ Tail(q)[i - 1] = x
      BY <3>1, <3>2
    <3>4. DOMAIN Tail(q) = 1..Len(Tail(q))
      BY <1>1
    <3>5. \E j \in DOMAIN Tail(q) : x = Tail(q)[j]
      BY <3>3, <3>4, Zenon
    <3> QED
      BY <3>5, Zenon DEF Elems
  <2> QED
    BY <2>1, <2>2
<1> QED
  BY <1>1, <1>2, <1>3, <1>4

\* Joining two lists that have no element in common and no repetitions.
LEMMA ConcatFacts ==
  ASSUME NEW S, NEW q \in Seq(S), NEW p \in Seq(S)
  PROVE  /\ q \o p \in Seq(S)
         /\ Elems(q \o p) = Elems(q) \cup Elems(p)
         /\ q \o p = <<>> => q = <<>> /\ p = <<>>
         /\ NoRepeat(q) /\ NoRepeat(p) /\ Elems(q) \cap Elems(p) = {} => NoRepeat(q \o p)
<1>1. q \o p \in Seq(S) /\ Len(q \o p) = Len(q) + Len(p)
  OBVIOUS
<1>2. \A i \in 1..Len(q \o p) :
        (q \o p)[i] = IF i <= Len(q) THEN q[i] ELSE p[i - Len(q)]
  OBVIOUS
<1>3. Elems(q \o p) = Elems(q) \cup Elems(p)
  <2>1. Elems(q \o p) \subseteq Elems(q) \cup Elems(p)
    BY <1>1, <1>2 DEF Elems
  <2>2. \A i \in 1..Len(q) : i \in 1..Len(q \o p) /\ (q \o p)[i] = q[i]
    BY <1>1, <1>2
  <2>3. \A i \in 1..Len(p) : /\ Len(q) + i \in 1..Len(q \o p)
                             /\ (q \o p)[Len(q) + i] = p[i]
    BY <1>1, <1>2
  <2>4. Elems(q) \subseteq Elems(q \o p)
    BY <2>2, <1>1 DEF Elems
  <2>5. Elems(p) \subseteq Elems(q \o p)
    BY <2>3, <1>1 DEF Elems
  <2> QED
    BY <2>1, <2>4, <2>5
<1>4. q \o p = <<>> => q = <<>> /\ p = <<>>
  BY <1>1
<1>5. ASSUME NoRepeat(q), NoRepeat(p), Elems(q) \cap Elems(p) = {}
      PROVE  NoRepeat(q \o p)
  <2>1. SUFFICES ASSUME NEW i \in 1..Len(q \o p), NEW j \in 1..Len(q \o p),
                        (q \o p)[i] = (q \o p)[j]
                 PROVE  i = j
    BY <1>1 DEF NoRepeat
  <2>2. CASE i <= Len(q) /\ j <= Len(q)
    BY <1>1, <1>2, <1>5, <2>1, <2>2 DEF NoRepeat
  <2>3. CASE i > Len(q) /\ j > Len(q)
    <3>1. i - Len(q) \in 1..Len(p) /\ j - Len(q) \in 1..Len(p)
      BY <1>1, <2>3
    <3>2. p[i - Len(q)] = p[j - Len(q)]
      BY <1>2, <2>1, <2>3
    <3> QED
      BY <3>1, <3>2, <1>5 DEF NoRepeat
  <2>4. CASE i <= Len(q) /\ j > Len(q)
    <3>1. q[i] \in Elems(q) /\ p[j - Len(q)] \in Elems(p)
      BY <1>1, <2>4 DEF Elems
    <3> QED
      BY <3>1, <1>2, <1>5, <2>1, <2>4
  <2>5. CASE i > Len(q) /\ j <= Len(q)
    <3>1. q[j] \in Elems(q) /\ p[i - Len(q)] \in Elems(p)
      BY <1>1, <2>5 DEF Elems
    <3> QED
      BY <3>1, <1>2, <1>5, <2>1, <2>5
  <2> QED
    BY <2>2, <2>3, <2>4, <2>5, <1>1
<1> QED
  BY <1>1, <1>3, <1>4, <1>5

-----------------------------------------------------------------------------
(* The inductive invariant.                                                *)

\* The constants are what the arithmetic of the deadlines needs.
LEMMA ConstantFacts ==
  /\ None \notin Keys /\ None \notin Tasks
  /\ KeyOf \in [Tasks -> Keys]
  /\ IdleTtl \in Nat /\ FailThreshold \in Nat /\ RateDelay \in Nat
  /\ OpenMs \in Nat \ {0} /\ MaxAttempts \in Nat \ {0}
  /\ MaxDelay \in Nat /\ OpenMs <= MaxDelay /\ RateDelay <= MaxDelay
<1>1. /\ IdleTtl \in Nat /\ FailThreshold \in Nat /\ RateDelay \in Nat
      /\ OpenMs \in Nat \ {0} /\ MaxAttempts \in Nat \ {0}
  BY KeyQueuesAssumption
<1>2. None \notin Keys /\ None \notin Tasks /\ KeyOf \in [Tasks -> Keys]
  BY KeyQueuesAssumption
<1> QED
  BY <1>1, <1>2 DEF MaxDelay

\* The invariant makes every due queue promotable.
LEMMA PromotedFacts ==
  ASSUME Inv, NEW p \in Promoted
  PROVE  /\ p \in Seq(Keys)
         /\ Elems(p) = Due
         /\ NoRepeat(p)
<1> DEFINE S == {k \in Due : k \notin inflight /\ tasks[k] # <<>>}
<1>1. Due \subseteq delayed /\ delayed \subseteq Keys
  BY DEF Due, Inv, TypeOK, ListTypes
<1>2. S = Due
  BY <1>1 DEF Inv, Placement, NoStrandedTask
<1>3. /\ p \in [1..Cardinality(S) -> S]
      /\ Elems(p) = S
      /\ NoRepeat(p)
  BY DEF Promoted, NoRepeat
<1>4. IsFiniteSet(S)
  BY <1>1, <1>2, FS_Subset, KeyQueuesAssumption
<1>5. Cardinality(S) \in Nat
  BY <1>4, FS_CardinalityType
<1>6. p \in Seq(Keys)
  <2>1. PICK n \in Nat : n = Cardinality(S)
    BY <1>5
  <2>2. p \in [1..n -> Keys]
    BY <1>1, <1>2, <1>3, <2>1
  <2> QED
    BY <2>2
<1> QED
  BY <1>2, <1>3, <1>6

\* The initial state satisfies the invariant.
LEMMA InitInv == Init => Inv
<1> SUFFICES ASSUME Init PROVE Inv
  OBVIOUS
<1> USE ConstantFacts DEF Init
<1>1. TypeOK
  <2>1. ListTypes
    <3>1. tasks \in [Keys -> Seq(Tasks)] /\ sendq \in Seq(Tasks)
      OBVIOUS
    <3>2. ready \in Seq(Keys)
      OBVIOUS
    <3>3. stop \in BOOLEAN /\ sqStop \in BOOLEAN
      OBVIOUS
    <3> QED
      BY <3>1, <3>2, <3>3, Zenon DEF ListTypes
  <2>2. ClockTypes
    BY DEF ClockTypes
  <2>3. SenderTypes
    BY DEF SenderTypes, Places
  <2>4. HistoryTypes
    BY DEF HistoryTypes
  <2> QED
    BY <2>1, <2>2, <2>3, <2>4 DEF TypeOK
<1>2. SenderOK
  BY DEF SenderOK, Owning
<1>3. Placement
  BY DEF Placement, Elems, NoRepeat
<1>4. NoStrandedTask
  BY DEF NoStrandedTask, Elems
<1>5. OneSenderPerKey
  BY DEF OneSenderPerKey, Owning
<1> QED
  BY <1>1, <1>2, <1>3, <1>4, <1>5 DEF Inv

\* An action that leaves the lists alone keeps the facts about them.
LEMMA ListsUnchanged ==
  ASSUME Inv, UNCHANGED <<active, tasks, ready, delayed, idle, inflight>>
  PROVE  Placement' /\ NoStrandedTask'
BY DEF Inv, Placement, NoStrandedTask, NoRepeat, Elems

\* A sender that keeps its queue, or its lack of one, keeps the ownership.
LEMMA OwnersUnchanged ==
  ASSUME Inv, UNCHANGED <<inflight, kq>>,
         \A s \in Senders : pc'[s] \in Owning <=> pc[s] \in Owning
  PROVE  OneSenderPerKey'
BY DEF Inv, OneSenderPerKey

\* The operations of the workers and the passing of time keep the invariant.
LEMMA EnvironmentInv ==
  ASSUME Inv,
         \/ \E k \in Keys : Reserve(k)
         \/ \E t \in Tasks : Inbound(t)
         \/ \E t \in Tasks : DropTask(t)
         \/ Tick \/ Stop \/ StopSendQueue \/ UNCHANGED vars
  PROVE  Inv'
<1> USE ConstantFacts DEF Inv, TypeOK
<1>1. CASE \E k \in Keys : Reserve(k)
  <2>1. PICK k \in Keys : Reserve(k)
    BY <1>1
  <2>2. /\ active' = active \cup {k} /\ idle' = idle \ {k}
        /\ UNCHANGED <<tasks, ready, delayed, delay, age, inflight, fails, open,
                       sendq, stop, sqStop, pc, kq, task, attempt, pushed,
                       finished, callbacks, tries, cool>>
    BY <2>1 DEF Reserve, GetOrCreate, breakerVars, senderVars, historyVars
  <2>3. ListTypes'
    BY <2>2 DEF ListTypes
  <2>4. ClockTypes' /\ SenderTypes' /\ HistoryTypes' /\ SenderOK'
    BY <2>2 DEF ClockTypes, SenderTypes, HistoryTypes, SenderOK
  <2>5. Placement'
    BY <2>2 DEF Placement, Elems, NoRepeat
  <2>6. NoStrandedTask'
    BY <2>2 DEF NoStrandedTask, Elems
  <2>7. OneSenderPerKey'
    BY <2>2, OwnersUnchanged
  <2> QED
    BY <2>3, <2>4, <2>5, <2>6, <2>7
<1>2. CASE \E t \in Tasks : Inbound(t)
  <2>1. PICK t \in Tasks : Inbound(t)
    BY <1>2
  <2>2. /\ sendq' = Append(sendq, t)
        /\ UNCHANGED <<active, tasks, ready, delayed, delay, idle, age, inflight,
                       fails, open, stop, sqStop, pc, kq, task, attempt, pushed,
                       finished, callbacks, tries, cool>>
    BY <2>1 DEF Inbound, listVars, breakerVars, senderVars, historyVars
  <2>3. ListTypes'
    BY <2>2 DEF ListTypes
  <2>4. ClockTypes' /\ SenderTypes' /\ HistoryTypes' /\ SenderOK'
    BY <2>2 DEF ClockTypes, SenderTypes, HistoryTypes, SenderOK
  <2> QED
    BY <2>2, <2>3, <2>4, ListsUnchanged, OwnersUnchanged
<1>3. CASE \E t \in Tasks : DropTask(t)
  <2>1. PICK t \in Tasks : DropTask(t)
    BY <1>3
  <2>2. /\ callbacks' = [callbacks EXCEPT ![t] = @ + 1]
        /\ UNCHANGED <<active, tasks, ready, delayed, delay, idle, age, inflight,
                       fails, open, sendq, stop, sqStop, pc, kq, task, attempt,
                       pushed, finished, tries, cool>>
    BY <2>1 DEF DropTask, listVars, breakerVars, senderVars
  <2>3. ListTypes' /\ ClockTypes' /\ SenderTypes' /\ SenderOK'
    BY <2>2 DEF ListTypes, ClockTypes, SenderTypes, SenderOK
  <2>4. HistoryTypes'
    BY <2>2 DEF HistoryTypes
  <2> QED
    BY <2>2, <2>3, <2>4, ListsUnchanged, OwnersUnchanged
<1>4. CASE Tick
  <2>1. UNCHANGED <<active, tasks, ready, delayed, idle, inflight, fails, sendq,
                    stop, sqStop, pc, kq, task, attempt, pushed, finished,
                    callbacks, tries>>
    BY <1>4 DEF Tick, senderVars
  <2>2. ListTypes' /\ SenderTypes' /\ SenderOK'
    BY <2>1 DEF ListTypes, SenderTypes, SenderOK
  <2>3. \A B \in Nat : \A n \in 0..B : Down(n) \in 0..B
    BY DEF Down
  <2>4. \A n \in 0..IdleTtl : AtMost(n + 1, IdleTtl) \in 0..IdleTtl
    BY DEF AtMost
  <2>5. delay' \in [Keys -> 0..MaxDelay]
    BY <1>4, <2>3 DEF Tick, ClockTypes
  <2>6. open' \in [Keys -> 0..OpenMs]
    BY <1>4, <2>3 DEF Tick, ClockTypes
  <2>7. cool' \in [Keys -> 0..OpenMs]
    BY <1>4, <2>3 DEF Tick, HistoryTypes
  <2>8. age' \in [Keys -> 0..IdleTtl]
    BY <1>4, <2>4 DEF Tick, ClockTypes
  <2>9. ClockTypes' /\ HistoryTypes'
    BY <2>1, <2>5, <2>6, <2>7, <2>8 DEF ClockTypes, HistoryTypes
  <2> QED
    BY <2>1, <2>2, <2>9, ListsUnchanged, OwnersUnchanged
<1>5. CASE Stop \/ StopSendQueue \/ UNCHANGED vars
  <2>1. UNCHANGED <<active, tasks, ready, delayed, delay, idle, age, inflight,
                    fails, open, sendq, pc, kq, task, attempt, pushed, finished,
                    callbacks, tries, cool>>
    BY <1>5 DEF Stop, StopSendQueue, vars, listVars, breakerVars, senderVars, historyVars
  <2>2. stop' \in BOOLEAN /\ sqStop' \in BOOLEAN
    BY <1>5 DEF Stop, StopSendQueue, vars, ListTypes
  <2>3. ListTypes'
    BY <2>1, <2>2 DEF ListTypes
  <2>4. ClockTypes' /\ SenderTypes' /\ HistoryTypes' /\ SenderOK'
    BY <2>1 DEF ClockTypes, SenderTypes, HistoryTypes, SenderOK
  <2> QED
    BY <2>1, <2>3, <2>4, ListsUnchanged, OwnersUnchanged
<1> QED
  BY <1>1, <1>2, <1>3, <1>4, <1>5

-----------------------------------------------------------------------------
(* The steps of a sender.                                                  *)

\* The steps that leave the key queues alone.
LEMMA QuietInv ==
  ASSUME Inv, NEW s \in Senders,
         \/ PopInbound(s) \/ PopNothing(s) \/ CheckStop(s) \/ GateAllowed(s)
         \/ Retry(s) \/ InvalidPayload(s) \/ \E ok \in BOOLEAN : Complete(s, ok)
  PROVE  Inv'
<1> USE ConstantFacts DEF Inv, TypeOK
<1>1. CASE PopInbound(s)
  <2>1. /\ pc[s] \in {"wait", "poll", "tail", "last"} /\ sendq # <<>>
        /\ task' = [task EXCEPT ![s] = Head(sendq)]
        /\ sendq' = Tail(sendq)
        /\ pc' = [pc EXCEPT ![s] = "push"]
        /\ UNCHANGED <<active, tasks, ready, delayed, delay, idle, age, inflight,
                       fails, open, stop, sqStop, kq, attempt, pushed, finished,
                       callbacks, tries, cool>>
    BY <1>1 DEF PopInbound, listVars, breakerVars, historyVars
  <2>2. Head(sendq) \in Tasks /\ Tail(sendq) \in Seq(Tasks)
    BY <2>1, TailFacts DEF ListTypes
  <2>3. ListTypes'
    BY <2>1, <2>2 DEF ListTypes
  <2>4. ClockTypes' /\ HistoryTypes'
    BY <2>1 DEF ClockTypes, HistoryTypes
  <2>5. SenderTypes'
    BY <2>1, <2>2 DEF SenderTypes, Places
  <2>6. SenderOK'
    BY <2>1, <2>2 DEF SenderOK, SenderTypes, Owning
  <2>7. \A u \in Senders : pc'[u] \in Owning <=> pc[u] \in Owning
    BY <2>1 DEF SenderTypes, Owning
  <2> QED
    BY <2>1, <2>3, <2>4, <2>5, <2>6, <2>7, ListsUnchanged, OwnersUnchanged
<1>2. CASE PopNothing(s) \/ CheckStop(s)
  <2>1. /\ pc[s] \in {"poll", "wait", "tail", "last", "check"}
        /\ \E b \in {"check", "sweep", "exited", "tail", "last"} :
             pc' = [pc EXCEPT ![s] = b]
        /\ UNCHANGED <<active, tasks, ready, delayed, delay, idle, age, inflight,
                       fails, open, sendq, stop, sqStop, kq, task, attempt,
                       pushed, finished, callbacks, tries, cool>>
    BY <1>2 DEF PopNothing, CheckStop, listVars, breakerVars, historyVars
  <2>2. ListTypes' /\ ClockTypes' /\ HistoryTypes'
    BY <2>1 DEF ListTypes, ClockTypes, HistoryTypes
  <2>3. SenderTypes'
    BY <2>1 DEF SenderTypes, Places
  <2>4. SenderOK'
    BY <2>1 DEF SenderOK, SenderTypes, Owning
  <2>5. \A u \in Senders : pc'[u] \in Owning <=> pc[u] \in Owning
    BY <2>1 DEF SenderTypes, Owning
  <2> QED
    BY <2>1, <2>2, <2>3, <2>4, <2>5, ListsUnchanged, OwnersUnchanged
<1>3. CASE GateAllowed(s) \/ Retry(s)
  <2>1. /\ UNCHANGED <<active, tasks, ready, delayed, delay, idle, age, inflight,
                       fails, open, sendq, stop, sqStop, kq, task, pushed,
                       finished, callbacks, cool>>
        /\ pc[s] \in {"gate", "send"}
        /\ \/ /\ pc[s] = "gate" /\ pc' = [pc EXCEPT ![s] = "send"]
              /\ attempt' = [attempt EXCEPT ![s] = @ + 1]
              /\ tries' = [tries EXCEPT ![task[s]] = AtMost(@ + 1, MaxAttempts + 1)]
           \/ /\ attempt[s] < MaxAttempts /\ pc' = [pc EXCEPT ![s] = "gate"]
              /\ UNCHANGED <<attempt, tries>>
    BY <1>3 DEF GateAllowed, Retry, AttemptsLeft, listVars, breakerVars, historyVars
  <2>2. ListTypes' /\ ClockTypes'
    BY <2>1 DEF ListTypes, ClockTypes
  <2>3. \A n \in 0..(MaxAttempts + 1) :
          AtMost(n + 1, MaxAttempts + 1) \in 0..(MaxAttempts + 1)
    BY DEF AtMost
  <2>4. HistoryTypes'
    <3>1. tries' \in [Tasks -> 0..(MaxAttempts + 1)]
      <4>1. tries \in [Tasks -> 0..(MaxAttempts + 1)]
        BY DEF HistoryTypes
      <4> QED
        BY <2>1, <2>3, <4>1
    <3> QED
      BY <2>1, <3>1 DEF HistoryTypes
  <2>5. SenderTypes'
    BY <2>1 DEF SenderTypes, Places, SenderOK
  <2>6. SenderOK'
    BY <2>1 DEF SenderOK, SenderTypes, Owning
  <2>7. \A u \in Senders : pc'[u] \in Owning <=> pc[u] \in Owning
    BY <2>1 DEF SenderTypes, Owning
  <2> QED
    BY <2>1, <2>2, <2>4, <2>5, <2>6, <2>7, ListsUnchanged, OwnersUnchanged
<1>4. CASE InvalidPayload(s) \/ \E ok \in BOOLEAN : Complete(s, ok)
  <2>1. /\ UNCHANGED <<active, tasks, ready, delayed, delay, idle, age, inflight,
                       sendq, stop, sqStop, kq, attempt, pushed, tries>>
        /\ pc[s] \in {"gate", "send"}
        /\ pc' = [pc EXCEPT ![s] = "finish"]
        /\ callbacks' = [callbacks EXCEPT ![task[s]] = @ + 1]
        /\ finished' = [finished EXCEPT ![kq[s]] = Append(@, task[s])]
        /\ task' = [task EXCEPT ![s] = None]
    BY <1>4 DEF InvalidPayload, Complete, KeyBreakerResult, listVars, breakerVars
  <2>2. kq[s] \in Keys /\ task[s] \in Tasks
    BY <2>1 DEF SenderOK, Owning
  <2>3. ListTypes'
    BY <2>1 DEF ListTypes
  <2>4. /\ fails' \in [Keys -> 0..FailThreshold]
        /\ open' \in [Keys -> 0..OpenMs]
        /\ cool' \in [Keys -> 0..OpenMs]
    <3>1. \A n \in 0..FailThreshold : AtMost(n + 1, FailThreshold) \in 0..FailThreshold
      BY DEF AtMost
    <3>2. CASE InvalidPayload(s)
      BY <3>2 DEF InvalidPayload, breakerVars, ClockTypes, HistoryTypes
    <3>3. ASSUME NEW ok \in BOOLEAN, Complete(s, ok)
          PROVE  /\ fails' \in [Keys -> 0..FailThreshold]
                 /\ open' \in [Keys -> 0..OpenMs]
                 /\ cool' \in [Keys -> 0..OpenMs]
      <4>1. PICK f, o, c : /\ f \in 0..FailThreshold /\ o \in 0..OpenMs /\ c \in 0..OpenMs
                           /\ fails' = [fails EXCEPT ![kq[s]] = f]
                           /\ open' = [open EXCEPT ![kq[s]] = o]
                           /\ cool' = [cool EXCEPT ![kq[s]] = c]
        <5> DEFINE f == AtMost(fails[kq[s]] + 1, FailThreshold)
                   trip == ~ok /\ FailThreshold > 0 /\ f >= FailThreshold
                   ff == IF ok THEN 0 ELSE f
                   oo == IF trip THEN OpenMs ELSE IF ok THEN 0 ELSE open[kq[s]]
                   cc == IF trip THEN OpenMs ELSE IF ok THEN 0 ELSE cool[kq[s]]
        <5>1. /\ fails' = [fails EXCEPT ![kq[s]] = ff]
              /\ open' = [open EXCEPT ![kq[s]] = oo]
              /\ cool' = [cool EXCEPT ![kq[s]] = cc]
          BY <3>3 DEF Complete, KeyBreakerResult
        <5>2. ff \in 0..FailThreshold
          BY <2>2, <3>1 DEF ClockTypes
        <5>3. oo \in 0..OpenMs /\ cc \in 0..OpenMs
          BY <2>2 DEF ClockTypes, HistoryTypes
        <5> QED
          BY <5>1, <5>2, <5>3
      <4> QED
        BY <2>2, <4>1 DEF ClockTypes, HistoryTypes
    <3> QED
      BY <1>4, <3>2, <3>3
  <2>5. ClockTypes'
    BY <2>1, <2>4 DEF ClockTypes
  <2>6. HistoryTypes'
    <3>1. finished' \in [Keys -> Seq(Tasks)]
      <4>1. finished \in [Keys -> Seq(Tasks)]
        BY DEF HistoryTypes
      <4>2. Append(finished[kq[s]], task[s]) \in Seq(Tasks)
        BY <2>2, <4>1, AppendFacts
      <4> QED
        BY <2>1, <4>1, <4>2
    <3>2. callbacks' \in [Tasks -> Nat]
      BY <2>1, <2>2 DEF HistoryTypes
    <3> QED
      BY <2>1, <2>4, <3>1, <3>2 DEF HistoryTypes
  <2>7. SenderTypes' /\ SenderOK'
    BY <2>1 DEF SenderTypes, SenderOK, Places, Owning
  <2>8. \A u \in Senders : pc'[u] \in Owning <=> pc[u] \in Owning
    BY <2>1 DEF SenderTypes, Owning
  <2> QED
    BY <2>1, <2>3, <2>5, <2>6, <2>7, <2>8, ListsUnchanged, OwnersUnchanged
<1> QED
  BY <1>1, <1>2, <1>3, <1>4

\* The head of the loop moves due queues to the ready list and one queue from
\* there to the sender.
LEMMA TakeInv ==
  ASSUME Inv, NEW s \in Senders, Take(s)
  PROVE  Inv'
<1> USE ConstantFacts DEF Inv, TypeOK
<1>1. PICK p \in Promoted :
        LET r == ready \o p IN
        \/ /\ r # <<>>
           /\ ready' = Tail(r)
           /\ inflight' = inflight \cup {Head(r)}
           /\ kq' = [kq EXCEPT ![s] = Head(r)]
           /\ task' = [task EXCEPT ![s] = Head(tasks[Head(r)])]
           /\ tasks' = [tasks EXCEPT ![Head(r)] = Tail(@)]
           /\ attempt' = [attempt EXCEPT ![s] = 0]
           /\ pc' = [pc EXCEPT ![s] = "gate"]
        \/ /\ r = <<>>
           /\ pc' = [pc EXCEPT ![s] = IF delayed' = {} /\ ~stop THEN "wait" ELSE "poll"]
           /\ UNCHANGED <<ready, inflight, kq, task, tasks, attempt>>
  BY DEF Take, PopTask
<1>2. /\ pc[s] = "loop"
      /\ delayed' = delayed \ Due
      /\ UNCHANGED <<active, delay, idle, age, fails, open, sendq, stop, sqStop,
                     pushed, finished, callbacks, tries, cool>>
  BY DEF Take, PopTask, breakerVars, historyVars
<1> DEFINE r == ready \o p
<1>3. /\ p \in Seq(Keys) /\ Elems(p) = Due /\ NoRepeat(p)
      /\ ready \in Seq(Keys) /\ NoRepeat(ready)
      /\ Due \subseteq delayed /\ Elems(ready) \cap Due = {}
  <2>1. p \in Seq(Keys) /\ Elems(p) = Due /\ NoRepeat(p)
    BY PromotedFacts
  <2>2. ready \in Seq(Keys) /\ NoRepeat(ready) /\ Elems(ready) \cap delayed = {}
    BY DEF ListTypes, Placement
  <2>3. Due \subseteq delayed
    BY DEF Due
  <2> QED
    BY <2>1, <2>2, <2>3
<1>4. /\ r \in Seq(Keys) /\ NoRepeat(r)
      /\ Elems(r) = Elems(ready) \cup Due
      /\ r = <<>> => Elems(ready) = {} /\ Due = {}
  <2>1. r \in Seq(Keys) /\ NoRepeat(r) /\ Elems(r) = Elems(ready) \cup Due
    BY <1>3, ConcatFacts
  <2>2. r = <<>> => Elems(r) = {}
    BY DEF Elems
  <2> QED
    BY <2>1, <2>2
<1>5. ClockTypes' /\ HistoryTypes'
  BY <1>2 DEF ClockTypes, HistoryTypes
<1>6. CASE r # <<>>
  <2> DEFINE h == Head(r)
  <2>1. /\ ready' = Tail(r)
        /\ inflight' = inflight \cup {h}
        /\ kq' = [kq EXCEPT ![s] = h]
        /\ task' = [task EXCEPT ![s] = Head(tasks[h])]
        /\ tasks' = [tasks EXCEPT ![h] = Tail(@)]
        /\ attempt' = [attempt EXCEPT ![s] = 0]
        /\ pc' = [pc EXCEPT ![s] = "gate"]
    BY <1>1, <1>6
  <2>2. /\ h \in Keys /\ h \in Elems(r)
        /\ ready' \in Seq(Keys) /\ NoRepeat(ready')
        /\ Elems(ready') = Elems(r) \ {h}
    BY <1>4, <1>6, <2>1, TailFacts
  <2>3. h \in active /\ h \notin inflight /\ h \notin idle /\ h \in Elems(ready) \cup delayed
    BY <1>3, <1>4, <2>2 DEF Placement
  <2>4. tasks[h] \in Seq(Tasks) /\ tasks[h] # <<>>
    BY <2>2, <2>3 DEF NoStrandedTask, ListTypes
  <2>5. Head(tasks[h]) \in Tasks /\ Tail(tasks[h]) \in Seq(Tasks)
    BY <2>4, TailFacts
  <2> HIDE DEF h, r
  <2>6. ListTypes'
    BY <1>2, <2>1, <2>2, <2>5 DEF ListTypes
  <2>7. SenderTypes'
    BY <2>1, <2>2, <2>5 DEF SenderTypes, Places
  <2>8. SenderOK'
    BY <2>1, <2>2, <2>5 DEF SenderOK, SenderTypes, Owning
  <2>9. Placement'
    <3>1. Elems(ready)' = Elems(ready') /\ NoRepeat(ready)' = NoRepeat(ready')
      BY DEF Elems, NoRepeat
    <3> QED
      BY <1>2, <1>3, <1>4, <2>1, <2>2, <2>3, <3>1 DEF Placement
  <2>10. NoStrandedTask'
    <3>1. Elems(ready)' = Elems(ready')
      BY DEF Elems
    <3>2. \A k \in Keys : k # h => tasks'[k] = tasks[k]
      BY <2>1, <2>2 DEF ListTypes
    <3> QED
      BY <1>2, <1>3, <1>4, <2>1, <2>2, <2>3, <3>1, <3>2 DEF NoStrandedTask, Placement
  <2>11. OneSenderPerKey'
    <3>1. pc[s] \notin Owning /\ pc'[s] \in Owning /\ kq'[s] = h
      BY <1>2, <2>1 DEF Owning, SenderTypes
    <3>2. \A u \in Senders : u # s => pc'[u] = pc[u] /\ kq'[u] = kq[u]
      BY <2>1 DEF SenderTypes
    <3>3. \A u \in Senders : pc[u] \in Owning => kq[u] \in inflight
      BY DEF OneSenderPerKey
    <3>4. inflight' = {kq'[u] : u \in {v \in Senders : pc'[v] \in Owning}}
      BY <2>1, <3>1, <3>2 DEF OneSenderPerKey
    <3>5. ASSUME NEW u \in Senders, NEW v \in Senders,
                 pc'[u] \in Owning, pc'[v] \in Owning, kq'[u] = kq'[v]
          PROVE  u = v
      BY <2>3, <3>1, <3>2, <3>3, <3>5 DEF OneSenderPerKey
    <3> QED
      BY <3>4, <3>5 DEF OneSenderPerKey
  <2> QED
    BY <1>5, <2>6, <2>7, <2>8, <2>9, <2>10, <2>11
<1>7. CASE r = <<>>
  <2>1. /\ \E b \in {"wait", "poll"} : pc' = [pc EXCEPT ![s] = b]
        /\ UNCHANGED <<ready, inflight, kq, task, tasks, attempt>>
    BY <1>1, <1>7
  <2>2. UNCHANGED delayed
    BY <1>2, <1>4, <1>7
  <2>3. ListTypes'
    BY <1>2, <2>1, <2>2 DEF ListTypes
  <2>4. SenderTypes' /\ SenderOK'
    BY <1>2, <2>1 DEF SenderTypes, SenderOK, Places, Owning
  <2>5. \A u \in Senders : pc'[u] \in Owning <=> pc[u] \in Owning
    BY <1>2, <2>1 DEF SenderTypes, Owning
  <2> QED
    BY <1>2, <1>5, <2>1, <2>2, <2>3, <2>4, <2>5, ListsUnchanged, OwnersUnchanged
<1> QED
  BY <1>6, <1>7

\* A task from the send queue joins its key queue, or is dropped.
LEMMA PushTaskInv ==
  ASSUME Inv, NEW s \in Senders, PushTask(s)
  PROVE  Inv'
<1> USE ConstantFacts DEF Inv, TypeOK
<1> DEFINE t == task[s]
           k == KeyOf[t]
<1>1. /\ pc[s] = "push"
      /\ pc' = [pc EXCEPT ![s] = "loop"]
      /\ task' = [task EXCEPT ![s] = None]
      /\ UNCHANGED <<delayed, inflight, delay, age, fails, open, sendq, stop,
                     sqStop, kq, attempt, finished, tries, cool>>
  BY DEF PushTask, breakerVars
<1>2. t \in Tasks /\ k \in Keys
  BY <1>1 DEF SenderOK
<1>3. ClockTypes'
  BY <1>1 DEF ClockTypes
<1>4. SenderTypes' /\ SenderOK'
  BY <1>1 DEF SenderTypes, SenderOK, Places, Owning
<1>5. OneSenderPerKey'
  <2>1. \A u \in Senders : pc'[u] \in Owning <=> pc[u] \in Owning
    BY <1>1 DEF SenderTypes, Owning
  <2> QED
    BY <1>1, <2>1, OwnersUnchanged
<1>6. CASE CanGet(k) /\ active' = active \cup {k}
  <2>1. /\ active' = active \cup {k} /\ idle' = idle \ {k}
        /\ tasks' = [tasks EXCEPT ![k] = Append(@, t)]
        /\ ready' = IF tasks[k] = <<>> /\ k \notin Elems(ready) \cup delayed \cup inflight
                    THEN Append(ready, k) ELSE ready
        /\ pushed' = [pushed EXCEPT ![k] = Append(@, t)]
        /\ UNCHANGED callbacks
    <3>1. CanGet(k)
      BY <1>6
    <3>2. /\ active' = active \cup {k} /\ idle' = idle \ {k}
          /\ tasks' = [tasks EXCEPT ![k] = Append(@, t)]
          /\ IF tasks[k] = <<>> THEN ReadyAdd(k) ELSE UNCHANGED ready
          /\ pushed' = [pushed EXCEPT ![k] = Append(@, t)]
          /\ UNCHANGED callbacks
      BY <3>1 DEF PushTask, GetOrCreate
    <3>3. tasks'[k] # <<>>
      BY <1>2, <3>2, AppendFacts DEF ListTypes
    <3> QED
      BY <1>1, <3>2, <3>3 DEF ReadyAdd
  <2>2. /\ tasks[k] \in Seq(Tasks)
        /\ Append(tasks[k], t) \in Seq(Tasks) /\ Append(tasks[k], t) # <<>>
    BY <1>2, AppendFacts DEF ListTypes
  <2>3. /\ ready' \in Seq(Keys) /\ NoRepeat(ready')
        /\ Elems(ready') = Elems(ready) \cup
             (IF tasks[k] = <<>> /\ k \notin Elems(ready) \cup delayed \cup inflight
              THEN {k} ELSE {})
    BY <1>2, <2>1, AppendFacts DEF ListTypes, Placement
  <2> HIDE DEF t, k
  <2>4. ListTypes'
    BY <1>1, <1>2, <2>1, <2>2, <2>3 DEF ListTypes
  <2>5. HistoryTypes'
    <3>1. Append(pushed[k], t) \in Seq(Tasks)
      BY <1>2, AppendFacts DEF HistoryTypes
    <3> QED
      BY <1>1, <1>2, <2>1, <3>1 DEF HistoryTypes
  <2>6. Placement'
    <3>1. Elems(ready)' = Elems(ready') /\ NoRepeat(ready)' = NoRepeat(ready')
      BY DEF Elems, NoRepeat
    <3> QED
      BY <1>1, <2>1, <2>3, <3>1 DEF Placement
  <2>7. NoStrandedTask'
    <3>1. Elems(ready)' = Elems(ready')
      BY DEF Elems
    <3>2. /\ tasks'[k] # <<>>
          /\ \A j \in Keys : j # k => tasks'[j] = tasks[j]
      BY <1>2, <2>1, <2>2 DEF ListTypes
    <3> QED
      BY <1>1, <1>2, <2>3, <3>1, <3>2 DEF NoStrandedTask
  <2> QED
    BY <1>3, <1>4, <1>5, <2>4, <2>5, <2>6, <2>7
<1>7. CASE ~CanGet(k)
  <2>1. /\ callbacks' = [callbacks EXCEPT ![t] = @ + 1]
        /\ UNCHANGED <<active, idle, tasks, ready, delayed, inflight, pushed>>
    BY <1>7 DEF PushTask
  <2>2. ListTypes'
    BY <1>1, <2>1 DEF ListTypes
  <2>3. HistoryTypes'
    BY <1>1, <1>2, <2>1 DEF HistoryTypes
  <2> QED
    BY <1>3, <1>4, <1>5, <2>1, <2>2, <2>3, ListsUnchanged
<1> QED
  BY <1>6, <1>7 DEF PushTask, GetOrCreate

\* Freeing empty queues that nobody owns and no list but the idle list holds.
LEMMA FreeFacts ==
  ASSUME Inv, NEW K \in SUBSET Keys, RemoveAndFree(K)
  PROVE  /\ active' = active \ K /\ idle' = idle \ K
         /\ age' \in [Keys -> 0..IdleTtl]
         /\ fails' \in [Keys -> 0..FailThreshold]
         /\ open' \in [Keys -> 0..OpenMs]
BY ConstantFacts DEF RemoveAndFree, Inv, TypeOK, ClockTypes

\* The idle cleanup frees queues that have no task.
LEMMA SweepInv ==
  ASSUME Inv, NEW s \in Senders, Sweep(s)
  PROVE  Inv'
<1> USE ConstantFacts DEF Inv, TypeOK
<1>1. /\ pc[s] \in {"sweep", "check"}
      /\ pc' = [pc EXCEPT ![s] = "loop"]
      /\ UNCHANGED <<tasks, ready, delayed, delay, inflight, sendq, stop, sqStop,
                     kq, task, attempt, pushed, finished, callbacks, tries, cool>>
  BY DEF Sweep, historyVars
<1>2. PICK K \in SUBSET idle :
        /\ active' = active \ K /\ idle' = idle \ K
        /\ age' \in [Keys -> 0..IdleTtl]
        /\ fails' \in [Keys -> 0..FailThreshold]
        /\ open' \in [Keys -> 0..OpenMs]
  <2> DEFINE old == {k \in idle : tasks[k] = <<>> /\ k \notin inflight /\ age[k] >= IdleTtl}
  <2>1. CASE RemoveAndFree(old)
    <3>1. old \in SUBSET Keys
      BY DEF ListTypes
    <3> QED
      BY <2>1, <3>1, FreeFacts
  <2>2. CASE UNCHANGED <<active, idle, age, breakerVars>>
    <3>1. /\ active' = active \ {} /\ idle' = idle \ {}
          /\ age' \in [Keys -> 0..IdleTtl]
          /\ fails' \in [Keys -> 0..FailThreshold]
          /\ open' \in [Keys -> 0..OpenMs]
      BY <2>2 DEF breakerVars, ClockTypes
    <3>2. {} \in SUBSET idle
      OBVIOUS
    <3> QED
      BY <3>1, <3>2, Zenon
  <2> QED
    BY <2>1, <2>2 DEF Sweep, IdleCleanup
<1>3. ListTypes' /\ HistoryTypes'
  BY <1>1, <1>2 DEF ListTypes, HistoryTypes
<1>4. ClockTypes'
  BY <1>1, <1>2 DEF ClockTypes
<1>5. SenderTypes' /\ SenderOK'
  BY <1>1 DEF SenderTypes, SenderOK, Places, Owning
<1>6. Placement'
  BY <1>1, <1>2 DEF Placement, Elems, NoRepeat
<1>7. NoStrandedTask'
  BY <1>1 DEF NoStrandedTask, Elems
<1>8. OneSenderPerKey'
  <2>1. \A u \in Senders : pc'[u] \in Owning <=> pc[u] \in Owning
    BY <1>1 DEF SenderTypes, Owning
  <2> QED
    BY <1>1, <2>1, OwnersUnchanged
<1> QED
  BY <1>3, <1>4, <1>5, <1>6, <1>7, <1>8

\* A sender that gives its queue back: no other sender owned it.
LEMMA Released ==
  ASSUME Inv, NEW s \in Senders, pc[s] \in Owning,
         inflight' = inflight \ {kq[s]},
         kq' = [kq EXCEPT ![s] = None],
         pc' = [pc EXCEPT ![s] = "loop"]
  PROVE  OneSenderPerKey'
<1> USE DEF Inv, TypeOK
<1>1. pc'[s] \notin Owning
  BY DEF SenderTypes, Owning
<1>2. \A u \in Senders : u # s => pc'[u] = pc[u] /\ kq'[u] = kq[u]
  BY DEF SenderTypes
<1>3. inflight' = {kq'[u] : u \in {v \in Senders : pc'[v] \in Owning}}
  BY <1>1, <1>2 DEF OneSenderPerKey
<1>4. \A u, v \in Senders :
        pc'[u] \in Owning /\ pc'[v] \in Owning /\ kq'[u] = kq'[v] => u = v
  BY <1>1, <1>2 DEF OneSenderPerKey
<1> QED
  BY <1>3, <1>4 DEF OneSenderPerKey

\* A denied task goes back to its queue, the queue to the delayed list.
LEMMA GateDeniedInv ==
  ASSUME Inv, NEW s \in Senders, GateDenied(s)
  PROVE  Inv'
<1> USE ConstantFacts DEF Inv, TypeOK
<1> DEFINE k == kq[s]
<1>1. /\ pc[s] = "gate"
      /\ tasks' = [tasks EXCEPT ![k] = <<task[s]>> \o @]
      /\ inflight' = inflight \ {k}
      /\ delayed' = delayed \cup {k}
      /\ pc' = [pc EXCEPT ![s] = "loop"]
      /\ kq' = [kq EXCEPT ![s] = None]
      /\ task' = [task EXCEPT ![s] = None]
      /\ UNCHANGED <<active, ready, idle, age, fails, open, sendq, stop, sqStop,
                     attempt, pushed, finished, callbacks, tries, cool>>
  BY DEF GateDenied, RateDelays, KeyBreakerDelay, PushFront, DelayedAdd, breakerVars, historyVars
<1>2. k \in Keys /\ task[s] \in Tasks /\ k \in inflight /\ pc[s] \in Owning
  BY <1>1 DEF SenderOK, OneSenderPerKey, Owning
<1>3. /\ <<task[s]>> \o tasks[k] \in Seq(Tasks)
      /\ <<task[s]>> \o tasks[k] # <<>>
  <2>1. tasks[k] \in Seq(Tasks) /\ <<task[s]>> \in Seq(Tasks) /\ <<task[s]>> # <<>>
    BY <1>2 DEF ListTypes
  <2> QED
    BY <2>1, ConcatFacts
<1>4. delay' \in [Keys -> 0..MaxDelay]
  <2>1. PICK rl \in 0..RateDelay :
          LET bk == IF FailThreshold > 0 THEN open[k] ELSE 0
              ms == IF bk < rl THEN rl ELSE bk
          IN  delay' = [delay EXCEPT ![k] = ms]
    BY DEF GateDenied, RateDelays, KeyBreakerDelay, PushFront, DelayedAdd
  <2>2. open[k] \in 0..OpenMs
    BY <1>2 DEF ClockTypes
  <2> DEFINE bk == IF FailThreshold > 0 THEN open[k] ELSE 0
             ms == IF bk < rl THEN rl ELSE bk
  <2>3. ms \in 0..MaxDelay /\ delay' = [delay EXCEPT ![k] = ms]
    BY <2>1, <2>2
  <2> HIDE DEF ms
  <2> QED
    BY <1>2, <2>3 DEF ClockTypes
<1>5. OneSenderPerKey'
  BY <1>1, <1>2, Released
<1> HIDE DEF k
<1>6. ListTypes'
  BY <1>1, <1>2, <1>3 DEF ListTypes
<1>7. ClockTypes'
  BY <1>1, <1>4 DEF ClockTypes
<1>8. HistoryTypes'
  BY <1>1 DEF HistoryTypes
<1>9. SenderTypes' /\ SenderOK'
  BY <1>1 DEF SenderTypes, SenderOK, Places, Owning
<1>10. Placement'
  BY <1>1, <1>2 DEF Placement, Elems, NoRepeat
<1>11. NoStrandedTask'
  <2>1. Elems(ready)' = Elems(ready)
    BY <1>1 DEF Elems
  <2>2. /\ tasks'[k] # <<>>
        /\ \A j \in Keys : j # k => tasks'[j] = tasks[j]
    BY <1>1, <1>2, <1>3 DEF ListTypes
  <2> QED
    BY <1>1, <1>2, <2>1, <2>2 DEF NoStrandedTask
<1> QED
  BY <1>5, <1>6, <1>7, <1>8, <1>9, <1>10, <1>11

\* The end of a task: the queue goes to the delayed, the ready or the idle
\* list, or is freed.
LEMMA FinishInv ==
  ASSUME Inv, NEW s \in Senders, Finish(s)
  PROVE  Inv'
<1> USE ConstantFacts DEF Inv, TypeOK
<1> DEFINE k == kq[s]
<1>1. /\ pc[s] = "finish"
      /\ inflight' = inflight \ {k}
      /\ pc' = [pc EXCEPT ![s] = "loop"]
      /\ kq' = [kq EXCEPT ![s] = None]
      /\ UNCHANGED <<tasks, sendq, stop, sqStop, task, attempt, pushed, finished,
                     callbacks, tries, cool>>
  BY DEF Finish, IdleAdd, KeyBreakerDelay, historyVars
<1>2. k \in Keys /\ k \in inflight /\ pc[s] \in Owning
  BY <1>1 DEF SenderOK, OneSenderPerKey, Owning
<1>3. k \in active /\ k \notin Elems(ready) /\ k \notin delayed /\ k \notin idle
  BY <1>2 DEF Placement
<1>4. OneSenderPerKey'
  BY <1>1, <1>2, Released
<1>5. SenderTypes' /\ SenderOK'
  BY <1>1 DEF SenderTypes, SenderOK, Places, Owning
<1>6. HistoryTypes'
  BY <1>1 DEF HistoryTypes
<1>7. open[k] \in 0..OpenMs
  BY <1>2 DEF ClockTypes
<1>8. CASE /\ tasks[k] # <<>>
           /\ DelayedAdd(k, open[k])
           /\ UNCHANGED <<ready, active, idle, age, fails, open>>
  <2>1. delayed' = delayed \cup {k} /\ delay' = [delay EXCEPT ![k] = open[k]]
    BY <1>8 DEF DelayedAdd
  <2>2. ListTypes'
    BY <1>1, <1>2, <1>8, <2>1 DEF ListTypes
  <2>3. ClockTypes'
    BY <1>2, <1>7, <1>8, <2>1 DEF ClockTypes
  <2>4. Placement'
    BY <1>1, <1>2, <1>3, <1>8, <2>1 DEF Placement, Elems, NoRepeat
  <2>5. NoStrandedTask'
    BY <1>1, <1>2, <1>8, <2>1 DEF NoStrandedTask, Elems
  <2> QED
    BY <1>4, <1>5, <1>6, <2>2, <2>3, <2>4, <2>5
<1>9. CASE /\ tasks[k] # <<>>
           /\ UNCHANGED <<delayed, delay, active, idle, age, fails, open>>
           /\ ReadyAdd(k)
  <2>1. ready' = Append(ready, k)
    BY <1>1, <1>3, <1>9 DEF ReadyAdd
  <2>2. /\ ready' \in Seq(Keys) /\ NoRepeat(ready')
        /\ Elems(ready') = Elems(ready) \cup {k}
    BY <1>2, <1>3, <2>1, AppendFacts DEF ListTypes, Placement
  <2>3. ListTypes'
    BY <1>1, <1>2, <1>9, <2>2 DEF ListTypes
  <2>4. ClockTypes'
    BY <1>9 DEF ClockTypes
  <2>5. Elems(ready)' = Elems(ready') /\ NoRepeat(ready)' = NoRepeat(ready')
    BY DEF Elems, NoRepeat
  <2>6. Placement'
    BY <1>1, <1>2, <1>3, <1>9, <2>2, <2>5 DEF Placement
  <2>7. NoStrandedTask'
    BY <1>1, <1>2, <1>9, <2>2, <2>5 DEF NoStrandedTask
  <2> QED
    BY <1>4, <1>5, <1>6, <2>3, <2>4, <2>6, <2>7
<1>10. CASE /\ tasks[k] = <<>>
            /\ idle' = idle \cup {k}
            /\ age' = [age EXCEPT ![k] = 0]
            /\ UNCHANGED <<active, ready, delayed, delay, fails, open>>
  <2>1. ListTypes'
    BY <1>1, <1>2, <1>10 DEF ListTypes
  <2>2. ClockTypes'
    BY <1>2, <1>10 DEF ClockTypes
  <2>3. Placement'
    BY <1>1, <1>2, <1>3, <1>10 DEF Placement, Elems, NoRepeat
  <2>4. NoStrandedTask'
    BY <1>1, <1>2, <1>10 DEF NoStrandedTask, Elems
  <2> QED
    BY <1>4, <1>5, <1>6, <2>1, <2>2, <2>3, <2>4
<1>11. CASE /\ tasks[k] = <<>>
            /\ RemoveAndFree({k})
            /\ UNCHANGED <<ready, delayed, delay>>
  <2>1. /\ active' = active \ {k} /\ idle' = idle \ {k}
        /\ age' \in [Keys -> 0..IdleTtl]
        /\ fails' \in [Keys -> 0..FailThreshold]
        /\ open' \in [Keys -> 0..OpenMs]
    BY <1>2, <1>11, FreeFacts
  <2>2. ListTypes'
    BY <1>1, <1>2, <1>11, <2>1 DEF ListTypes
  <2>3. ClockTypes'
    BY <1>11, <2>1 DEF ClockTypes
  <2>4. Placement'
    BY <1>1, <1>2, <1>3, <1>11, <2>1 DEF Placement, Elems, NoRepeat
  <2>5. NoStrandedTask'
    BY <1>1, <1>2, <1>11, <2>1 DEF NoStrandedTask, Elems
  <2> QED
    BY <1>4, <1>5, <1>6, <2>2, <2>3, <2>4, <2>5
<1> QED
  BY <1>8, <1>9, <1>10, <1>11 DEF Finish, IdleAdd, KeyBreakerDelay, breakerVars

-----------------------------------------------------------------------------
(* The theorems.                                                           *)

\* Every step of the specification keeps the invariant.
LEMMA NextInv == Inv /\ [Next]_vars => Inv'
<1> SUFFICES ASSUME Inv, [Next]_vars PROVE Inv'
  OBVIOUS
<1>1. CASE \E s \in Senders : SenderStep(s)
  <2>1. PICK s \in Senders : SenderStep(s)
    BY <1>1
  <2> QED
    BY <2>1, TakeInv, QuietInv, PushTaskInv, SweepInv, GateDeniedInv, FinishInv
    DEF SenderStep
<1>2. CASE \/ \E k \in Keys : Reserve(k)
           \/ \E t \in Tasks : Fresh(t) /\ Inbound(t)
           \/ \E t \in Tasks : Fresh(t) /\ DropTask(t)
           \/ Tick \/ Stop \/ StopSendQueue \/ UNCHANGED vars
  BY <1>2, EnvironmentInv
<1> QED
  BY <1>1, <1>2 DEF Next

\* The inductive invariant holds in every reachable state.
THEOREM Invariance == Spec => []Inv
BY InitInv, NextInv, PTL DEF Spec

\* The variables keep their types and the clocks their bounds: whatever the
\* senders do, no queue is delayed beyond what the configuration allows.
THEOREM TypeCorrect == Spec => []TypeOK
<1>1. Inv => TypeOK
  BY DEF Inv
<1> QED
  BY <1>1, Invariance, PTL

\* The flags and the links of ve_tls_producer_queue.c agree: a key queue is in
\* at most one list, once, and a queue in a list or in flight is not freed.
THEOREM PlacementCorrect == Spec => []Placement
<1>1. Inv => Placement
  BY DEF Inv
<1> QED
  BY <1>1, Invariance, PTL

\* No task is stranded: a key queue with tasks is ready, delayed or in flight.
THEOREM NothingStranded == Spec => []NoStrandedTask
<1>1. Inv => NoStrandedTask
  BY DEF Inv
<1> QED
  BY <1>1, Invariance, PTL

\* The inflight flag is a lock on the key queue: one sender per hash key.
THEOREM KeyExclusion == Spec => []OneSenderPerKey
<1>1. Inv => OneSenderPerKey
  BY DEF Inv
<1> QED
  BY <1>1, Invariance, PTL

-----------------------------------------------------------------------------
(* Facts about a FIFO in three pieces: done, in hand, waiting.             *)

\* A new task behind the last piece is behind the whole.
LEMMA JoinPieces ==
  ASSUME NEW f \in Seq(Tasks), NEW h \in Seq(Tasks), NEW q \in Seq(Tasks), NEW e \in Tasks
  PROVE  Append(f \o h \o q, e) = f \o h \o Append(q, e)
OBVIOUS

\* The first waiting task is taken in hand.
LEMMA TakePiece ==
  ASSUME NEW f \in Seq(Tasks), NEW q \in Seq(Tasks), q # <<>>
  PROVE  f \o <<>> \o q = f \o <<Head(q)>> \o Tail(q)
OBVIOUS

\* The task in hand is put back in front.
LEMMA ReturnPiece ==
  ASSUME NEW f \in Seq(Tasks), NEW q \in Seq(Tasks), NEW e \in Tasks
  PROVE  f \o <<>> \o (<<e>> \o q) = f \o <<e>> \o q
OBVIOUS

\* The task in hand is done.
LEMMA EndPiece ==
  ASSUME NEW f \in Seq(Tasks), NEW q \in Seq(Tasks), NEW e \in Tasks
  PROVE  Append(f, e) \o <<>> \o q = f \o <<e>> \o q
OBVIOUS

\* The pieces hold what the whole holds; without repetitions they share nothing.
LEMMA PiecesApart ==
  ASSUME NEW f \in Seq(Tasks), NEW h \in Seq(Tasks), NEW q \in Seq(Tasks)
  PROVE  /\ f \o h \o q \in Seq(Tasks)
         /\ Elems(f \o h \o q) = Elems(f) \cup Elems(h) \cup Elems(q)
         /\ NoRepeat(f \o h \o q) => /\ Elems(f) \cap Elems(h) = {}
                                     /\ Elems(f) \cap Elems(q) = {}
                                     /\ Elems(h) \cap Elems(q) = {}
                                     /\ NoRepeat(q)
<1> DEFINE w == f \o h \o q
<1>1. /\ f \o h \in Seq(Tasks) /\ w \in Seq(Tasks)
      /\ Elems(w) = Elems(f) \cup Elems(h) \cup Elems(q)
  <2>1. f \o h \in Seq(Tasks) /\ Elems(f \o h) = Elems(f) \cup Elems(h)
    BY ConcatFacts
  <2>2. PICK g \in Seq(Tasks) : g = f \o h
    BY <2>1
  <2>3. g \o q \in Seq(Tasks) /\ Elems(g \o q) = Elems(g) \cup Elems(q)
    BY ConcatFacts
  <2> QED
    BY <2>1, <2>2, <2>3
<1>2. ASSUME NEW a \in Seq(Tasks), NEW b \in Seq(Tasks), NoRepeat(a \o b)
      PROVE  Elems(a) \cap Elems(b) = {} /\ NoRepeat(a) /\ NoRepeat(b)
  <2>1. /\ DOMAIN (a \o b) = 1..(Len(a) + Len(b))
        /\ DOMAIN a = 1..Len(a) /\ DOMAIN b = 1..Len(b)
        /\ Len(a) \in Nat /\ Len(b) \in Nat
        /\ \A i \in 1..Len(a) : (a \o b)[i] = a[i]
        /\ \A i \in 1..Len(b) : (a \o b)[Len(a) + i] = b[i]
    OBVIOUS
  <2>2. ASSUME NEW i \in DOMAIN a, NEW j \in DOMAIN b, a[i] = b[j]
        PROVE  FALSE
    <3>1. i \in DOMAIN (a \o b) /\ Len(a) + j \in DOMAIN (a \o b) /\ i # Len(a) + j
      BY <2>1
    <3> QED
      BY <1>2, <2>1, <2>2, <3>1 DEF NoRepeat
  <2>3. Elems(a) \cap Elems(b) = {}
    BY <2>2 DEF Elems
  <2>4. NoRepeat(a)
    <3>1. \A i \in DOMAIN a : i \in DOMAIN (a \o b)
      BY <2>1
    <3> QED
      BY <1>2, <2>1, <3>1 DEF NoRepeat
  <2>5. NoRepeat(b)
    <3>1. SUFFICES ASSUME NEW i \in DOMAIN b, NEW j \in DOMAIN b, b[i] = b[j]
                   PROVE  i = j
      BY DEF NoRepeat
    <3>2. Len(a) + i \in DOMAIN (a \o b) /\ Len(a) + j \in DOMAIN (a \o b)
      BY <2>1
    <3>3. Len(a) + i = Len(a) + j
      BY <1>2, <2>1, <3>1, <3>2 DEF NoRepeat
    <3> QED
      BY <2>1, <3>3
  <2> QED
    BY <2>3, <2>4, <2>5
<1>3. ASSUME NoRepeat(w)
      PROVE  /\ Elems(f) \cap Elems(h) = {} /\ Elems(f) \cap Elems(q) = {}
             /\ Elems(h) \cap Elems(q) = {} /\ NoRepeat(q)
  <2>1. NoRepeat(f \o h) /\ NoRepeat(q) /\ Elems(f \o h) \cap Elems(q) = {}
    BY <1>1, <1>2, <1>3
  <2>2. Elems(f) \cap Elems(h) = {}
    BY <1>2, <2>1
  <2>3. Elems(f \o h) = Elems(f) \cup Elems(h)
    BY ConcatFacts
  <2> QED
    BY <2>1, <2>2, <2>3
<1> QED
  BY <1>1, <1>3

-----------------------------------------------------------------------------
(* The ways of a task.  Each step of the specification moves at most one   *)
(* task, in one of the following ways.                                     *)

\* The sender is at a task of its key queue.
Trying(s) == pc[s] \in {"gate", "send"}

\* No task moves, although senders, queues and clocks may.
NothingMoves ==
  /\ UNCHANGED <<tasks, sendq, task, pushed, finished, callbacks>>
  /\ \A u \in Senders :
       /\ Trying(u)' <=> Trying(u)
       /\ Trying(u) => kq'[u] = kq[u]
       /\ pc'[u] = "push" <=> pc[u] = "push"

\* One sender takes, pops, pushes or lets go of a task; it comes to place b.
HandsOf(s, b) ==
  /\ pc' = [pc EXCEPT ![s] = b]
  /\ \A u \in Senders : u # s => task'[u] = task[u] /\ kq'[u] = kq[u]

\* From the ready queue k to the sender.
TakeMove(s, k) ==
  /\ pc[s] = "loop" /\ k \in Keys /\ k \notin inflight /\ tasks[k] # <<>>
  /\ HandsOf(s, "gate") /\ task'[s] = Head(tasks[k]) /\ kq'[s] = k
  /\ tasks' = [tasks EXCEPT ![k] = Tail(@)]
  /\ UNCHANGED <<sendq, pushed, finished, callbacks>>

\* From the send queue to the sender.
PopMove(s) ==
  /\ pc[s] \in {"wait", "poll", "tail", "last"} /\ sendq # <<>>
  /\ HandsOf(s, "push") /\ task'[s] = Head(sendq) /\ kq'[s] = kq[s]
  /\ sendq' = Tail(sendq)
  /\ UNCHANGED <<tasks, pushed, finished, callbacks>>

\* From the sender to the key queue, or to its end at the key limit.
PushMove(s) ==
  LET t == task[s] IN
  /\ pc[s] = "push"
  /\ HandsOf(s, "loop") /\ task'[s] = None
  /\ tasks' = [tasks EXCEPT ![KeyOf[t]] = Append(@, t)]
  /\ pushed' = [pushed EXCEPT ![KeyOf[t]] = Append(@, t)]
  /\ UNCHANGED <<sendq, finished, callbacks>>

RefuseMove(s) ==
  /\ pc[s] = "push"
  /\ HandsOf(s, "loop") /\ task'[s] = None
  /\ callbacks' = [callbacks EXCEPT ![task[s]] = @ + 1]
  /\ UNCHANGED <<tasks, pushed, sendq, finished>>

\* From the sender back to its key queue.
ReturnMove(s) ==
  /\ pc[s] = "gate"
  /\ HandsOf(s, "loop") /\ task'[s] = None
  /\ tasks' = [tasks EXCEPT ![kq[s]] = <<task[s]>> \o @]
  /\ UNCHANGED <<sendq, pushed, finished, callbacks>>

\* From the sender to its end.
EndMove(s) ==
  /\ Trying(s)
  /\ HandsOf(s, "finish") /\ task'[s] = None
  /\ callbacks' = [callbacks EXCEPT ![task[s]] = @ + 1]
  /\ finished' = [finished EXCEPT ![kq[s]] = Append(@, task[s])]
  /\ UNCHANGED <<tasks, sendq, pushed>>

\* A new task enters the send queue, or is dropped before it.
EnterMove(t) ==
  /\ Fresh(t)
  /\ sendq' = Append(sendq, t)
  /\ UNCHANGED <<tasks, pc, kq, task, pushed, finished, callbacks>>

DropMove(t) ==
  /\ Fresh(t)
  /\ callbacks' = [callbacks EXCEPT ![t] = @ + 1]
  /\ UNCHANGED <<tasks, sendq, pc, kq, task, pushed, finished>>

SenderMove(s) ==
  \/ \E k \in Keys : TakeMove(s, k)
  \/ PopMove(s) \/ PushMove(s) \/ RefuseMove(s) \/ ReturnMove(s) \/ EndMove(s)

Moves ==
  \/ NothingMoves
  \/ \E s \in Senders : SenderMove(s)
  \/ \E t \in Tasks : EnterMove(t) \/ DropMove(t)

\* A step of a sender moves a task in one of these ways.
LEMMA SenderMoves ==
  ASSUME Inv, NEW s \in Senders, SenderStep(s)
  PROVE  NothingMoves \/ SenderMove(s)
<1> USE DEF Inv, TypeOK, SenderTypes
<1>1. CASE Take(s)
  <2>1. PICK p \in Promoted :
          LET r == ready \o p IN
          \/ /\ r # <<>>
             /\ kq' = [kq EXCEPT ![s] = Head(r)]
             /\ task' = [task EXCEPT ![s] = Head(tasks[Head(r)])]
             /\ tasks' = [tasks EXCEPT ![Head(r)] = Tail(@)]
             /\ pc' = [pc EXCEPT ![s] = "gate"]
          \/ /\ r = <<>>
             /\ \E b \in {"wait", "poll"} : pc' = [pc EXCEPT ![s] = b]
             /\ UNCHANGED <<kq, task, tasks>>
    BY <1>1 DEF Take, PopTask
  <2>2. pc[s] = "loop" /\ UNCHANGED <<sendq, pushed, finished, callbacks>>
    BY <1>1 DEF Take, PopTask, historyVars
  <2>3. CASE ready \o p # <<>>
    <3> DEFINE h == Head(ready \o p)
    <3>1. p \in Seq(Keys) /\ Elems(p) = Due /\ ready \in Seq(Keys)
      BY PromotedFacts DEF ListTypes
    <3>2. h \in Elems(ready) \cup Due /\ h \in Keys
      <4>1. ready \o p \in Seq(Keys) /\ Elems(ready \o p) = Elems(ready) \cup Due
        BY <3>1, ConcatFacts
      <4> QED
        BY <2>3, <4>1, TailFacts
    <3>3. h \in Elems(ready) \cup delayed
      BY <3>2 DEF Due
    <3>4. h \notin inflight /\ tasks[h] # <<>>
      BY <3>2, <3>3 DEF Placement, NoStrandedTask
    <3>5. /\ kq' = [kq EXCEPT ![s] = h]
          /\ task' = [task EXCEPT ![s] = Head(tasks[h])]
          /\ tasks' = [tasks EXCEPT ![h] = Tail(@)]
          /\ pc' = [pc EXCEPT ![s] = "gate"]
      BY <2>1, <2>3
    <3> HIDE DEF h
    <3>6. TakeMove(s, h)
      BY <2>2, <3>2, <3>4, <3>5 DEF TakeMove, HandsOf
    <3> QED
      BY <3>2, <3>6 DEF SenderMove
  <2>4. CASE ready \o p = <<>>
    <3>1. /\ \E b \in {"wait", "poll"} : pc' = [pc EXCEPT ![s] = b]
          /\ UNCHANGED <<kq, task, tasks>>
      BY <2>1, <2>4
    <3> QED
      BY <2>2, <3>1 DEF NothingMoves, Trying
  <2> QED
    BY <2>3, <2>4
<1>2. CASE PopInbound(s)
  <2>1. PopMove(s)
    BY <1>2 DEF PopInbound, PopMove, HandsOf, listVars, historyVars
  <2> QED
    BY <2>1 DEF SenderMove
<1>3. CASE PopNothing(s) \/ CheckStop(s) \/ Sweep(s) \/ GateAllowed(s) \/ Retry(s)
  <2>1. /\ UNCHANGED <<tasks, sendq, task, kq, pushed, finished, callbacks>>
        /\ \/ /\ pc[s] \in {"poll", "wait", "tail", "last", "check", "sweep"}
              /\ \E b \in {"check", "sweep", "exited", "tail", "last", "loop"} :
                    pc' = [pc EXCEPT ![s] = b]
           \/ /\ pc[s] \in {"gate", "send"}
              /\ \E b \in {"gate", "send"} : pc' = [pc EXCEPT ![s] = b]
    BY <1>3 DEF PopNothing, CheckStop, Sweep, GateAllowed, Retry, listVars, historyVars
  <2> QED
    BY <2>1 DEF NothingMoves, Trying
<1>4. CASE PushTask(s)
  <2>1. /\ pc[s] = "push" /\ HandsOf(s, "loop") /\ task'[s] = None
        /\ UNCHANGED <<sendq, finished>>
    BY <1>4 DEF PushTask, HandsOf
  <2>2. \/ /\ tasks' = [tasks EXCEPT ![KeyOf[task[s]]] = Append(@, task[s])]
           /\ pushed' = [pushed EXCEPT ![KeyOf[task[s]]] = Append(@, task[s])]
           /\ UNCHANGED callbacks
        \/ /\ callbacks' = [callbacks EXCEPT ![task[s]] = @ + 1]
           /\ UNCHANGED <<tasks, pushed>>
    BY <1>4 DEF PushTask
  <2>3. PushMove(s) \/ RefuseMove(s)
    BY <2>1, <2>2 DEF PushMove, RefuseMove
  <2> QED
    BY <2>3 DEF SenderMove
<1>5. CASE GateDenied(s)
  <2>1. ReturnMove(s)
    BY <1>5 DEF GateDenied, PushFront, ReturnMove, HandsOf, historyVars
  <2> QED
    BY <2>1 DEF SenderMove
<1>6. CASE InvalidPayload(s) \/ \E ok \in BOOLEAN : Complete(s, ok)
  <2>1. EndMove(s)
    BY <1>6 DEF InvalidPayload, Complete, EndMove, HandsOf, Trying, listVars
  <2> QED
    BY <2>1 DEF SenderMove
<1>7. CASE Finish(s)
  <2>1. /\ pc[s] = "finish" /\ pc' = [pc EXCEPT ![s] = "loop"]
        /\ kq' = [kq EXCEPT ![s] = None]
        /\ UNCHANGED <<tasks, sendq, task, pushed, finished, callbacks>>
    BY <1>7 DEF Finish, historyVars
  <2> QED
    BY <2>1 DEF NothingMoves, Trying
<1> QED
  BY <1>1, <1>2, <1>3, <1>4, <1>5, <1>6, <1>7 DEF SenderStep

\* So does every step.
LEMMA StepMoves ==
  ASSUME Inv, [Next]_vars
  PROVE  Moves
<1>1. CASE \E s \in Senders : SenderStep(s)
  BY <1>1, SenderMoves DEF Moves
<1>2. CASE \E t \in Tasks : Fresh(t) /\ Inbound(t)
  <2>1. PICK t \in Tasks : Fresh(t) /\ Inbound(t)
    BY <1>2
  <2>2. EnterMove(t)
    BY <2>1 DEF Inbound, EnterMove, listVars, senderVars, historyVars
  <2> QED
    BY <2>2 DEF Moves
<1>3. CASE \E t \in Tasks : Fresh(t) /\ DropTask(t)
  <2>1. PICK t \in Tasks : Fresh(t) /\ DropTask(t)
    BY <1>3
  <2>2. DropMove(t)
    BY <2>1 DEF DropTask, DropMove, listVars, senderVars
  <2> QED
    BY <2>2 DEF Moves
<1>4. CASE (\E k \in Keys : Reserve(k)) \/ Tick \/ Stop \/ StopSendQueue \/ UNCHANGED vars
  <2>1. UNCHANGED <<tasks, sendq, task, pc, kq, pushed, finished, callbacks>>
    BY <1>4 DEF Reserve, Tick, Stop, StopSendQueue, vars, listVars, senderVars, historyVars
  <2> QED
    BY <2>1 DEF Moves, NothingMoves, Trying
<1> QED
  BY <1>1, <1>2, <1>3, <1>4 DEF Next

\* The task in the hands of a key queue's sender, of which there is one.
HeldExact ==
  /\ \A s \in Senders : Trying(s) => Held(kq[s]) = <<task[s]>>
  /\ \A k \in Keys : (\A s \in Senders : Trying(s) => kq[s] # k) => Held(k) = <<>>

\* Which task is in hand for a key follows from who owns its queue.
LEMMA HeldIsExact == Inv => HeldExact
<1> SUFFICES ASSUME Inv PROVE HeldExact
  OBVIOUS
<1>1. ASSUME NEW s \in Senders, Trying(s)
      PROVE  Held(kq[s]) = <<task[s]>>
  <2> DEFINE S == {u \in Senders : pc[u] \in {"gate", "send"} /\ kq[u] = kq[s]}
  <2>1. S = {s}
    BY <1>1 DEF Inv, OneSenderPerKey, Owning, Trying
  <2>2. (CHOOSE u \in S : TRUE) = s
    BY <2>1
  <2> QED
    BY <2>1, <2>2 DEF Held
<1>2. ASSUME NEW k \in Keys, \A s \in Senders : Trying(s) => kq[s] # k
      PROVE  Held(k) = <<>>
  BY <1>2 DEF Held, Trying
<1> QED
  BY <1>1, <1>2 DEF HeldExact

\* The same of the next state.
LEMMA HeldIsExactNext == Inv' => HeldExact'
BY HeldIsExact, PTL

\* What a key queue's sender holds stays while its hands do.
LEMMA HeldKept ==
  ASSUME HeldExact, HeldExact', NEW k \in Keys,
         \A u \in Senders :
           /\ Trying(u) /\ kq[u] = k <=> Trying(u)' /\ kq'[u] = k
           /\ Trying(u) /\ kq[u] = k => task'[u] = task[u]
  PROVE  Held(k)' = Held(k)
<1>1. CASE \E s \in Senders : Trying(s) /\ kq[s] = k
  <2>1. PICK s \in Senders : Trying(s) /\ kq[s] = k
    BY <1>1
  <2>2. Trying(s)' /\ kq'[s] = k /\ task'[s] = task[s]
    BY <2>1
  <2>3. Held(k) = <<task[s]>>
    BY <2>1 DEF HeldExact
  <2>4. Held(k)' = <<task'[s]>>
    BY <2>2 DEF HeldExact
  <2> QED
    BY <2>2, <2>3, <2>4
<1>2. CASE ~\E s \in Senders : Trying(s) /\ kq[s] = k
  <2>1. Held(k) = <<>>
    BY <1>2 DEF HeldExact
  <2>2. Held(k)' = <<>>
    BY <1>2 DEF HeldExact
  <2> QED
    BY <2>1, <2>2
<1> QED
  BY <1>1, <1>2

\* The types of what KeyFifo is about.
LEMMA FifoTypes ==
  ASSUME Inv, HeldExact, NEW k \in Keys
  PROVE  /\ finished[k] \in Seq(Tasks) /\ tasks[k] \in Seq(Tasks) /\ pushed[k] \in Seq(Tasks)
         /\ Held(k) \in Seq(Tasks)
<1>1. finished[k] \in Seq(Tasks) /\ tasks[k] \in Seq(Tasks) /\ pushed[k] \in Seq(Tasks)
  BY DEF Inv, TypeOK, ListTypes, HistoryTypes
<1>2. CASE \E s \in Senders : Trying(s) /\ kq[s] = k
  <2>1. PICK s \in Senders : Trying(s) /\ kq[s] = k
    BY <1>2
  <2>2. task[s] \in Tasks /\ Held(k) = <<task[s]>>
    BY <2>1 DEF HeldExact, Inv, SenderOK, Trying
  <2> QED
    BY <1>1, <2>2
<1>3. CASE ~\E s \in Senders : Trying(s) /\ kq[s] = k
  <2>1. Held(k) = <<>>
    BY <1>3 DEF HeldExact
  <2> QED
    BY <1>1, <2>1
<1> QED
  BY <1>2, <1>3

\* One sender at a time is at a task of a key.
LEMMA OneTrying ==
  ASSUME Inv, NEW s \in Senders, NEW u \in Senders, Trying(s), Trying(u), kq[s] = kq[u]
  PROVE  s = u
BY DEF Inv, OneSenderPerKey, Owning, Trying

\* The FIFO of a key through every move of a task.
LEMMA FifoNext ==
  ASSUME Inv, Inv', KeyFifo, Moves
  PROVE  KeyFifo'
<1>1. HeldExact /\ HeldExact'
  BY HeldIsExact, HeldIsExactNext
<1>2. SUFFICES ASSUME NEW k \in Keys
               PROVE  pushed'[k] = finished'[k] \o Held(k)' \o tasks'[k]
  BY DEF KeyFifo
<1>3. /\ pushed[k] = finished[k] \o Held(k) \o tasks[k]
      /\ finished[k] \in Seq(Tasks) /\ tasks[k] \in Seq(Tasks) /\ pushed[k] \in Seq(Tasks)
      /\ Held(k) \in Seq(Tasks)
  BY <1>1, FifoTypes DEF KeyFifo
<1>t. /\ pc \in [Senders -> Places] /\ tasks \in [Keys -> Seq(Tasks)]
      /\ pushed \in [Keys -> Seq(Tasks)] /\ finished \in [Keys -> Seq(Tasks)]
      /\ KeyOf \in [Tasks -> Keys]
  BY ConstantFacts DEF Inv, TypeOK, ListTypes, SenderTypes, HistoryTypes
<1>4. CASE NothingMoves
  <2>1. Held(k)' = Held(k)
    BY <1>1, <1>4, HeldKept DEF NothingMoves
  <2> QED
    BY <1>3, <1>4, <2>1 DEF NothingMoves
<1>5. ASSUME NEW s \in Senders, NEW b \in Places, HandsOf(s, b), ~Trying(s), b \notin {"gate", "send"}
      PROVE  Held(k)' = Held(k)
  <2>1. pc'[s] = b /\ \A u \in Senders : u # s => pc'[u] = pc[u] /\ task'[u] = task[u] /\ kq'[u] = kq[u]
    BY <1>5, <1>t DEF HandsOf
  <2> QED
    BY <1>1, <1>5, <2>1, HeldKept DEF Trying
<1>6. ASSUME NEW s \in Senders, NEW j \in Keys, TakeMove(s, j)
      PROVE  pushed'[k] = finished'[k] \o Held(k)' \o tasks'[k]
  <2>1. /\ pc[s] = "loop" /\ pc'[s] = "gate" /\ kq'[s] = j /\ task'[s] = Head(tasks[j])
        /\ \A u \in Senders : u # s => pc'[u] = pc[u] /\ task'[u] = task[u] /\ kq'[u] = kq[u]
    BY <1>6, <1>t DEF TakeMove, HandsOf
  <2>2. \A u \in Senders : Trying(u) => kq[u] # j
    BY <1>6 DEF TakeMove, Inv, OneSenderPerKey, Owning, Trying
  <2>3. CASE k = j
    <3>1. Held(k) = <<>>
      BY <1>1, <2>2, <2>3 DEF HeldExact
    <3>2. Held(k)' = <<Head(tasks[k])>>
      BY <1>1, <2>1, <2>3 DEF HeldExact, Trying
    <3>3. tasks[k] # <<>> /\ tasks'[k] = Tail(tasks[k])
      BY <1>6, <1>t, <2>3 DEF TakeMove
    <3>4. finished[k] \o <<>> \o tasks[k] = finished[k] \o <<Head(tasks[k])>> \o Tail(tasks[k])
      BY <1>3, <3>3, TakePiece, Zenon
    <3> QED
      BY <1>3, <1>6, <3>1, <3>2, <3>3, <3>4 DEF TakeMove
  <2>4. CASE k # j
    <3>1. Held(k)' = Held(k)
      BY <1>1, <2>1, <2>4, HeldKept DEF Trying
    <3>2. tasks'[k] = tasks[k]
      BY <1>6, <1>t, <2>4 DEF TakeMove
    <3> QED
      BY <1>3, <1>6, <3>1, <3>2 DEF TakeMove
  <2> QED
    BY <2>3, <2>4
<1>7. ASSUME NEW s \in Senders, PopMove(s) \/ RefuseMove(s)
      PROVE  pushed'[k] = finished'[k] \o Held(k)' \o tasks'[k]
  <2>1. Held(k)' = Held(k)
    BY <1>5, <1>7 DEF PopMove, RefuseMove, Trying, Places
  <2> QED
    BY <1>3, <1>7, <2>1 DEF PopMove, RefuseMove
<1>8. ASSUME NEW s \in Senders, PushMove(s)
      PROVE  pushed'[k] = finished'[k] \o Held(k)' \o tasks'[k]
  <2>1. Held(k)' = Held(k)
    BY <1>5, <1>8 DEF PushMove, Trying, Places
  <2>2. task[s] \in Tasks /\ KeyOf[task[s]] \in Keys
    BY <1>8, <1>t DEF PushMove, Inv, SenderOK
  <2>3. CASE k = KeyOf[task[s]]
    <3>1. /\ tasks'[k] = Append(tasks[k], task[s]) /\ pushed'[k] = Append(pushed[k], task[s])
          /\ finished' = finished
      BY <1>8, <1>t, <2>2, <2>3 DEF PushMove
    <3>2. Append(finished[k] \o Held(k) \o tasks[k], task[s])
            = finished[k] \o Held(k) \o Append(tasks[k], task[s])
      BY <1>3, <2>2, JoinPieces, Zenon
    <3> QED
      BY <1>3, <2>1, <3>1, <3>2
  <2>4. CASE k # KeyOf[task[s]]
    <3>1. tasks'[k] = tasks[k] /\ pushed'[k] = pushed[k] /\ finished' = finished
      BY <1>8, <1>t, <2>2, <2>4 DEF PushMove
    <3> QED
      BY <1>3, <2>1, <3>1
  <2> QED
    BY <2>3, <2>4
<1>9. ASSUME NEW s \in Senders, ReturnMove(s) \/ EndMove(s)
      PROVE  pushed'[k] = finished'[k] \o Held(k)' \o tasks'[k]
  <2>1. /\ Trying(s) /\ ~Trying(s)' /\ task[s] \in Tasks /\ kq[s] \in Keys
        /\ \A u \in Senders : u # s => pc'[u] = pc[u] /\ task'[u] = task[u] /\ kq'[u] = kq[u]
    BY <1>9, <1>t DEF ReturnMove, EndMove, HandsOf, Trying, Inv, SenderOK, Owning
  <2>2. CASE k = kq[s]
    <3>1. Held(k) = <<task[s]>>
      BY <1>1, <2>1, <2>2 DEF HeldExact
    <3>2. \A u \in Senders : Trying(u)' => kq'[u] # k
      BY <2>1, <2>2, OneTrying DEF Trying
    <3>3. Held(k)' = <<>>
      BY <1>1, <3>2 DEF HeldExact
    <3>5. CASE ReturnMove(s)
      <4>1. tasks'[k] = <<task[s]>> \o tasks[k] /\ finished' = finished /\ pushed' = pushed
        BY <1>t, <2>1, <2>2, <3>5 DEF ReturnMove
      <4>2. finished[k] \o <<>> \o (<<task[s]>> \o tasks[k]) = finished[k] \o <<task[s]>> \o tasks[k]
        BY <1>3, <2>1, ReturnPiece, Zenon
      <4> QED
        BY <1>3, <3>1, <3>3, <4>1, <4>2
    <3>6. CASE EndMove(s)
      <4>1. finished'[k] = Append(finished[k], task[s]) /\ tasks' = tasks /\ pushed' = pushed
        BY <1>t, <2>1, <2>2, <3>6 DEF EndMove
      <4>2. Append(finished[k], task[s]) \o <<>> \o tasks[k] = finished[k] \o <<task[s]>> \o tasks[k]
        BY <1>3, <2>1, EndPiece, Zenon
      <4> QED
        BY <1>3, <3>1, <3>3, <4>1, <4>2
    <3> QED
      BY <1>9, <3>5, <3>6
  <2>3. CASE k # kq[s]
    <3>1. Held(k)' = Held(k)
      BY <1>1, <2>1, <2>3, HeldKept DEF Trying
    <3>2. tasks'[k] = tasks[k] /\ finished'[k] = finished[k] /\ pushed' = pushed
      BY <1>9, <1>t, <2>1, <2>3 DEF ReturnMove, EndMove
    <3> QED
      BY <1>3, <3>1, <3>2
  <2> QED
    BY <2>2, <2>3
<1>10. ASSUME NEW t \in Tasks, EnterMove(t) \/ DropMove(t)
       PROVE  pushed'[k] = finished'[k] \o Held(k)' \o tasks'[k]
  <2>1. Held(k)' = Held(k)
    BY <1>1, <1>10, HeldKept DEF EnterMove, DropMove, Trying
  <2> QED
    BY <1>3, <1>10, <2>1 DEF EnterMove, DropMove
<1> QED
  BY <1>4, <1>6, <1>7, <1>8, <1>9, <1>10 DEF Moves, SenderMove

-----------------------------------------------------------------------------
(* Every task is in one place.                                             *)

\* A sender that is not at a task has none.
HandsFree == \A s \in Senders : pc[s] \notin {"push", "gate", "send"} => task[s] = None

\* A key queue is given tasks of its own key, each once, and those that it
\* has finished are the ones that had their callback.
PushedOnce ==
  \A k \in Keys :
    /\ NoRepeat(pushed[k])
    /\ \A t \in Elems(pushed[k]) :
         /\ KeyOf[t] = k
         /\ callbacks[t] = IF t \in Elems(finished[k]) THEN 1 ELSE 0

\* A task in the send queue is nowhere else.
SendqOnce ==
  /\ NoRepeat(sendq)
  /\ \A t \in Elems(sendq) :
       /\ callbacks[t] = 0 /\ t \notin Elems(pushed[KeyOf[t]])
       /\ \A s \in Senders : task[s] # t

\* Neither is the task a sender takes from the send queue to its key queue.
PushOnce ==
  \A s \in Senders : pc[s] = "push" =>
    /\ callbacks[task[s]] = 0 /\ task[s] \notin Elems(pushed[KeyOf[task[s]]])
    /\ \A u \in Senders : task[u] = task[s] => u = s

CallbackOnce == \A t \in Tasks : callbacks[t] \leq 1

\* The inductive invariant about the places of the tasks.
OnceInv ==
  /\ Inv /\ KeyFifo
  /\ HandsFree /\ PushedOnce /\ SendqOnce /\ PushOnce /\ CallbackOnce

\* What a key queue finished, its sender holds and it still has was given to
\* it; and these are different tasks.
LEMMA FifoParts ==
  ASSUME Inv, KeyFifo, NEW k \in Keys
  PROVE  /\ Elems(finished[k]) \subseteq Elems(pushed[k])
         /\ Elems(tasks[k]) \subseteq Elems(pushed[k])
         /\ \A s \in Senders : Trying(s) /\ kq[s] = k => task[s] \in Elems(pushed[k])
         /\ NoRepeat(pushed[k]) =>
              /\ Elems(finished[k]) \cap Elems(tasks[k]) = {}
              /\ \A s \in Senders : Trying(s) /\ kq[s] = k =>
                   task[s] \notin Elems(finished[k]) \cup Elems(tasks[k])
<1>1. HeldExact
  BY HeldIsExact
<1>2. /\ finished[k] \in Seq(Tasks) /\ tasks[k] \in Seq(Tasks) /\ Held(k) \in Seq(Tasks)
      /\ pushed[k] = finished[k] \o Held(k) \o tasks[k]
  BY <1>1, FifoTypes DEF KeyFifo
<1>3. /\ Elems(pushed[k]) = Elems(finished[k]) \cup Elems(Held(k)) \cup Elems(tasks[k])
      /\ NoRepeat(pushed[k]) => /\ Elems(finished[k]) \cap Elems(Held(k)) = {}
                                /\ Elems(finished[k]) \cap Elems(tasks[k]) = {}
                                /\ Elems(Held(k)) \cap Elems(tasks[k]) = {}
  <2> DEFINE w == finished[k] \o Held(k) \o tasks[k]
  <2>1. /\ Elems(w) = Elems(finished[k]) \cup Elems(Held(k)) \cup Elems(tasks[k])
        /\ NoRepeat(w) => /\ Elems(finished[k]) \cap Elems(Held(k)) = {}
                          /\ Elems(finished[k]) \cap Elems(tasks[k]) = {}
                          /\ Elems(Held(k)) \cap Elems(tasks[k]) = {}
    BY <1>2, PiecesApart
  <2>2. pushed[k] = w
    BY <1>2
  <2> HIDE DEF w
  <2> QED
    BY <2>1, <2>2
<1>4. ASSUME NEW s \in Senders, Trying(s), kq[s] = k
      PROVE  task[s] \in Elems(Held(k))
  <2>1. Held(k) = <<task[s]>>
    BY <1>1, <1>4 DEF HeldExact
  <2> QED
    BY <2>1 DEF Elems
<1> QED
  BY <1>3, <1>4

\* The task of a sender was given to the key queue it owns, if it is at it.
LEMMA TriedTask ==
  ASSUME OnceInv, NEW s \in Senders, Trying(s)
  PROVE  /\ task[s] \in Tasks /\ kq[s] \in Keys /\ KeyOf[task[s]] = kq[s]
         /\ task[s] \in Elems(pushed[kq[s]]) /\ callbacks[task[s]] = 0
<1>1. kq[s] \in Keys /\ task[s] \in Tasks
  BY DEF OnceInv, Inv, SenderOK, Trying, Owning
<1>2. task[s] \in Elems(pushed[kq[s]]) /\ task[s] \notin Elems(finished[kq[s]])
  BY <1>1, FifoParts DEF OnceInv, PushedOnce
<1> QED
  BY <1>1, <1>2 DEF OnceInv, PushedOnce

\* No two senders have the same task.
LEMMA TaskHolders ==
  ASSUME OnceInv, NEW s \in Senders, NEW u \in Senders, task[s] = task[u], task[s] # None
  PROVE  s = u
<1>1. \/ pc[s] = "push" \/ Trying(s)
  BY DEF OnceInv, HandsFree, Trying
<1>2. \/ pc[u] = "push" \/ Trying(u)
  BY DEF OnceInv, HandsFree, Trying
<1>3. CASE pc[s] = "push" \/ pc[u] = "push"
  BY <1>3 DEF OnceInv, PushOnce
<1>4. CASE Trying(s) /\ Trying(u)
  BY <1>4, TriedTask, OneTrying DEF OnceInv
<1> QED
  BY <1>1, <1>2, <1>3, <1>4

\* The conjuncts of the invariant in the next state, with the primes at the
\* variables.
LEMMA OnceIntro ==
  ASSUME /\ \A s \in Senders : pc'[s] \notin {"push", "gate", "send"} => task'[s] = None
         /\ \A k \in Keys :
              /\ NoRepeat(pushed'[k])
              /\ \A t \in Elems(pushed'[k]) :
                   /\ KeyOf[t] = k
                   /\ callbacks'[t] = IF t \in Elems(finished'[k]) THEN 1 ELSE 0
         /\ NoRepeat(sendq')
         /\ \A t \in Elems(sendq') :
              /\ callbacks'[t] = 0 /\ t \notin Elems(pushed'[KeyOf[t]])
              /\ \A s \in Senders : task'[s] # t
         /\ \A s \in Senders : pc'[s] = "push" =>
              /\ callbacks'[task'[s]] = 0 /\ task'[s] \notin Elems(pushed'[KeyOf[task'[s]]])
              /\ \A u \in Senders : task'[u] = task'[s] => u = s
         /\ \A t \in Tasks : callbacks'[t] \leq 1
  PROVE  HandsFree' /\ PushedOnce' /\ SendqOnce' /\ PushOnce' /\ CallbackOnce'
<1>1. HandsFree' /\ CallbackOnce'
  BY DEF HandsFree, CallbackOnce
<1>2. PushedOnce'
  BY DEF PushedOnce, NoRepeat, Elems
<1>3. SendqOnce'
  BY DEF SendqOnce, NoRepeat, Elems
<1>4. PushOnce'
  BY DEF PushOnce, Elems
<1> QED
  BY <1>1, <1>2, <1>3, <1>4

\* Moves between a key queue and its sender.
LEMMA OnceTakeReturn ==
  ASSUME OnceInv, NEW s \in Senders, ReturnMove(s) \/ \E k \in Keys : TakeMove(s, k)
  PROVE  HandsFree' /\ PushedOnce' /\ SendqOnce' /\ PushOnce' /\ CallbackOnce'
<1>1. /\ UNCHANGED <<sendq, pushed, finished, callbacks>>
      /\ pc'[s] # "push" /\ pc[s] # "push"
      /\ \A u \in Senders : u # s => pc'[u] = pc[u] /\ task'[u] = task[u]
  BY DEF ReturnMove, TakeMove, HandsOf, OnceInv, Inv, TypeOK, SenderTypes
<1>2. \/ task'[s] = None /\ pc'[s] = "loop"
      \/ pc'[s] = "gate" /\ task'[s] \in Tasks /\ task'[s] \in Elems(pushed[KeyOf[task'[s]]])
  <2>1. CASE ReturnMove(s)
    BY <2>1 DEF ReturnMove, HandsOf, OnceInv, Inv, TypeOK, SenderTypes
  <2>2. ASSUME NEW k \in Keys, TakeMove(s, k)
        PROVE  /\ pc'[s] = "gate" /\ task'[s] \in Tasks
               /\ task'[s] \in Elems(pushed[KeyOf[task'[s]]])
    <3>1. /\ tasks[k] # <<>> /\ task'[s] = Head(tasks[k]) /\ tasks[k] \in Seq(Tasks)
          /\ pc'[s] = "gate"
      BY <2>2 DEF TakeMove, HandsOf, OnceInv, Inv, TypeOK, SenderTypes, ListTypes
    <3>2. task'[s] \in Tasks /\ task'[s] \in Elems(tasks[k])
      BY <3>1, TailFacts
    <3>3. task'[s] \in Elems(pushed[k])
      BY <3>2, FifoParts DEF OnceInv
    <3> QED
      BY <3>1, <3>2, <3>3 DEF OnceInv, PushedOnce
  <2> QED
    BY <2>1, <2>2
<1>3. None \notin Tasks /\ Elems(sendq) \subseteq Tasks
  BY ConstantFacts DEF OnceInv, Inv, TypeOK, ListTypes, Elems
<1>4. \A u \in Senders : pc[u] = "push" => task[u] \in Tasks
  BY DEF OnceInv, Inv, SenderOK
<1> USE DEF OnceInv, HandsFree, PushedOnce, SendqOnce, PushOnce, CallbackOnce
<1>5. \A u \in Senders : pc'[u] \notin {"push", "gate", "send"} => task'[u] = None
  BY <1>1, <1>2
<1>6. \A k \in Keys :
        /\ NoRepeat(pushed'[k])
        /\ \A t \in Elems(pushed'[k]) :
             /\ KeyOf[t] = k
             /\ callbacks'[t] = IF t \in Elems(finished'[k]) THEN 1 ELSE 0
  BY <1>1
<1>7. \A t \in Elems(sendq') :
        /\ callbacks'[t] = 0 /\ t \notin Elems(pushed'[KeyOf[t]])
        /\ \A u \in Senders : task'[u] # t
  BY <1>1, <1>2, <1>3
<1>8. \A u \in Senders : pc'[u] = "push" =>
        /\ callbacks'[task'[u]] = 0 /\ task'[u] \notin Elems(pushed'[KeyOf[task'[u]]])
        /\ \A v \in Senders : task'[v] = task'[u] => v = u
  BY <1>1, <1>2, <1>3, <1>4
<1>9. NoRepeat(sendq') /\ \A t \in Tasks : callbacks'[t] \leq 1
  BY <1>1
<1> QED
  BY <1>5, <1>6, <1>7, <1>8, <1>9, OnceIntro

\* A task goes from the send queue to a sender.
LEMMA OncePop ==
  ASSUME OnceInv, NEW s \in Senders, PopMove(s)
  PROVE  HandsFree' /\ PushedOnce' /\ SendqOnce' /\ PushOnce' /\ CallbackOnce'
<1>1. /\ UNCHANGED <<pushed, finished, callbacks>>
      /\ pc'[s] = "push" /\ sendq # <<>> /\ sendq' = Tail(sendq) /\ task'[s] = Head(sendq)
      /\ \A u \in Senders : u # s => pc'[u] = pc[u] /\ task'[u] = task[u]
  BY DEF PopMove, HandsOf, OnceInv, Inv, TypeOK, SenderTypes
<1>2. /\ task'[s] \in Elems(sendq) /\ NoRepeat(sendq')
      /\ Elems(sendq') = Elems(sendq) \ {task'[s]}
  BY <1>1, TailFacts DEF OnceInv, SendqOnce, Inv, TypeOK, ListTypes
<1> USE DEF OnceInv, HandsFree, PushedOnce, SendqOnce, PushOnce, CallbackOnce
<1>5. \A u \in Senders : pc'[u] \notin {"push", "gate", "send"} => task'[u] = None
  BY <1>1
<1>6. \A k \in Keys :
        /\ NoRepeat(pushed'[k])
        /\ \A t \in Elems(pushed'[k]) :
             /\ KeyOf[t] = k
             /\ callbacks'[t] = IF t \in Elems(finished'[k]) THEN 1 ELSE 0
  BY <1>1
<1>7. \A t \in Elems(sendq') :
        /\ callbacks'[t] = 0 /\ t \notin Elems(pushed'[KeyOf[t]])
        /\ \A u \in Senders : task'[u] # t
  BY <1>1, <1>2
<1>8. \A u \in Senders : pc'[u] = "push" =>
        /\ callbacks'[task'[u]] = 0 /\ task'[u] \notin Elems(pushed'[KeyOf[task'[u]]])
        /\ \A v \in Senders : task'[v] = task'[u] => v = u
  BY <1>1, <1>2
<1>9. \A t \in Tasks : callbacks'[t] \leq 1
  BY <1>1
<1> QED
  BY <1>2, <1>5, <1>6, <1>7, <1>8, <1>9, OnceIntro

\* A task is given to its key queue.
LEMMA OncePush ==
  ASSUME OnceInv, NEW s \in Senders, PushMove(s)
  PROVE  HandsFree' /\ PushedOnce' /\ SendqOnce' /\ PushOnce' /\ CallbackOnce'
<1> DEFINE t == task[s]
           j == KeyOf[task[s]]
<1>1. /\ UNCHANGED <<sendq, finished, callbacks>>
      /\ pc[s] = "push" /\ pc'[s] = "loop" /\ task'[s] = None
      /\ pushed' = [pushed EXCEPT ![j] = Append(@, t)]
      /\ \A u \in Senders : u # s => pc'[u] = pc[u] /\ task'[u] = task[u]
  BY DEF PushMove, HandsOf, OnceInv, Inv, TypeOK, SenderTypes
<1>2. /\ t \in Tasks /\ j \in Keys /\ callbacks[t] = 0 /\ t \notin Elems(pushed[j])
      /\ \A u \in Senders : task[u] = t => u = s
  BY <1>1, ConstantFacts DEF OnceInv, PushOnce, Inv, SenderOK
<1>3. /\ NoRepeat(pushed'[j]) /\ Elems(pushed'[j]) = Elems(pushed[j]) \cup {t}
      /\ \A k \in Keys : k # j => pushed'[k] = pushed[k]
  <2>1. pushed \in [Keys -> Seq(Tasks)] /\ NoRepeat(pushed[j])
    BY <1>2 DEF OnceInv, Inv, TypeOK, HistoryTypes, PushedOnce
  <2>2. pushed[j] \in Seq(Tasks) /\ pushed'[j] = Append(pushed[j], t)
    BY <1>1, <1>2, <2>1
  <2>3. NoRepeat(pushed'[j]) /\ Elems(pushed'[j]) = Elems(pushed[j]) \cup {t}
    BY <1>2, <2>1, <2>2, AppendFacts
  <2> QED
    BY <1>1, <2>1, <2>3
<1>4. t \notin Elems(finished[j])
  BY <1>2, FifoParts DEF OnceInv
<1>n. None \notin Tasks /\ Elems(sendq) \subseteq Tasks
  BY ConstantFacts DEF OnceInv, Inv, TypeOK, ListTypes, Elems
<1>o. \A u \in Senders : pc[u] = "push" => task[u] \in Tasks /\ KeyOf[task[u]] \in Keys
  BY ConstantFacts DEF OnceInv, Inv, SenderOK
<1>p. \A u \in Elems(sendq) : KeyOf[u] \in Keys
  BY <1>n, ConstantFacts
<1> HIDE DEF t, j
<1> USE DEF OnceInv, HandsFree, PushedOnce, SendqOnce, PushOnce, CallbackOnce
<1>5. \A u \in Senders : pc'[u] \notin {"push", "gate", "send"} => task'[u] = None
  BY <1>1
<1>6. \A k \in Keys :
        /\ NoRepeat(pushed'[k])
        /\ \A x \in Elems(pushed'[k]) :
             /\ KeyOf[x] = k
             /\ callbacks'[x] = IF x \in Elems(finished'[k]) THEN 1 ELSE 0
  BY <1>1, <1>2, <1>3, <1>4 DEF t, j
<1>7. \A x \in Elems(sendq') :
        /\ callbacks'[x] = 0 /\ x \notin Elems(pushed'[KeyOf[x]])
        /\ \A u \in Senders : task'[u] # x
  <2>1. SUFFICES ASSUME NEW x \in Elems(sendq)
                 PROVE  /\ callbacks'[x] = 0 /\ x \notin Elems(pushed'[KeyOf[x]])
                        /\ \A u \in Senders : task'[u] # x
    BY <1>1
  <2>2. x # t
    BY DEF t
  <2> QED
    BY <1>1, <1>2, <1>3, <1>n, <1>p, <2>2
<1>8. \A u \in Senders : pc'[u] = "push" =>
        /\ callbacks'[task'[u]] = 0 /\ task'[u] \notin Elems(pushed'[KeyOf[task'[u]]])
        /\ \A v \in Senders : task'[v] = task'[u] => v = u
  <2>1. SUFFICES ASSUME NEW u \in Senders, pc'[u] = "push"
                 PROVE  /\ callbacks'[task'[u]] = 0
                        /\ task'[u] \notin Elems(pushed'[KeyOf[task'[u]]])
                        /\ \A v \in Senders : task'[v] = task'[u] => v = u
    OBVIOUS
  <2>2. /\ u # s /\ task'[u] = task[u] /\ pc[u] = "push" /\ task[u] # t
        /\ task[u] \in Tasks /\ KeyOf[task[u]] \in Keys
    BY <1>1, <1>2, <1>o, <2>1
  <2> QED
    BY <1>1, <1>3, <1>n, <2>2
<1>9. NoRepeat(sendq') /\ \A x \in Tasks : callbacks'[x] \leq 1
  BY <1>1
<1> QED
  BY <1>5, <1>6, <1>7, <1>8, <1>9, OnceIntro

\* A task comes to its end in the hands of a sender.
LEMMA OnceEnd ==
  ASSUME OnceInv, NEW s \in Senders, RefuseMove(s) \/ EndMove(s)
  PROVE  HandsFree' /\ PushedOnce' /\ SendqOnce' /\ PushOnce' /\ CallbackOnce'
<1> DEFINE t == task[s]
           j == KeyOf[task[s]]
<1>1. /\ UNCHANGED <<sendq, pushed>>
      /\ pc[s] \in {"push", "gate", "send"} /\ pc'[s] \in {"loop", "finish"} /\ task'[s] = None
      /\ callbacks' = [callbacks EXCEPT ![t] = @ + 1]
      /\ \A u \in Senders : u # s => pc'[u] = pc[u] /\ task'[u] = task[u]
  BY DEF RefuseMove, EndMove, Trying, HandsOf, OnceInv, Inv, TypeOK, SenderTypes
<1>2. t \in Tasks /\ j \in Keys /\ callbacks[t] = 0
  BY <1>1, ConstantFacts, TriedTask DEF OnceInv, PushOnce, Inv, SenderOK, Trying
<1>3. \A u \in Senders : task[u] = t => u = s
  BY <1>2, ConstantFacts, TaskHolders
<1>4. callbacks'[t] = 1 /\ \A x \in Tasks : x # t => callbacks'[x] = callbacks[x]
  BY <1>1, <1>2 DEF OnceInv, Inv, TypeOK, HistoryTypes
<1>5. /\ \A k \in Keys : Elems(finished'[k]) \ {t} = Elems(finished[k]) \ {t}
      /\ t \in Elems(pushed[j]) => t \in Elems(finished'[j])
  <2>1. CASE RefuseMove(s)
    <3>1. finished' = finished /\ t \notin Elems(pushed[j])
      BY <2>1 DEF RefuseMove, OnceInv, PushOnce
    <3> QED
      BY <3>1
  <2>2. CASE EndMove(s)
    <3>1. /\ kq[s] = j /\ finished' = [finished EXCEPT ![j] = Append(@, t)]
          /\ finished \in [Keys -> Seq(Tasks)]
      BY <2>2, TriedTask DEF EndMove, OnceInv, Inv, TypeOK, HistoryTypes
    <3>2. finished[j] \in Seq(Tasks) /\ finished'[j] = Append(finished[j], t)
      BY <1>2, <3>1
    <3>3. Elems(finished'[j]) = Elems(finished[j]) \cup {t}
      BY <1>2, <3>2, AppendFacts
    <3>4. \A k \in Keys : k # j => finished'[k] = finished[k]
      BY <1>2, <3>1
    <3> QED
      BY <3>3, <3>4
  <2> QED
    BY <2>1, <2>2
<1>n. None \notin Tasks /\ Elems(sendq) \subseteq Tasks /\ \A k \in Keys : Elems(pushed[k]) \subseteq Tasks
  BY ConstantFacts DEF OnceInv, Inv, TypeOK, ListTypes, HistoryTypes, Elems
<1>o. \A u \in Senders : pc[u] = "push" => task[u] \in Tasks
  BY DEF OnceInv, Inv, SenderOK
<1>6. t \notin Elems(sendq)
  BY DEF OnceInv, SendqOnce
<1>7. \A k \in Keys : t \in Elems(pushed[k]) => k = j
  BY DEF OnceInv, PushedOnce
<1> HIDE DEF t, j
<1> USE DEF OnceInv, HandsFree, PushedOnce, SendqOnce, PushOnce, CallbackOnce
<1>8. \A u \in Senders : pc'[u] \notin {"push", "gate", "send"} => task'[u] = None
  BY <1>1
<1>9. \A k \in Keys :
        /\ NoRepeat(pushed'[k])
        /\ \A x \in Elems(pushed'[k]) :
             /\ KeyOf[x] = k
             /\ callbacks'[x] = IF x \in Elems(finished'[k]) THEN 1 ELSE 0
  <2>1. SUFFICES ASSUME NEW k \in Keys, NEW x \in Elems(pushed[k])
                 PROVE  callbacks'[x] = IF x \in Elems(finished'[k]) THEN 1 ELSE 0
    BY <1>1
  <2>2. x \in Tasks /\ callbacks[x] = IF x \in Elems(finished[k]) THEN 1 ELSE 0
    BY <1>n
  <2>3. CASE x = t
    BY <1>4, <1>5, <1>7, <2>1, <2>3
  <2>4. CASE x # t
    BY <1>4, <1>5, <2>2, <2>4
  <2> QED
    BY <2>3, <2>4
<1>10. \A x \in Elems(sendq') :
         /\ callbacks'[x] = 0 /\ x \notin Elems(pushed'[KeyOf[x]])
         /\ \A u \in Senders : task'[u] # x
  BY <1>1, <1>4, <1>6, <1>n
<1>11. \A u \in Senders : pc'[u] = "push" =>
         /\ callbacks'[task'[u]] = 0 /\ task'[u] \notin Elems(pushed'[KeyOf[task'[u]]])
         /\ \A v \in Senders : task'[v] = task'[u] => v = u
  <2>1. SUFFICES ASSUME NEW u \in Senders, pc'[u] = "push"
                 PROVE  /\ callbacks'[task'[u]] = 0
                        /\ task'[u] \notin Elems(pushed'[KeyOf[task'[u]]])
                        /\ \A v \in Senders : task'[v] = task'[u] => v = u
    OBVIOUS
  <2>2. /\ u # s /\ task'[u] = task[u] /\ pc[u] = "push" /\ task[u] # t
        /\ task[u] \in Tasks
    BY <1>1, <1>3, <1>o, <2>1
  <2> QED
    BY <1>1, <1>4, <1>n, <2>2
<1>12. NoRepeat(sendq') /\ \A x \in Tasks : callbacks'[x] \leq 1
  BY <1>1, <1>4
<1> QED
  BY <1>8, <1>9, <1>10, <1>11, <1>12, OnceIntro

\* A new task, and no task at all.
LEMMA OnceEnter ==
  ASSUME OnceInv, NothingMoves \/ \E t \in Tasks : EnterMove(t) \/ DropMove(t)
  PROVE  HandsFree' /\ PushedOnce' /\ SendqOnce' /\ PushOnce' /\ CallbackOnce'
<1>n. None \notin Tasks /\ Elems(sendq) \subseteq Tasks /\ \A k \in Keys : Elems(pushed[k]) \subseteq Tasks
  BY ConstantFacts DEF OnceInv, Inv, TypeOK, ListTypes, HistoryTypes, Elems
<1>o. \A u \in Senders : pc[u] = "push" => task[u] \in Tasks
  BY DEF OnceInv, Inv, SenderOK
<1>1. CASE NothingMoves
  <2>1. /\ UNCHANGED <<sendq, task, pushed, finished, callbacks>>
        /\ \A u \in Senders : /\ pc'[u] = "push" <=> pc[u] = "push"
                              /\ pc'[u] \in {"gate", "send"} <=> pc[u] \in {"gate", "send"}
    BY <1>1 DEF NothingMoves, Trying
  <2> QED
    BY <2>1 DEF OnceInv, HandsFree, PushedOnce, SendqOnce, PushOnce, CallbackOnce, NoRepeat, Elems
<1>2. ASSUME NEW t \in Tasks, EnterMove(t)
      PROVE  HandsFree' /\ PushedOnce' /\ SendqOnce' /\ PushOnce' /\ CallbackOnce'
  <2>1. /\ UNCHANGED <<pc, task, pushed, finished, callbacks>>
        /\ callbacks[t] = 0 /\ t \notin Elems(sendq) /\ t \notin Elems(pushed[KeyOf[t]])
        /\ \A u \in Senders : task[u] # t
    BY <1>2 DEF EnterMove, Fresh
  <2>2. Elems(sendq') = Elems(sendq) \cup {t} /\ NoRepeat(sendq')
    BY <1>2, <2>1, AppendFacts DEF EnterMove, OnceInv, SendqOnce, Inv, TypeOK, ListTypes
  <2>3. HandsFree' /\ PushedOnce' /\ PushOnce' /\ CallbackOnce'
    BY <2>1 DEF OnceInv, HandsFree, PushedOnce, PushOnce, CallbackOnce, NoRepeat, Elems
  <2>4. SendqOnce'
    <3>1. /\ NoRepeat(sendq')
          /\ \A x \in Elems(sendq') :
               /\ callbacks'[x] = 0 /\ x \notin Elems(pushed'[KeyOf[x]])
               /\ \A s \in Senders : task'[s] # x
      BY <2>1, <2>2 DEF OnceInv, SendqOnce
    <3> QED
      BY <3>1 DEF SendqOnce, Elems, NoRepeat
  <2> QED
    BY <2>3, <2>4
<1>3. ASSUME NEW t \in Tasks, DropMove(t)
      PROVE  HandsFree' /\ PushedOnce' /\ SendqOnce' /\ PushOnce' /\ CallbackOnce'
  <2>1. /\ UNCHANGED <<pc, task, sendq, pushed, finished>>
        /\ callbacks[t] = 0 /\ t \notin Elems(sendq) /\ t \notin Elems(pushed[KeyOf[t]])
        /\ \A u \in Senders : task[u] # t
    BY <1>3 DEF DropMove, Fresh
  <2>2. callbacks'[t] = 1 /\ \A x \in Tasks : x # t => callbacks'[x] = callbacks[x]
    BY <1>3, <2>1 DEF DropMove, OnceInv, Inv, TypeOK, HistoryTypes
  <2>3. \A k \in Keys : t \notin Elems(pushed[k])
    BY <2>1 DEF OnceInv, PushedOnce
  <2> USE DEF OnceInv, HandsFree, PushedOnce, SendqOnce, PushOnce, CallbackOnce
  <2>4. \A u \in Senders : pc'[u] \notin {"push", "gate", "send"} => task'[u] = None
    BY <2>1
  <2>5. \A k \in Keys :
          /\ NoRepeat(pushed'[k])
          /\ \A x \in Elems(pushed'[k]) :
               /\ KeyOf[x] = k
               /\ callbacks'[x] = IF x \in Elems(finished'[k]) THEN 1 ELSE 0
    BY <1>n, <2>1, <2>2, <2>3
  <2>6. /\ NoRepeat(sendq')
        /\ \A x \in Elems(sendq') :
             /\ callbacks'[x] = 0 /\ x \notin Elems(pushed'[KeyOf[x]])
             /\ \A s \in Senders : task'[s] # x
    BY <1>n, <2>1, <2>2
  <2>7. \A s \in Senders : pc'[s] = "push" =>
          /\ callbacks'[task'[s]] = 0 /\ task'[s] \notin Elems(pushed'[KeyOf[task'[s]]])
          /\ \A u \in Senders : task'[u] = task'[s] => u = s
    BY <1>o, <2>1, <2>2
  <2>8. \A x \in Tasks : callbacks'[x] \leq 1
    BY <2>2
  <2> QED
    BY <2>4, <2>5, <2>6, <2>7, <2>8, OnceIntro
<1> QED
  BY <1>1, <1>2, <1>3

\* Every step keeps the tasks in their one place.
LEMMA OnceNext ==
  ASSUME OnceInv, [Next]_vars
  PROVE  OnceInv'
<1>1. Inv' /\ Moves
  BY NextInv, StepMoves DEF OnceInv
<1>2. KeyFifo'
  BY <1>1, FifoNext DEF OnceInv
<1>3. HandsFree' /\ PushedOnce' /\ SendqOnce' /\ PushOnce' /\ CallbackOnce'
  BY <1>1, OnceTakeReturn, OncePop, OncePush, OnceEnd, OnceEnter DEF Moves, SenderMove
<1> QED
  BY <1>1, <1>2, <1>3 DEF OnceInv

\* At the start there are no tasks.
LEMMA OnceInit ==
  ASSUME Init
  PROVE  OnceInv
<1>1. Inv
  BY InitInv
<1>2. KeyFifo
  <2>1. \A k \in Keys : Held(k) = <<>>
    BY DEF Held, Init
  <2> QED
    BY <2>1 DEF KeyFifo, Init
<1>3. HandsFree /\ CallbackOnce
  BY DEF Init, HandsFree, CallbackOnce
<1>4. PushedOnce /\ SendqOnce /\ PushOnce
  BY DEF Init, PushedOnce, SendqOnce, PushOnce, NoRepeat, Elems
<1> QED
  BY <1>1, <1>2, <1>3, <1>4 DEF OnceInv

\* Every task is in one place, in every reachable state.
THEOREM OnceInvariance == Spec => []OnceInv
BY OnceInit, OnceNext, PTL DEF Spec

\* A key queue is a FIFO through retries, denials and requeues.
THEOREM KeyFifoCorrect == Spec => []KeyFifo
<1>1. OnceInv => KeyFifo
  BY DEF OnceInv
<1> QED
  BY <1>1, OnceInvariance, PTL

-----------------------------------------------------------------------------
(* Requests are counted.                                                   *)

\* Without a key rate limit the attempt counter of a sender is the number of
\* requests made for its task: a task is denied before its first request or
\* not at all, as the breaker of a key in flight does not open.
AttemptsExact ==
  /\ \A s \in Senders : Trying(s) =>
       /\ tries[task[s]] = attempt[s]
       /\ FailThreshold > 0 /\ (pc[s] = "send" \/ attempt[s] > 0) => open[kq[s]] = 0
  /\ \A t \in Tasks :
       callbacks[t] = 0 /\ (\A s \in Senders : Trying(s) => task[s] # t) => tries[t] = 0
  /\ \A t \in Tasks : tries[t] \leq MaxAttempts

\* No request is made and no task is taken, returned or ended.
Calm ==
  /\ UNCHANGED <<tries, attempt>>
  /\ \A u \in Senders :
       /\ Trying(u)' <=> Trying(u)
       /\ Trying(u) => pc'[u] = pc[u] /\ task'[u] = task[u] /\ kq'[u] = kq[u]
  /\ \A k \in Keys : open[k] = 0 => open'[k] = 0
  /\ \A t \in Tasks : callbacks'[t] = 0 => callbacks[t] = 0

\* A calm step leaves the attempts and the requests counted so far alone.
LEMMA CalmAttempts ==
  ASSUME OnceInv, AttemptsExact, Calm
  PROVE  AttemptsExact'
<1>1. \A s \in Senders : Trying(s) => kq[s] \in Keys /\ task[s] \in Tasks
  BY TriedTask
<1>2. ASSUME NEW s \in Senders, Trying(s)'
      PROVE  /\ tries'[task'[s]] = attempt'[s]
             /\ FailThreshold > 0 /\ (pc'[s] = "send" \/ attempt'[s] > 0) => open'[kq'[s]] = 0
  BY <1>1, <1>2 DEF Calm, AttemptsExact
<1>3. ASSUME NEW t \in Tasks, callbacks'[t] = 0, \A s \in Senders : Trying(s)' => task'[s] # t
      PROVE  tries'[t] = 0
  BY <1>3 DEF AttemptsExact, Calm
<1>4. \A t \in Tasks : tries'[t] \leq MaxAttempts
  BY DEF AttemptsExact, Calm
<1> QED
  BY <1>2, <1>3, <1>4 DEF AttemptsExact

\* Most steps are calm.
LEMMA CalmSteps ==
  ASSUME Inv,
         \/ \E k \in Keys : Reserve(k)
         \/ \E t \in Tasks : Inbound(t) \/ DropTask(t)
         \/ Tick \/ Stop \/ StopSendQueue \/ UNCHANGED vars
         \/ \E s \in Senders : \/ PopInbound(s) \/ PopNothing(s) \/ PushTask(s)
                               \/ CheckStop(s) \/ Sweep(s) \/ Finish(s)
                               \/ Take(s) /\ pc'[s] # "gate"
  PROVE  Calm
<1> USE DEF Inv, TypeOK, SenderTypes, HistoryTypes, ClockTypes
<1>1. UNCHANGED <<tries, attempt>>
  <2>1. CASE \E s \in Senders : Take(s) /\ pc'[s] # "gate"
    BY <2>1 DEF Take, historyVars
  <2> QED
    BY <2>1 DEF Reserve, Inbound, DropTask, Tick, Stop, StopSendQueue, vars, PopInbound,
                PopNothing, PushTask, CheckStop, Sweep, Finish, senderVars, historyVars
<1>2. \A u \in Senders :
        /\ Trying(u)' <=> Trying(u)
        /\ Trying(u) => pc'[u] = pc[u] /\ task'[u] = task[u] /\ kq'[u] = kq[u]
  <2>1. CASE UNCHANGED <<pc, kq, task>>
    BY <2>1 DEF Trying
  <2>2. ASSUME NEW s \in Senders, ~Trying(s), ~Trying(s)',
               \A u \in Senders : u # s => pc'[u] = pc[u] /\ task'[u] = task[u] /\ kq'[u] = kq[u]
        PROVE  \A u \in Senders :
                 /\ Trying(u)' <=> Trying(u)
                 /\ Trying(u) => pc'[u] = pc[u] /\ task'[u] = task[u] /\ kq'[u] = kq[u]
    BY <2>2 DEF Trying
  <2>3. ASSUME NEW s \in Senders,
               \/ PopInbound(s) \/ PopNothing(s) \/ PushTask(s)
               \/ CheckStop(s) \/ Sweep(s) \/ Finish(s)
        PROVE  /\ ~Trying(s) /\ ~Trying(s)'
               /\ \A u \in Senders : u # s => pc'[u] = pc[u] /\ task'[u] = task[u] /\ kq'[u] = kq[u]
    BY <2>3 DEF Trying, PopInbound, PopNothing, PushTask, CheckStop, Sweep, Finish
  <2>4. ASSUME NEW s \in Senders, Take(s), pc'[s] # "gate"
        PROVE  /\ ~Trying(s) /\ ~Trying(s)'
               /\ \A u \in Senders : u # s => pc'[u] = pc[u] /\ task'[u] = task[u] /\ kq'[u] = kq[u]
    <3>1. pc[s] = "loop" /\ \E b \in {"wait", "poll"} : pc' = [pc EXCEPT ![s] = b] /\ UNCHANGED <<kq, task>>
      BY <2>4 DEF Take
    <3> QED
      BY <3>1 DEF Trying
  <2>5. \/ UNCHANGED <<pc, kq, task>>
        \/ \E s \in Senders : \/ PopInbound(s) \/ PopNothing(s) \/ PushTask(s)
                              \/ CheckStop(s) \/ Sweep(s) \/ Finish(s)
                              \/ Take(s) /\ pc'[s] # "gate"
    BY DEF Reserve, Inbound, DropTask, Tick, Stop, StopSendQueue, vars, senderVars
  <2> QED
    BY <2>1, <2>2, <2>3, <2>4, <2>5
<1>3. \A k \in Keys : open[k] = 0 => open'[k] = 0
  <2>1. CASE Tick
    BY <2>1 DEF Tick, Down
  <2>2. ASSUME NEW K, RemoveAndFree(K)
        PROVE  \A k \in Keys : open[k] = 0 => open'[k] = 0
    BY <2>2 DEF RemoveAndFree
  <2>3. \/ Tick \/ open' = open \/ \E K \in SUBSET Keys : RemoveAndFree(K)
    <3>1. CASE \E s \in Senders : Sweep(s)
      <4>1. {k \in idle : tasks[k] = <<>> /\ k \notin inflight /\ age[k] >= IdleTtl} \in SUBSET Keys
        BY DEF ListTypes
      <4> QED
        BY <3>1, <4>1 DEF Sweep, IdleCleanup, breakerVars
    <3>2. CASE \E s \in Senders : Finish(s)
      <4>1. PICK s \in Senders : Finish(s)
        BY <3>2
      <4>2. {kq[s]} \in SUBSET Keys
        BY <4>1 DEF Finish, SenderOK, Owning
      <4> QED
        BY <4>1, <4>2 DEF Finish, breakerVars
    <3>3. CASE \E s \in Senders : Take(s)
      BY <3>3 DEF Take, breakerVars
    <3> QED
      BY <3>1, <3>2, <3>3
      DEF Reserve, Inbound, DropTask, Stop, StopSendQueue, vars, PopInbound,
          PopNothing, PushTask, CheckStop, breakerVars
  <2> QED
    BY <2>1, <2>2, <2>3
<1>4. \A t \in Tasks : callbacks'[t] = 0 => callbacks[t] = 0
  <2>1. callbacks' = callbacks \/ \E t \in Tasks : callbacks' = [callbacks EXCEPT ![t] = @ + 1]
    <3>1. ASSUME NEW s \in Senders, PushTask(s)
          PROVE  callbacks' = callbacks \/ \E t \in Tasks : callbacks' = [callbacks EXCEPT ![t] = @ + 1]
      <4>1. task[s] \in Tasks
        BY <3>1 DEF PushTask, SenderOK
      <4> QED
        BY <3>1, <4>1 DEF PushTask
    <3>2. CASE \E s \in Senders : Take(s)
      BY <3>2 DEF Take, historyVars
    <3> QED
      BY <3>1, <3>2
      DEF Reserve, Inbound, DropTask, Tick, Stop, StopSendQueue, vars, PopInbound,
          PopNothing, CheckStop, Sweep, Finish, historyVars
  <2> QED
    BY <2>1
<1> QED
  BY <1>1, <1>2, <1>3, <1>4 DEF Calm

\* The steps of a sender with a task.
LEMMA TryingAttempts ==
  ASSUME OnceInv, OnceInv', AttemptsExact, RateDelay = 0, NEW s \in Senders,
         \/ Take(s) /\ pc'[s] = "gate"
         \/ InvalidPayload(s) \/ GateDenied(s) \/ GateAllowed(s) \/ Retry(s)
         \/ \E ok \in BOOLEAN : Complete(s, ok)
  PROVE  AttemptsExact'
<1> USE ConstantFacts
<1>t. /\ pc \in [Senders -> Places] /\ kq \in [Senders -> Keys \cup {None}]
      /\ task \in [Senders -> Tasks \cup {None}] /\ attempt \in [Senders -> 0..MaxAttempts]
      /\ tries \in [Tasks -> 0..(MaxAttempts + 1)] /\ callbacks \in [Tasks -> Nat]
      /\ open \in [Keys -> 0..OpenMs]
  BY DEF OnceInv, Inv, TypeOK, SenderTypes, HistoryTypes, ClockTypes
<1>h. \A u \in Senders : Trying(u) => kq[u] \in Keys /\ task[u] \in Tasks /\ callbacks[task[u]] = 0
  BY TriedTask
<1>o. \A u \in Senders : Trying(u) /\ u # s => task[u] # task[s]
  BY <1>h, TaskHolders
<1>1. CASE Take(s) /\ pc'[s] = "gate"
  <2>1. /\ attempt' = [attempt EXCEPT ![s] = 0]
        /\ UNCHANGED <<open, tries>>
    BY <1>1, <1>t DEF Take, breakerVars, historyVars
  <2>2. \E k \in Keys : TakeMove(s, k)
    <3>1. NothingMoves \/ SenderMove(s)
      BY <1>1, SenderMoves DEF OnceInv, SenderStep
    <3>2. pc[s] = "loop"
      BY <1>1 DEF Take
    <3> QED
      BY <1>1, <3>1, <3>2, <1>t
      DEF NothingMoves, SenderMove, PopMove, PushMove, RefuseMove, ReturnMove, EndMove, Trying
  <2>3. PICK k \in Keys : TakeMove(s, k)
    BY <2>2
  <2>4. /\ UNCHANGED callbacks /\ ~Trying(s) /\ tasks[k] # <<>> /\ task'[s] = Head(tasks[k]) /\ kq'[s] = k
        /\ \A u \in Senders : u # s => pc'[u] = pc[u] /\ task'[u] = task[u] /\ kq'[u] = kq[u]
    BY <2>3, <1>t DEF TakeMove, HandsOf, Trying
  <2>5. task'[s] \in Tasks /\ task'[s] \in Elems(tasks[k])
    BY <2>4, TailFacts DEF OnceInv, Inv, TypeOK, ListTypes
  <2>6. task'[s] \in Elems(pushed[k]) /\ task'[s] \notin Elems(finished[k]) /\ callbacks[task'[s]] = 0
    BY <2>5, FifoParts DEF OnceInv, PushedOnce
  <2>7. \A u \in Senders : Trying(u) => task[u] # task'[s]
    <3>1. SUFFICES ASSUME NEW u \in Senders, Trying(u), task[u] = task'[s]
                   PROVE  FALSE
      OBVIOUS
    <3>2. kq[u] = k
      BY <2>6, <3>1, TriedTask DEF OnceInv, PushedOnce
    <3> QED
      BY <2>5, <3>1, <3>2, FifoParts DEF OnceInv, PushedOnce
  <2>8. tries[task'[s]] = 0
    BY <2>5, <2>6, <2>7 DEF AttemptsExact
  <2>9. ASSUME NEW u \in Senders, Trying(u)'
        PROVE  /\ tries'[task'[u]] = attempt'[u]
               /\ FailThreshold > 0 /\ (pc'[u] = "send" \/ attempt'[u] > 0) => open'[kq'[u]] = 0
    <3>1. CASE u = s
      BY <1>1, <1>t, <2>1, <2>8, <3>1
    <3>2. CASE u # s
      BY <1>t, <2>1, <2>4, <2>9, <3>2 DEF AttemptsExact, Trying
    <3> QED
      BY <3>1, <3>2
  <2>10. ASSUME NEW t \in Tasks, callbacks'[t] = 0, \A u \in Senders : Trying(u)' => task'[u] # t
         PROVE  tries'[t] = 0
    BY <2>1, <2>4, <2>10 DEF AttemptsExact, Trying
  <2>11. \A t \in Tasks : tries'[t] \leq MaxAttempts
    BY <2>1 DEF AttemptsExact
  <2> QED
    BY <2>9, <2>10, <2>11 DEF AttemptsExact
<1>2. CASE GateAllowed(s)
  <2>1. /\ pc[s] = "gate" /\ pc' = [pc EXCEPT ![s] = "send"] /\ Trying(s)
        /\ attempt' = [attempt EXCEPT ![s] = @ + 1]
        /\ tries' = [tries EXCEPT ![task[s]] = AtMost(@ + 1, MaxAttempts + 1)]
        /\ UNCHANGED <<open, kq, task, callbacks>>
        /\ FailThreshold > 0 => open[kq[s]] = 0
    BY <1>2 DEF GateAllowed, KeyBreakerDelay, breakerVars, Trying
  <2>2. attempt[s] \in Nat /\ attempt[s] < MaxAttempts /\ task[s] \in Tasks /\ tries[task[s]] = attempt[s]
    BY <1>h, <1>t, <2>1 DEF OnceInv, Inv, SenderOK, AttemptsExact
  <2>3. /\ tries'[task[s]] = attempt[s] + 1
        /\ \A t \in Tasks : t # task[s] => tries'[t] = tries[t]
    BY <1>t, <2>1, <2>2 DEF AtMost
  <2>4. \A u \in Senders : Trying(u)' <=> Trying(u)
    BY <1>t, <2>1 DEF Trying
  <2>5. ASSUME NEW u \in Senders, Trying(u)'
        PROVE  /\ tries'[task'[u]] = attempt'[u]
               /\ FailThreshold > 0 /\ (pc'[u] = "send" \/ attempt'[u] > 0) => open'[kq'[u]] = 0
    <3>1. CASE u = s
      BY <1>t, <2>1, <2>3, <3>1
    <3>2. CASE u # s
      BY <1>h, <1>o, <1>t, <2>1, <2>3, <2>4, <2>5, <3>2 DEF AttemptsExact
    <3> QED
      BY <3>1, <3>2
  <2>6. ASSUME NEW t \in Tasks, callbacks'[t] = 0, \A u \in Senders : Trying(u)' => task'[u] # t
        PROVE  tries'[t] = 0
    BY <2>1, <2>3, <2>4, <2>6 DEF AttemptsExact
  <2>7. \A t \in Tasks : tries'[t] \leq MaxAttempts
    BY <2>2, <2>3 DEF AttemptsExact
  <2> QED
    BY <2>5, <2>6, <2>7 DEF AttemptsExact
<1>3. CASE Retry(s)
  <2>1. /\ pc[s] = "send" /\ pc' = [pc EXCEPT ![s] = "gate"] /\ Trying(s)
        /\ UNCHANGED <<attempt, tries, open, kq, task, callbacks>>
    BY <1>3 DEF Retry, breakerVars, historyVars, Trying
  <2>2. \A u \in Senders : Trying(u)' <=> Trying(u)
    BY <1>t, <2>1 DEF Trying
  <2>3. ASSUME NEW u \in Senders, Trying(u)'
        PROVE  /\ tries'[task'[u]] = attempt'[u]
               /\ FailThreshold > 0 /\ (pc'[u] = "send" \/ attempt'[u] > 0) => open'[kq'[u]] = 0
    BY <1>t, <2>1, <2>2, <2>3 DEF AttemptsExact
  <2>4. ASSUME NEW t \in Tasks, callbacks'[t] = 0, \A u \in Senders : Trying(u)' => task'[u] # t
        PROVE  tries'[t] = 0
    BY <2>1, <2>2, <2>4 DEF AttemptsExact
  <2> QED
    BY <2>1, <2>3, <2>4 DEF AttemptsExact
<1>4. CASE GateDenied(s)
  <2>1. /\ pc[s] = "gate" /\ pc' = [pc EXCEPT ![s] = "loop"] /\ Trying(s)
        /\ kq' = [kq EXCEPT ![s] = None] /\ task' = [task EXCEPT ![s] = None]
        /\ UNCHANGED <<attempt, tries, open, callbacks>>
    BY <1>4 DEF GateDenied, breakerVars, historyVars, Trying
  <2>2. FailThreshold > 0 /\ open[kq[s]] > 0
    <3>1. RateDelays = {0}
      BY DEF RateDelays
    <3>2. KeyBreakerDelay(kq[s]) > 0
      BY <1>4, <3>1 DEF GateDenied
    <3> QED
      BY <3>2 DEF KeyBreakerDelay
  <2>3. tries[task[s]] = 0
    BY <1>h, <1>t, <2>1, <2>2 DEF AttemptsExact
  <2>4. \A u \in Senders : Trying(u)' <=> Trying(u) /\ u # s
    BY <1>t, <2>1 DEF Trying
  <2>5. ASSUME NEW u \in Senders, Trying(u)'
        PROVE  /\ tries'[task'[u]] = attempt'[u]
               /\ FailThreshold > 0 /\ (pc'[u] = "send" \/ attempt'[u] > 0) => open'[kq'[u]] = 0
    BY <1>t, <2>1, <2>4, <2>5 DEF AttemptsExact
  <2>6. ASSUME NEW t \in Tasks, callbacks'[t] = 0, \A u \in Senders : Trying(u)' => task'[u] # t
        PROVE  tries'[t] = 0
    BY <1>t, <2>1, <2>3, <2>4, <2>6 DEF AttemptsExact
  <2> QED
    BY <2>1, <2>5, <2>6 DEF AttemptsExact
<1>5. CASE InvalidPayload(s) \/ \E ok \in BOOLEAN : Complete(s, ok)
  <2>1. /\ Trying(s) /\ pc' = [pc EXCEPT ![s] = "finish"]
        /\ task' = [task EXCEPT ![s] = None]
        /\ callbacks' = [callbacks EXCEPT ![task[s]] = @ + 1]
        /\ UNCHANGED <<attempt, tries, kq>>
    BY <1>5 DEF InvalidPayload, Complete, Trying
  <2>2. \A k \in Keys : k # kq[s] => open'[k] = open[k]
    BY <1>5, <1>t DEF InvalidPayload, Complete, KeyBreakerResult, breakerVars
  <2>3. \A u \in Senders : Trying(u)' <=> Trying(u) /\ u # s
    BY <1>t, <2>1 DEF Trying
  <2>4. \A u \in Senders : Trying(u) /\ u # s => kq[u] # kq[s]
    BY <2>1, OneTrying DEF OnceInv
  <2>5. ASSUME NEW u \in Senders, Trying(u)'
        PROVE  /\ tries'[task'[u]] = attempt'[u]
               /\ FailThreshold > 0 /\ (pc'[u] = "send" \/ attempt'[u] > 0) => open'[kq'[u]] = 0
    BY <1>h, <1>t, <2>1, <2>2, <2>3, <2>4, <2>5 DEF AttemptsExact
  <2>6. ASSUME NEW t \in Tasks, callbacks'[t] = 0, \A u \in Senders : Trying(u)' => task'[u] # t
        PROVE  tries'[t] = 0
    <3>1. t # task[s] /\ callbacks[t] = 0
      BY <1>h, <1>t, <2>1, <2>6
    <3> QED
      BY <1>t, <2>1, <2>3, <2>6, <3>1 DEF AttemptsExact
  <2> QED
    BY <2>1, <2>5, <2>6 DEF AttemptsExact
<1> QED
  BY <1>1, <1>2, <1>3, <1>4, <1>5

\* Every step keeps the count.
LEMMA AttemptsNext ==
  ASSUME OnceInv, AttemptsExact, RateDelay = 0, [Next]_vars
  PROVE  AttemptsExact'
<1>1. OnceInv'
  BY OnceNext
<1>2. CASE \E s \in Senders : \/ Take(s) /\ pc'[s] = "gate"
                              \/ InvalidPayload(s) \/ GateDenied(s) \/ GateAllowed(s) \/ Retry(s)
                              \/ \E ok \in BOOLEAN : Complete(s, ok)
  BY <1>1, <1>2, TryingAttempts
<1>3. CASE ~\E s \in Senders : \/ Take(s) /\ pc'[s] = "gate"
                               \/ InvalidPayload(s) \/ GateDenied(s) \/ GateAllowed(s) \/ Retry(s)
                               \/ \E ok \in BOOLEAN : Complete(s, ok)
  <2>1. Calm
    BY <1>3, CalmSteps DEF Next, SenderStep, OnceInv
  <2> QED
    BY <2>1, CalmAttempts
<1> QED
  BY <1>2, <1>3

\* The invariant with the count of the requests.
RequestInv == OnceInv /\ (RateDelay = 0 => AttemptsExact)

\* It says that a task with a callback is nowhere any more.
LEMMA RequestImplies == RequestInv => OneCallback
<1> SUFFICES ASSUME RequestInv, NEW t \in Tasks
             PROVE  /\ callbacks[t] \leq 1
                    /\ RateDelay = 0 => tries[t] \leq MaxAttempts
                    /\ callbacks[t] = 1 =>
                         /\ t \notin Elems(sendq) \cup Elems(tasks[KeyOf[t]])
                         /\ \A s \in Senders : task[s] # t
  BY DEF OneCallback
<1>1. callbacks[t] \leq 1 /\ (RateDelay = 0 => tries[t] \leq MaxAttempts)
  BY DEF RequestInv, OnceInv, CallbackOnce, AttemptsExact
<1>2. ASSUME callbacks[t] = 1
      PROVE  t \notin Elems(sendq) \cup Elems(tasks[KeyOf[t]])
  <2>1. t \notin Elems(sendq)
    BY <1>2 DEF RequestInv, OnceInv, SendqOnce
  <2>2. KeyOf[t] \in Keys
    BY ConstantFacts
  <2>3. t \in Elems(pushed[KeyOf[t]]) => t \in Elems(finished[KeyOf[t]])
    BY <1>2, <2>2 DEF RequestInv, OnceInv, PushedOnce
  <2>4. t \notin Elems(tasks[KeyOf[t]])
    BY <2>2, <2>3, FifoParts DEF RequestInv, OnceInv, PushedOnce
  <2> QED
    BY <2>1, <2>4
<1>3. ASSUME callbacks[t] = 1, NEW s \in Senders, task[s] = t
      PROVE  FALSE
  <2>1. pc[s] = "push" \/ Trying(s)
    BY <1>3, ConstantFacts DEF RequestInv, OnceInv, HandsFree, Trying
  <2> QED
    BY <1>3, <2>1, TriedTask DEF RequestInv, OnceInv, PushOnce
<1> QED
  BY <1>1, <1>2, <1>3

\* No task has its callback twice or while it is still on its way, and
\* max_attempts bounds the requests for each where no key rate limit is set.
THEOREM OneCallbackCorrect == Spec => []OneCallback
<1>1. Init => RequestInv
  <2>1. Init => AttemptsExact
    BY ConstantFacts DEF Init, AttemptsExact, Trying
  <2> QED
    BY <2>1, OnceInit DEF RequestInv
<1>2. RequestInv /\ [Next]_vars => RequestInv'
  BY OnceNext, AttemptsNext DEF RequestInv
<1> QED
  BY <1>1, <1>2, RequestImplies, PTL DEF Spec

-----------------------------------------------------------------------------
(* The senders do not leave work behind.                                   *)

\* A queue with work is found by the stop check.
LEMMA WorkIsPending ==
  ASSUME Inv, NEW k \in Keys, tasks[k] # <<>> \/ k \in inflight
  PROVE  Pending
BY DEF Inv, Placement, NoStrandedTask, Pending

\* The sender that serves is still there after a step, or another one is.
LEMMA ServesNext ==
  ASSUME Inv, SomeoneServes, [Next]_vars
  PROVE  SomeoneServes'
<1> DEFINE Gone == {"last", "exited"}
<1> USE DEF Inv, TypeOK, SenderTypes
<1>1. CASE \E s \in Senders : SenderStep(s)
  <2>1. PICK s \in Senders : SenderStep(s)
    BY <1>1
  <2>2. CASE pc'[s] \notin Gone
    BY <2>2 DEF SomeoneServes
  <2>3. CASE pc'[s] \in Gone
    <3>1. PopNothing(s) \/ CheckStop(s)
      <4>1. Take(s) => pc'[s] \notin Gone
        BY DEF Take
      <4>2. Sweep(s) \/ Finish(s) \/ PushTask(s) \/ PopInbound(s) => pc'[s] \notin Gone
        BY DEF Sweep, Finish, PushTask, PopInbound
      <4>3. InvalidPayload(s) \/ GateDenied(s) \/ GateAllowed(s) \/ Retry(s)
              \/ (\E ok \in BOOLEAN : Complete(s, ok)) => pc'[s] \notin Gone
        BY DEF InvalidPayload, GateDenied, GateAllowed, Retry, Complete
      <4> QED
        BY <2>1, <2>3, <4>1, <4>2, <4>3 DEF SenderStep
    <3>2. UNCHANGED <<tasks, inflight>> /\ \A u \in Senders : u # s => pc'[u] = pc[u]
      BY <3>1 DEF PopNothing, CheckStop, listVars
    <3>3. CASE \E k \in Keys : tasks[k] # <<>> \/ k \in inflight
      <4>1. Pending
        BY <3>3, WorkIsPending
      <4>2. pc[s] \in Gone
        BY <2>3, <3>1, <4>1 DEF PopNothing, CheckStop
      <4>3. PICK u \in Senders : pc[u] \notin Gone
        BY <3>3 DEF SomeoneServes
      <4>4. u # s /\ pc'[u] = pc[u]
        BY <3>2, <4>2, <4>3
      <4> QED
        BY <4>3, <4>4 DEF SomeoneServes
    <3>4. CASE ~\E k \in Keys : tasks[k] # <<>> \/ k \in inflight
      BY <3>2, <3>4 DEF SomeoneServes
    <3> QED
      BY <3>3, <3>4
  <2> QED
    BY <2>2, <2>3
<1>2. CASE ~\E s \in Senders : SenderStep(s)
  <2>1. UNCHANGED <<tasks, inflight, pc>>
    BY <1>2 DEF Next, Reserve, Inbound, DropTask, Tick, Stop, StopSendQueue, vars,
                listVars, senderVars
  <2> QED
    BY <2>1 DEF SomeoneServes
<1> QED
  BY <1>1, <1>2

\* While a key queue has work a sender is there for it: the senders do not all
\* leave in a stop on the strength of a check made before the work came.
THEOREM SomeoneServesCorrect == Spec => []SomeoneServes
<1>1. Init => SomeoneServes
  BY DEF Init, SomeoneServes
<1>2. Inv /\ SomeoneServes /\ [Next]_vars => SomeoneServes'
  BY ServesNext
<1> QED
  BY <1>1, <1>2, Invariance, PTL DEF Spec

-----------------------------------------------------------------------------
(* The key breaker holds for its whole period.                             *)

\* A queue is open at least as long as its breaker's period lasts, and is not
\* parked long enough to be freed, and forgotten, before that.
CoolInv ==
  \A k \in Keys :
    /\ FailThreshold = 0 => cool[k] = 0
    /\ cool[k] <= open[k]
    /\ k \in idle => cool[k] = 0 \/ cool[k] + age[k] <= IdleTtl

\* The steps that leave the periods alone and free no queue.
LEMMA CoolSame ==
  ASSUME CoolInv, UNCHANGED <<cool, open>>,
         \A k \in Keys : k \in idle' => k \in idle /\ age'[k] = age[k]
  PROVE  CoolInv'
BY DEF CoolInv

\* Every step keeps this, if the idle time is not shorter than the period.
LEMMA CoolNext ==
  ASSUME OpenMs <= IdleTtl, Inv, CoolInv, [Next]_vars
  PROVE  CoolInv'
<1>0. /\ cool \in [Keys -> 0..OpenMs] /\ open \in [Keys -> 0..OpenMs] /\ age \in [Keys -> 0..IdleTtl]
      /\ OpenMs \in Nat /\ IdleTtl \in Nat /\ IdleTtl > 0 /\ FailThreshold \in Nat
      /\ idle \subseteq Keys /\ fails \in [Keys -> 0..FailThreshold]
  BY ConstantFacts DEF Inv, TypeOK, HistoryTypes, ClockTypes, ListTypes
<1>1. ASSUME NEW s \in Senders, Finish(s)
      PROVE  CoolInv'
  <2>1. UNCHANGED <<cool, open>> /\ kq[s] \in Keys
    BY <1>0, <1>1 DEF Finish, historyVars, breakerVars, Inv, SenderOK, Owning
  <2>2. \/ UNCHANGED <<idle, age>>
        \/ idle' = idle \cup {kq[s]} /\ age' = [age EXCEPT ![kq[s]] = 0]
    BY <1>0, <1>1 DEF Finish, IdleAdd
  <2>3. ASSUME NEW k \in Keys, k \in idle'
        PROVE  cool[k] = 0 \/ cool[k] + age'[k] <= IdleTtl
    <3>1. CASE UNCHANGED <<idle, age>>
      BY <2>3, <3>1 DEF CoolInv
    <3>2. CASE idle' = idle \cup {kq[s]} /\ age' = [age EXCEPT ![kq[s]] = 0]
      <4>1. CASE k = kq[s]
        BY <1>0, <3>2, <4>1
      <4>2. CASE k # kq[s]
        BY <1>0, <2>3, <3>2, <4>2 DEF CoolInv
      <4> QED
        BY <4>1, <4>2
    <3> QED
      BY <2>2, <3>1, <3>2
  <2> QED
    BY <2>1, <2>3 DEF CoolInv
<1>2. ASSUME NEW s \in Senders, Sweep(s)
      PROVE  CoolInv'
  <2>1. cool' = cool
    BY <1>2 DEF Sweep, historyVars
  <2>2. CASE UNCHANGED <<active, idle, age, breakerVars>>
    BY <2>1, <2>2, CoolSame DEF breakerVars
  <2>3. CASE IdleCleanup
    <3> DEFINE K == {k \in idle : tasks[k] = <<>> /\ k \notin inflight /\ age[k] >= IdleTtl}
    <3>1. /\ idle' = idle \ K
          /\ \A k \in Keys : /\ age'[k] = IF k \in K THEN 0 ELSE age[k]
                             /\ open'[k] = IF k \in K THEN 0 ELSE open[k]
      BY <2>3 DEF IdleCleanup, RemoveAndFree
    <3>2. \A k \in K : k \in idle /\ age[k] >= IdleTtl
      OBVIOUS
    <3> HIDE DEF K
    <3>3. ASSUME NEW k \in Keys, k \in K
          PROVE  cool[k] = 0
      BY <1>0, <3>2, <3>3 DEF CoolInv
    <3>4. ASSUME NEW k \in Keys
          PROVE  /\ FailThreshold = 0 => cool'[k] = 0
                 /\ cool'[k] <= open'[k]
                 /\ k \in idle' => cool'[k] = 0 \/ cool'[k] + age'[k] <= IdleTtl
      <4>1. CASE k \in K
        BY <1>0, <2>1, <3>1, <3>3, <4>1
      <4>2. CASE k \notin K
        BY <2>1, <3>1, <4>2 DEF CoolInv
      <4> QED
        BY <4>1, <4>2
    <3> QED
      BY <3>4 DEF CoolInv
  <2> QED
    BY <1>2, <2>2, <2>3 DEF Sweep
<1>3. ASSUME NEW s \in Senders, NEW ok \in BOOLEAN, Complete(s, ok)
      PROVE  CoolInv'
  <2> DEFINE c == kq[s]
  <2> DEFINE f == AtMost(fails[c] + 1, FailThreshold)
  <2> DEFINE trip == ~ok /\ FailThreshold > 0 /\ f >= FailThreshold
  <2> DEFINE period(ms) == IF trip THEN OpenMs ELSE IF ok THEN 0 ELSE ms
  <2>1. /\ cool' = [cool EXCEPT ![c] = period(cool[c])]
        /\ open' = [open EXCEPT ![c] = period(open[c])]
        /\ UNCHANGED <<idle, age>>
    BY <1>3 DEF Complete, KeyBreakerResult, listVars
  <2>2. c \in Keys /\ c \notin idle
    BY <1>3 DEF Complete, Inv, SenderOK, Placement, OneSenderPerKey, Owning
  <2>3. trip => FailThreshold > 0
    OBVIOUS
  <2> HIDE DEF trip, c
  <2>4. \A k \in Keys : /\ k # c => cool'[k] = cool[k] /\ open'[k] = open[k]
                        /\ k = c => cool'[k] = period(cool[k]) /\ open'[k] = period(open[k])
    BY <1>0, <2>1, <2>2
  <2>5. ASSUME NEW k \in Keys
        PROVE  /\ FailThreshold = 0 => cool'[k] = 0
               /\ cool'[k] <= open'[k]
               /\ k \in idle' => cool'[k] = 0 \/ cool'[k] + age'[k] <= IdleTtl
    <3>1. CASE k = c
      BY <1>0, <2>1, <2>2, <2>3, <2>4, <3>1 DEF CoolInv
    <3>2. CASE k # c
      BY <2>1, <2>4, <3>2 DEF CoolInv
    <3> QED
      BY <3>1, <3>2
  <2> QED
    BY <2>5 DEF CoolInv
<1>4. CASE Tick
  <2>1. /\ idle' = idle
        /\ \A k \in Keys : /\ cool'[k] = Down(cool[k]) /\ open'[k] = Down(open[k])
                           /\ age'[k] = IF k \in idle THEN AtMost(age[k] + 1, IdleTtl) ELSE age[k]
    BY <1>4 DEF Tick
  <2>2. ASSUME NEW k \in Keys
        PROVE  /\ FailThreshold = 0 => cool'[k] = 0
               /\ cool'[k] <= open'[k]
               /\ k \in idle' => cool'[k] = 0 \/ cool'[k] + age'[k] <= IdleTtl
    <3>1. cool[k] \in Nat /\ open[k] \in Nat /\ age[k] \in Nat
      BY <1>0
    <3>2. /\ FailThreshold = 0 => cool[k] = 0
          /\ cool[k] <= open[k]
          /\ k \in idle => cool[k] = 0 \/ cool[k] + age[k] <= IdleTtl
      BY DEF CoolInv
    <3> QED
      BY <1>0, <2>1, <3>1, <3>2 DEF Down, AtMost
  <2> QED
    BY <2>2 DEF CoolInv
<1>5. ASSUME NEW s \in Senders,
             \/ Take(s) \/ PopInbound(s) \/ PopNothing(s) \/ CheckStop(s) \/ InvalidPayload(s)
             \/ GateDenied(s) \/ GateAllowed(s) \/ Retry(s)
      PROVE  CoolInv'
  <2>1. UNCHANGED <<cool, open, idle, age>>
    BY <1>5 DEF Take, PopInbound, PopNothing, CheckStop, InvalidPayload, GateDenied,
         GateAllowed, Retry, listVars, breakerVars, historyVars
  <2> QED
    BY <2>1, CoolSame
<1>6. ASSUME NEW s \in Senders, PushTask(s)
      PROVE  CoolInv'
  <2>1. UNCHANGED <<cool, open, age>> /\ idle' \subseteq idle
    BY <1>6 DEF PushTask, GetOrCreate, breakerVars
  <2> QED
    BY <2>1, CoolSame
<1>7. CASE \/ \E k \in Keys : Reserve(k)
           \/ \E t \in Tasks : Inbound(t) \/ DropTask(t)
           \/ Stop \/ StopSendQueue \/ UNCHANGED vars
  <2>1. UNCHANGED <<cool, open, age>> /\ idle' \subseteq idle
    BY <1>7 DEF Reserve, GetOrCreate, Inbound, DropTask, Stop, StopSendQueue, vars, listVars,
         breakerVars, historyVars
  <2> QED
    BY <2>1, CoolSame
<1> QED
  BY <1>1, <1>2, <1>3, <1>4, <1>5, <1>6, <1>7 DEF Next, SenderStep

\* A request is made where the gate lets it.
LEMMA SendsAtGate ==
  ASSUME Inv, [Next]_vars, NEW s \in Senders, pc[s] = "gate", pc'[s] = "send"
  PROVE  GateAllowed(s)
<1> USE DEF Inv, TypeOK, SenderTypes
<1>1. PICK u \in Senders : SenderStep(u)
  BY DEF Next, Reserve, Inbound, DropTask, Tick, Stop, StopSendQueue, vars, senderVars
<1>2. CASE Take(u) \/ PushTask(u) \/ PopInbound(u) \/ PopNothing(u) \/ CheckStop(u) \/ Sweep(u)
  BY <1>2 DEF Take, PushTask, PopInbound, PopNothing, CheckStop, Sweep
<1>3. CASE \/ InvalidPayload(u) \/ GateDenied(u) \/ GateAllowed(u) \/ Retry(u)
           \/ (\E ok \in BOOLEAN : Complete(u, ok)) \/ Finish(u)
  BY <1>3 DEF InvalidPayload, GateDenied, GateAllowed, Retry, Complete, Finish
<1> QED
  BY <1>1, <1>2, <1>3 DEF SenderStep

\* No request for a key is made before the open period of its breaker is over,
\* if an idle queue is kept for at least that period: otherwise the breaker may
\* be freed with its queue, and a new queue begins with a closed one.
THEOREM BreakerHolds ==
  ASSUME OpenMs <= IdleTtl
  PROVE  Spec => BreakerRespected
<1> DEFINE Respected == \A s \in Senders : pc[s] = "gate" /\ pc'[s] = "send" => cool[kq[s]] = 0
<1>1. Init => CoolInv
  BY ConstantFacts DEF Init, CoolInv
<1>2. Inv /\ CoolInv /\ [Next]_vars => CoolInv'
  BY CoolNext
<1>3. Inv /\ CoolInv /\ [Next]_vars => Respected
  <2> SUFFICES ASSUME Inv, CoolInv, [Next]_vars, NEW s \in Senders,
                      pc[s] = "gate", pc'[s] = "send"
               PROVE  cool[kq[s]] = 0
    OBVIOUS
  <2>1. KeyBreakerDelay(kq[s]) = 0 /\ kq[s] \in Keys
    BY SendsAtGate DEF GateAllowed, Inv, SenderOK, Owning
  <2>2. cool[kq[s]] \in Nat /\ FailThreshold \in Nat
    BY <2>1, ConstantFacts DEF Inv, TypeOK, HistoryTypes
  <2> QED
    BY <2>1, <2>2 DEF CoolInv, KeyBreakerDelay
<1> QED
  BY <1>1, <1>2, <1>3, Invariance, PTL DEF Spec, BreakerRespected
=============================================================================

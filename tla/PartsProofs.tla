----------------------------- MODULE PartsProofs ----------------------------
(***************************************************************************)
(* Proofs about the parts of the client outside the key queues: the short  *)
(* way of FastPath, for every set of senders and tasks, the credentials    *)
(* that the senders share, for every provider and every clock, the export  *)
(* and import of RawBuffer, for every set of keys, and the lock-free list  *)
(* of ObjPool, for every number of threads and objects.                    *)
(***************************************************************************)
EXTENDS FastPath, Credentials, RawBuffer, ObjPool, FiniteSetTheorems,
        SequenceTheorems, WellFoundedInduction, TLAPS

-----------------------------------------------------------------------------
(* The fast path: every task is in one place.                              *)

Lined(q) == {q[i] : i \in DOMAIN q}
Once(q) == \A i, j \in DOMAIN q : q[i] = q[j] => i = j

\* A task at the end of a queue.
LEMMA QueueAppend ==
  ASSUME NEW q \in Seq(FastTasks), NEW t \in FastTasks
  PROVE  /\ Append(q, t) \in Seq(FastTasks)
         /\ Lined(Append(q, t)) = Lined(q) \cup {t}
         /\ Once(q) /\ t \notin Lined(q) => Once(Append(q, t))
<1> DEFINE a == Append(q, t)
<1>1. /\ a \in Seq(FastTasks) /\ DOMAIN a = 1..(Len(q) + 1) /\ DOMAIN q = 1..Len(q)
      /\ Len(q) \in Nat /\ a[Len(q) + 1] = t /\ \A i \in 1..Len(q) : a[i] = q[i]
  OBVIOUS
<1> HIDE DEF a
<1>2. Lined(a) \subseteq Lined(q) \cup {t}
  BY <1>1 DEF Lined
<1>3. Lined(q) \subseteq Lined(a)
  BY <1>1 DEF Lined
<1>4. t \in Lined(a)
  BY <1>1 DEF Lined
<1>5. ASSUME Once(q), t \notin Lined(q)
      PROVE  Once(a)
  BY <1>1, <1>5 DEF Once, Lined
<1> QED
  BY <1>1, <1>2, <1>3, <1>4, <1>5 DEF a

\* The first task is taken from a queue.
LEMMA QueueTail ==
  ASSUME NEW q \in Seq(FastTasks), q # <<>>, Once(q)
  PROVE  /\ Head(q) \in FastTasks /\ Head(q) \in Lined(q)
         /\ Tail(q) \in Seq(FastTasks) /\ Once(Tail(q))
         /\ Lined(Tail(q)) = Lined(q) \ {Head(q)}
<1> DEFINE r == Tail(q)
<1>1. /\ r \in Seq(FastTasks) /\ DOMAIN r = 1..(Len(q) - 1) /\ DOMAIN q = 1..Len(q)
      /\ Len(q) \in Nat /\ Len(q) > 0 /\ Head(q) = q[1] /\ Head(q) \in FastTasks
      /\ \A i \in 1..(Len(q) - 1) : r[i] = q[i + 1]
  OBVIOUS
<1> HIDE DEF r
<1>2. Once(r)
  <2> SUFFICES ASSUME NEW i \in DOMAIN r, NEW j \in DOMAIN r, r[i] = r[j]
               PROVE  i = j
    BY DEF Once
  <2>1. i + 1 \in DOMAIN q /\ j + 1 \in DOMAIN q /\ q[i + 1] = q[j + 1]
    BY <1>1
  <2>2. i + 1 = j + 1
    BY <2>1 DEF Once
  <2> QED
    BY <1>1, <2>2
<1>3. Head(q) \in Lined(q)
  BY <1>1 DEF Lined
<1>4. ASSUME NEW x \in Lined(r)
      PROVE  x \in Lined(q) /\ x # Head(q)
  <2>1. PICK i \in 1..(Len(q) - 1) : x = r[i]
    BY <1>1 DEF Lined
  <2>2. i + 1 \in 1..Len(q) /\ x = q[i + 1] /\ i + 1 # 1 /\ 1 \in 1..Len(q)
    BY <1>1, <2>1
  <2> QED
    BY <1>1, <2>2 DEF Lined, Once
<1>5. ASSUME NEW x \in Lined(q), x # Head(q)
      PROVE  x \in Lined(r)
  <2>1. PICK i \in 1..Len(q) : x = q[i]
    BY <1>1 DEF Lined
  <2>2. i - 1 \in 1..(Len(q) - 1) /\ x = r[i - 1]
    BY <1>1, <1>5, <2>1
  <2> QED
    BY <1>1, <2>2 DEF Lined
<1> QED
  BY <1>1, <1>2, <1>3, <1>4, <1>5 DEF r

\* The senders that fast_inflight counts, and those whose task has not had
\* its callback.
Counted == {s \in FastSenders : fast[s].at \in {"send", "answer", "uncount"}}
Unanswered == {s \in FastSenders : fast[s].at \in {"count", "send", "answer"}}

FastTypes ==
  /\ unpushed \subseteq FastTasks /\ fastQueue \in Seq(FastTasks)
  /\ halted \in BOOLEAN
  /\ fast \in [FastSenders ->
                 [at : {"pop", "count", "send", "answer", "uncount", "exited"},
                  task : SUBSET FastTasks, tries : Nat]]
  /\ answers \in [FastTasks -> Nat]

\* A task is with a worker, in the queue, with one sender, or answered once.
PlaceOf(t) ==
  /\ t \in unpushed \/ t \in Lined(fastQueue) =>
       answers[t] = 0 /\ \A s \in FastSenders : t \notin fast[s].task
  /\ t \in unpushed => t \notin Lined(fastQueue)
  /\ \A s \in Unanswered : t \in fast[s].task => answers[t] = 0
  /\ \A s, u \in FastSenders : t \in fast[s].task /\ t \in fast[u].task => s = u
  /\ t \in unpushed \/ t \in Lined(fastQueue) \/ answers[t] = 1
       \/ \E s \in Unanswered : t \in fast[s].task
  /\ answers[t] <= 1

FastPlaces == Once(fastQueue) /\ \A t \in FastTasks : PlaceOf(t)

\* A sender leaves after the last task, and the close ends after the senders.
FastEnds ==
  /\ \A s \in FastSenders :
       /\ fast[s].at \in {"pop", "exited"} => fast[s].task = {}
       /\ fast[s].at = "exited" => halted /\ fastQueue = <<>>
  /\ closer = "ended" => unpushed = {} /\ \A s \in FastSenders : fast[s].at = "exited"

FastInv ==
  /\ FastTypes /\ FastPlaces /\ FastEnds
  /\ inflight = Cardinality(Counted)

\* The counter goes up and down with the senders it counts.
LEMMA CountedFacts ==
  ASSUME NEW C \in SUBSET FastSenders, NEW s \in FastSenders
  PROVE  /\ Cardinality(C) \in Nat
         /\ s \notin C => Cardinality(C \cup {s}) = Cardinality(C) + 1
         /\ s \in C => Cardinality(C \ {s}) = Cardinality(C) - 1
<1>1. IsFiniteSet(C)
  BY FastPathAssumption, FS_Subset
<1> QED
  BY <1>1, FS_CardinalityType, FS_AddElement, FS_RemoveElement

\* The beginning.
LEMMA FastInitInv == FastInit => FastInv
<1> SUFFICES ASSUME FastInit PROVE FastInv
  OBVIOUS
<1> USE DEF FastInit, FastIdle
<1>1. Counted = {} /\ Unanswered = {} /\ Cardinality({}) = 0
  BY FS_EmptySet DEF Counted, Unanswered
<1>2. FastTypes
  <2>1. fastQueue \in Seq(FastTasks)
    OBVIOUS
  <2> QED
    BY <2>1 DEF FastTypes
<1>3. Lined(fastQueue) = {} /\ Once(fastQueue)
  BY DEF Lined, Once
<1>4. FastPlaces /\ FastEnds
  BY <1>1, <1>3 DEF FastPlaces, PlaceOf, FastEnds
<1> QED
  BY <1>1, <1>2, <1>4 DEF FastInv

\* The workers' pushes and drops.
LEMMA FastWorkerInv ==
  ASSUME FastInv, NEW t \in FastTasks, FastPush(t) \/ FastRefused(t)
  PROVE  FastInv'
<1> USE DEF FastInv
<1>1. t \in unpushed /\ unpushed' = unpushed \ {t} /\ UNCHANGED <<halted, inflight, fast, closer>>
  BY DEF FastPush, FastRefused
<1>2. Counted' = Counted /\ Unanswered' = Unanswered /\ Unanswered \subseteq FastSenders
  BY <1>1 DEF Counted, Unanswered
<1>3. CASE FastPush(t)
  <2>1. /\ fastQueue' = Append(fastQueue, t) /\ answers' = answers /\ ~halted
        /\ fastQueue' \in Seq(FastTasks)
        /\ Lined(fastQueue') = Lined(fastQueue) \cup {t} /\ Once(fastQueue')
    BY <1>1, <1>3, QueueAppend DEF FastPush, FastTypes, FastPlaces, PlaceOf
  <2>2. FastTypes'
    BY <1>1, <2>1 DEF FastTypes
  <2>3. FastPlaces'
    <3>1. Lined(fastQueue)' = Lined(fastQueue) \cup {t} /\ Once(fastQueue)'
      BY <2>1 DEF Lined, Once
    <3>2. ASSUME NEW u \in FastTasks
          PROVE  PlaceOf(u)'
      <4>1. PlaceOf(u) /\ PlaceOf(t)
        BY DEF FastPlaces
      <4>2. CASE u = t
        BY <1>1, <1>2, <2>1, <3>1, <4>1, <4>2 DEF PlaceOf
      <4>3. CASE u # t
        BY <1>1, <1>2, <2>1, <3>1, <4>1, <4>3 DEF PlaceOf
      <4> QED
        BY <4>2, <4>3
    <3> QED
      BY <3>1, <3>2 DEF FastPlaces
  <2>4. FastEnds'
    BY <1>1, <2>1 DEF FastEnds
  <2> QED
    BY <1>1, <1>2, <2>2, <2>3, <2>4
<1>4. CASE FastRefused(t)
  <2>1. fastQueue' = fastQueue /\ answers' = [answers EXCEPT ![t] = @ + 1]
    BY <1>4 DEF FastRefused
  <2>2. FastTypes'
    BY <1>1, <2>1 DEF FastTypes
  <2>3. /\ answers[t] = 0 /\ answers'[t] = 1 /\ \A u \in FastTasks : u # t => answers'[u] = answers[u]
    BY <1>1, <2>1 DEF FastTypes, FastPlaces, PlaceOf
  <2>4. FastPlaces'
    <3>1. Lined(fastQueue)' = Lined(fastQueue) /\ Once(fastQueue)'
      BY <2>1 DEF Lined, Once, FastPlaces
    <3>2. ASSUME NEW u \in FastTasks
          PROVE  PlaceOf(u)'
      <4>1. PlaceOf(u) /\ PlaceOf(t)
        BY DEF FastPlaces
      <4>2. CASE u = t
        BY <1>1, <1>2, <2>3, <3>1, <4>1, <4>2 DEF PlaceOf
      <4>3. CASE u # t
        BY <1>1, <1>2, <2>3, <3>1, <4>1, <4>3 DEF PlaceOf
      <4> QED
        BY <4>2, <4>3
    <3> QED
      BY <3>1, <3>2 DEF FastPlaces
  <2>5. FastEnds'
    BY <1>1, <2>1 DEF FastEnds
  <2> QED
    BY <1>1, <1>2, <2>2, <2>4, <2>5
<1> QED
  BY <1>3, <1>4

\* A sender takes the first task.
LEMMA FastPopInv ==
  ASSUME FastInv, NEW s \in FastSenders, FastPop(s)
  PROVE  FastInv'
<1> USE DEF FastInv
<1> DEFINE t == Head(fastQueue)
<1>1. /\ fast[s].at = "pop" /\ fastQueue # <<>> /\ fastQueue' = Tail(fastQueue)
      /\ fast' = [fast EXCEPT ![s] = [at |-> "count", task |-> {t}, tries |-> 0]]
      /\ UNCHANGED <<unpushed, halted, inflight, closer, answers>>
  BY DEF FastPop
<1>2. /\ t \in FastTasks /\ t \in Lined(fastQueue)
      /\ Tail(fastQueue) \in Seq(FastTasks) /\ Once(Tail(fastQueue))
      /\ Lined(Tail(fastQueue)) = Lined(fastQueue) \ {t}
  BY <1>1, QueueTail DEF FastTypes, FastPlaces
<1> HIDE DEF t
<1>3. /\ Lined(fastQueue)' = Lined(fastQueue) \ {t} /\ Once(fastQueue)'
  BY <1>1, <1>2 DEF Lined, Once
<1>4. FastTypes'
  BY <1>1, <1>2 DEF FastTypes
<1>5. /\ fast'[s].at = "count" /\ fast'[s].task = {t} /\ fast[s].task = {}
      /\ \A u \in FastSenders : u # s => fast'[u] = fast[u]
  BY <1>1 DEF FastTypes, FastEnds
<1>6. Counted' = Counted
  BY <1>1, <1>5 DEF Counted
<1>7. Unanswered' = Unanswered \cup {s} /\ s \notin Unanswered /\ Unanswered \subseteq FastSenders
  BY <1>1, <1>5 DEF Unanswered
<1>8. FastPlaces'
  <2>1. ASSUME NEW u \in FastTasks
        PROVE  PlaceOf(u)'
    <3>1. PlaceOf(u)
      BY DEF FastPlaces
    <3>2. CASE u = t
      BY <1>1, <1>2, <1>3, <1>5, <1>7, <3>1, <3>2 DEF PlaceOf
    <3>3. CASE u # t
      BY <1>1, <1>3, <1>5, <1>7, <3>1, <3>3 DEF PlaceOf
    <3> QED
      BY <3>2, <3>3
  <2> QED
    BY <1>3, <2>1 DEF FastPlaces
<1>9. FastEnds'
  BY <1>1, <1>5 DEF FastEnds
<1> QED
  BY <1>1, <1>4, <1>6, <1>8, <1>9

\* A sender counts its task, tries to send it, and leaves with none.
LEMMA FastSendInv ==
  ASSUME FastInv, NEW s \in FastSenders, FastExit(s) \/ FastCount(s) \/ FastSend(s)
  PROVE  FastInv'
<1> USE DEF FastInv
<1>1. UNCHANGED <<unpushed, fastQueue, halted, closer, answers>>
  BY DEF FastExit, FastCount, FastSend
<1>0. PICK a \in {"send", "answer", "exited"} :
        \/ fast' = [fast EXCEPT ![s].at = a]
        \/ fast' = [fast EXCEPT ![s].tries = @ + 1]
  BY DEF FastExit, FastCount, FastSend
<1>2. /\ \A u \in FastSenders : fast'[u].task = fast[u].task
      /\ \A u \in FastSenders : u # s => fast'[u].at = fast[u].at
      /\ FastTypes'
  <2>1. CASE fast' = [fast EXCEPT ![s].at = a]
    <3>1. fast'[s] = [fast[s] EXCEPT !.at = a] /\ \A u \in FastSenders : u # s => fast'[u] = fast[u]
      BY <2>1 DEF FastTypes
    <3>2. FastTypes'
      BY <1>1, <2>1, <3>1 DEF FastTypes
    <3>3. fast'[s].task = fast[s].task
      BY <3>1 DEF FastTypes
    <3> QED
      BY <3>1, <3>2, <3>3
  <2>2. CASE fast' = [fast EXCEPT ![s].tries = @ + 1]
    <3>1. /\ fast'[s] = [fast[s] EXCEPT !.tries = @ + 1] /\ fast[s].tries + 1 \in Nat
          /\ \A u \in FastSenders : u # s => fast'[u] = fast[u]
      BY <2>2 DEF FastTypes
    <3>2. FastTypes'
      BY <1>1, <2>2, <3>1 DEF FastTypes
    <3> QED
      BY <3>1, <3>2 DEF FastTypes
  <2> QED
    BY <1>0, <2>1, <2>2
<1>3. Unanswered' = Unanswered /\ Unanswered \subseteq FastSenders
  BY <1>2 DEF Unanswered, FastExit, FastCount, FastSend, FastTypes
<1>4. FastPlaces'
  <2>1. Lined(fastQueue)' = Lined(fastQueue) /\ Once(fastQueue)'
    BY <1>1 DEF Lined, Once, FastPlaces
  <2>2. ASSUME NEW t \in FastTasks
        PROVE  PlaceOf(t)'
    BY <1>1, <1>2, <1>3, <2>1 DEF FastPlaces, PlaceOf
  <2> QED
    BY <2>1, <2>2 DEF FastPlaces
<1>5. FastEnds'
  <2>1. fast'[s].at \in {"pop", "exited"} => fast[s].at = "pop" /\ halted /\ fastQueue = <<>>
    BY DEF FastExit, FastCount, FastSend, FastTypes
  <2>2. closer # "ended"
    BY DEF FastExit, FastCount, FastSend, FastEnds
  <2> QED
    BY <1>1, <1>2, <2>1, <2>2 DEF FastEnds
<1>6. inflight' = Cardinality(Counted')
  <2>1. CASE FastCount(s)
    <3>1. Counted' = Counted \cup {s} /\ s \notin Counted /\ inflight' = inflight + 1
      BY <1>2, <2>1 DEF Counted, FastCount, FastTypes
    <3> QED
      BY <3>1, CountedFacts DEF Counted
  <2>2. CASE FastExit(s) \/ FastSend(s)
    <3>1. Counted' = Counted /\ inflight' = inflight
      BY <1>2, <2>2 DEF Counted, FastExit, FastSend, FastTypes
    <3> QED
      BY <3>1
  <2> QED
    BY <2>1, <2>2
<1> QED
  BY <1>2, <1>4, <1>5, <1>6

\* A sender answers for its task, and gives up its count.
LEMMA FastAnswerInv ==
  ASSUME FastInv, NEW s \in FastSenders, FastAnswer(s) \/ FastUncount(s)
  PROVE  FastInv'
<1> USE DEF FastInv
<1>1. UNCHANGED <<unpushed, fastQueue, halted, closer>>
  BY DEF FastAnswer, FastUncount
<1>2. Lined(fastQueue)' = Lined(fastQueue) /\ Once(fastQueue)'
  BY <1>1 DEF Lined, Once, FastPlaces
<1>3. closer # "ended"
  BY DEF FastAnswer, FastUncount, FastEnds
<1>4. CASE FastAnswer(s)
  <2>1. /\ \A u \in FastSenders : fast'[u].task = fast[u].task
        /\ \A u \in FastSenders : u # s => fast'[u].at = fast[u].at
        /\ fast'[s].at = "uncount" /\ fast[s].at = "answer" /\ inflight' = inflight
        /\ \A t \in FastTasks : answers'[t] = IF t \in fast[s].task THEN answers[t] + 1 ELSE answers[t]
        /\ FastTypes'
    <3>1. /\ fast' = [fast EXCEPT ![s].at = "uncount"] /\ fast[s].at = "answer"
          /\ inflight' = inflight
          /\ answers' = [t \in FastTasks |-> IF t \in fast[s].task THEN answers[t] + 1 ELSE answers[t]]
      BY <1>4 DEF FastAnswer
    <3>2. answers' \in [FastTasks -> Nat]
      BY <3>1 DEF FastTypes
    <3>3. FastTypes'
      BY <1>1, <3>1, <3>2 DEF FastTypes
    <3> QED
      BY <3>1, <3>3 DEF FastTypes
  <2>2. Unanswered' = Unanswered \ {s} /\ s \in Unanswered /\ Unanswered \subseteq FastSenders
    BY <2>1 DEF Unanswered
  <2>3. ASSUME NEW t \in FastTasks
        PROVE  PlaceOf(t)'
    <3>1. PlaceOf(t)
      BY DEF FastPlaces
    <3>2. CASE t \in fast[s].task
      BY <1>1, <1>2, <2>1, <2>2, <3>1, <3>2 DEF PlaceOf
    <3>3. CASE t \notin fast[s].task
      BY <1>1, <1>2, <2>1, <2>2, <3>1, <3>3 DEF PlaceOf
    <3> QED
      BY <3>2, <3>3
  <2>4. FastPlaces'
    BY <1>2, <2>3 DEF FastPlaces
  <2>5. FastEnds'
    BY <1>1, <1>3, <2>1 DEF FastEnds
  <2>6. Counted' = Counted
    BY <2>1 DEF Counted
  <2> QED
    BY <2>1, <2>4, <2>5, <2>6
<1>5. CASE FastUncount(s)
  <2>1. /\ fast'[s].at = "pop" /\ fast'[s].task = {} /\ fast[s].at = "uncount"
        /\ \A u \in FastSenders : u # s => fast'[u] = fast[u]
        /\ answers' = answers /\ inflight' = inflight - 1 /\ FastTypes'
    BY <1>1, <1>5 DEF FastUncount, FastIdle, FastTypes
  <2>2. Unanswered' = Unanswered /\ s \notin Unanswered /\ Unanswered \subseteq FastSenders
    BY <2>1 DEF Unanswered
  <2>3. ASSUME NEW t \in FastTasks
        PROVE  PlaceOf(t)'
    BY <1>1, <1>2, <2>1, <2>2 DEF FastPlaces, PlaceOf
  <2>4. FastPlaces'
    BY <1>2, <2>3 DEF FastPlaces
  <2>5. FastEnds'
    BY <1>1, <1>3, <2>1 DEF FastEnds
  <2>6. Counted' = Counted \ {s} /\ s \in Counted /\ Counted \subseteq FastSenders
    BY <2>1 DEF Counted
  <2> QED
    BY <2>1, <2>4, <2>5, <2>6, CountedFacts
<1> QED
  BY <1>4, <1>5

\* Close and destroy.
LEMMA FastCloseInv ==
  ASSUME FastInv,
         \/ FastCheckQueue \/ FastCheckInflight \/ FastDestroy \/ FastStop \/ FastJoin
         \/ UNCHANGED fastVars
  PROVE  FastInv'
<1> USE DEF FastInv
<1>1. /\ UNCHANGED <<unpushed, fastQueue, inflight, fast, answers>>
      /\ halted' \in BOOLEAN /\ (halted => halted')
  BY DEF FastCheckQueue, FastCheckInflight, FastDestroy, FastStop, FastJoin, fastVars, FastTypes
<1>2. FastTypes' /\ Counted' = Counted /\ Unanswered' = Unanswered
  BY <1>1 DEF FastTypes, Counted, Unanswered
<1>3. FastPlaces'
  <2>1. Lined(fastQueue)' = Lined(fastQueue) /\ Once(fastQueue)'
    BY <1>1 DEF Lined, Once, FastPlaces
  <2>2. ASSUME NEW t \in FastTasks
        PROVE  PlaceOf(t)'
    BY <1>1, <1>2, <2>1 DEF FastPlaces, PlaceOf
  <2> QED
    BY <2>1, <2>2 DEF FastPlaces
<1>4. closer' = "ended" => unpushed = {} /\ \A s \in FastSenders : fast[s].at = "exited"
  BY DEF FastCheckQueue, FastCheckInflight, FastDestroy, FastStop, FastJoin, fastVars,
     FastJoined, FastEnds
<1>5. FastEnds'
  BY <1>1, <1>4 DEF FastEnds
<1> QED
  BY <1>1, <1>2, <1>3, <1>5

\* Once close has returned VE_TLS_OK, or destroy is about to free the producer,
\* every task has had its one callback and no sender is left, although the drain
\* check does not see a sender between its pop and its count.
THEOREM FastPathAnswers == FastSpec => []FastAnswered
<1>1. FastInv /\ [FastNext]_fastVars => FastInv'
  BY FastWorkerInv, FastPopInv, FastSendInv, FastAnswerInv, FastCloseInv DEF FastNext
<1>2. FastInv => FastAnswered
  <2> SUFFICES ASSUME FastInv PROVE FastAnswered
    OBVIOUS
  <2> USE DEF FastInv
  <2>1. \A t \in FastTasks : answers[t] <= 1
    BY DEF FastPlaces, PlaceOf
  <2>2. ASSUME closer = "ended"
        PROVE  /\ \A t \in FastTasks : answers[t] = 1
               /\ \A s \in FastSenders : fast[s].at = "exited"
    <3>1. unpushed = {} /\ \A s \in FastSenders : fast[s].at = "exited"
      BY <2>2 DEF FastEnds
    <3>2. fastQueue = <<>>
      BY <3>1, FastPathAssumption DEF FastEnds
    <3>3. Lined(fastQueue) = {} /\ Unanswered = {}
      BY <3>1, <3>2 DEF Lined, Unanswered
    <3> QED
      BY <3>1, <3>3 DEF FastPlaces, PlaceOf
  <2> QED
    BY <2>1, <2>2 DEF FastAnswered, Counted
<1> QED
  BY <1>1, <1>2, FastInitInv, PTL DEF FastSpec

-----------------------------------------------------------------------------
(* The credentials: one refresher at a time, and what it leaves behind.    *)

Calls == [pc : {"idle", "check", "wait", "provider"}, at : Nat,
          res : {"none", "ok", "failed"}, used : Nat]

CredTypes ==
    /\ now \in Nat /\ last \in Nat /\ last <= now
    /\ cred \in [have : BOOLEAN, expire : Nat]
    /\ refreshing \in BOOLEAN /\ bad \in BOOLEAN
    /\ call \in [Callers -> Calls]
    /\ \A c \in Callers : call[c].at <= now

Refresher(c) == call[c].pc = "provider"

\* cred_refreshing is set for the one sender that is in the provider.
CredGate ==
    /\ refreshing => \E c \in Callers : Refresher(c)
    /\ \A c \in Callers : Refresher(c) \/ call[c].pc = "wait" => refreshing
    /\ \A c, d \in Callers : Refresher(c) /\ Refresher(d) => c = d

Granted == \A l \in Lives : l = 0 \/ l > MinInterval

\* What a caller may use when a refresh would come too soon.
CredKept ==
    ~bad /\ Granted =>
        /\ last > 0 => cred.have
        /\ cred.have => cred.expire = 0 \/ cred.expire > last + MinInterval

GoodCall(c) ==
    /\ call[c].res # "failed"
    /\ call[c].res = "ok" => call[c].used = 0 \/ call[c].used > call[c].at

CredResults == ~bad /\ Granted => \A c \in Callers : GoodCall(c)

CredInv == CredTypes /\ CredGate /\ CredKept /\ CredResults

\* Every conjunct holds before the first call.
LEMMA CredInitInv == CredentialsInit => CredInv
<1> SUFFICES ASSUME CredentialsInit PROVE CredInv
  OBVIOUS
<1>1. NoCall \in Calls /\ NoCall.pc = "idle" /\ NoCall.at = 0 /\ NoCall.res = "none"
  BY DEF NoCall, Calls
<1>2. call = [c \in Callers |-> NoCall] /\ \A c \in Callers : call[c] = NoCall
  BY DEF CredentialsInit
<1>3. CredTypes
  <2>1. /\ cred \in [have : BOOLEAN, expire : Nat] /\ refreshing \in BOOLEAN /\ bad \in BOOLEAN
    BY DEF CredentialsInit, NoCred
  <2>2. call \in [Callers -> Calls]
    BY <1>1, <1>2
  <2> QED
    BY <1>1, <1>2, <2>1, <2>2 DEF CredentialsInit, CredTypes
<1>4. CredGate
  BY <1>1, <1>2 DEF CredentialsInit, CredGate, Refresher
<1>5. CredKept /\ CredResults
  BY <1>1, <1>2 DEF CredentialsInit, CredKept, CredResults, GoodCall, NoCred
<1> QED
  BY <1>3, <1>4, <1>5 DEF CredInv

\* The clock moves on: what a caller has read only gets older.
LEMMA CredTickInv ==
  ASSUME CredInv, Tick \/ UNCHANGED credVars
  PROVE  CredInv'
<1> USE DEF CredInv
<1>1. /\ UNCHANGED <<cred, last, refreshing, call, bad>>
      /\ now' \in Nat /\ now <= now'
  BY DEF Tick, credVars, CredTypes
<1>2. CredTypes'
  <2>1. \A c \in Callers : call[c].at \in Nat
    BY DEF CredTypes, Calls
  <2> QED
    BY <1>1, <2>1 DEF CredTypes
<1>3. CredGate' /\ CredKept' /\ CredResults'
  BY <1>1 DEF CredGate, CredKept, CredResults, GoodCall, Refresher
<1> QED
  BY <1>2, <1>3

\* A call begins with the time its caller reads.
LEMMA CredBeginInv ==
  ASSUME CredInv, NEW c \in Callers, CallBegin(c)
  PROVE  CredInv'
<1> USE DEF CredInv
<1>1. /\ call[c].pc = "idle"
      /\ call'[c] = [pc |-> "check", at |-> now, res |-> "none", used |-> 0]
      /\ \A d \in Callers : d # c => call'[d] = call[d]
      /\ call' \in [Callers -> Calls]
      /\ UNCHANGED <<now, cred, last, refreshing, bad>>
  BY DEF CallBegin, CredTypes, Calls, NoCall
<1>2. CredTypes'
  BY <1>1 DEF CredTypes
<1>3. CredGate'
  BY <1>1 DEF CredGate, Refresher
<1>4. CredKept' /\ CredResults'
  BY <1>1 DEF CredKept, CredResults, GoodCall
<1> QED
  BY <1>2, <1>3, <1>4

\* The loop's head.  Credentials used although a refresh is due have not expired:
\* they were granted, at or after the last refresh, for more than the interval
\* that the caller's time is within.
LEMMA CredCheckInv ==
  ASSUME CredInv, NEW c \in Callers, Check(c)
  PROVE  CredInv'
<1> USE DEF CredInv
<1>0. /\ call[c].pc = "check" /\ UNCHANGED <<now, cred, last, bad>> /\ call[c] \in Calls
      /\ cred.have \in BOOLEAN /\ cred.expire \in Nat
  BY DEF Check, CredTypes
<1>1. CASE refreshing /\ call' = [call EXCEPT ![c].pc = "wait"] /\ UNCHANGED refreshing
  <2>1. /\ call'[c] = [call[c] EXCEPT !.pc = "wait"]
        /\ \A d \in Callers : d # c => call'[d] = call[d]
    BY <1>1 DEF CredTypes
  <2>2. /\ call'[c] \in Calls /\ call'[c].pc = "wait" /\ call'[c].at = call[c].at
        /\ call'[c].res = call[c].res /\ call'[c].used = call[c].used
    BY <1>0, <2>1 DEF Calls
  <2>3. call' \in [Callers -> Calls]
    BY <1>1, <2>1, <2>2 DEF CredTypes
  <2>4. CredTypes'
    BY <1>0, <1>1, <2>1, <2>2, <2>3 DEF CredTypes
  <2>5. CredGate'
    BY <1>0, <1>1, <2>1, <2>2 DEF CredGate, Refresher
  <2>6. CredKept' /\ CredResults'
    BY <1>0, <2>1, <2>2 DEF CredKept, CredResults, GoodCall
  <2> QED
    BY <2>4, <2>5, <2>6
<1>2. CASE /\ ~refreshing
           /\ ~NeedRefresh(call[c].at) \/ TooSoon(call[c].at)
           /\ call' = [call EXCEPT ![c] = Returned(c, IF cred.have THEN "ok" ELSE "failed")]
           /\ UNCHANGED refreshing
  <2>1. /\ call'[c] = [pc |-> "idle", at |-> call[c].at, res |-> IF cred.have THEN "ok" ELSE "failed",
                       used |-> IF cred.have THEN cred.expire ELSE 0]
        /\ \A d \in Callers : d # c => call'[d] = call[d]
    BY <1>0, <1>2 DEF CredTypes, Returned, NoCall
  <2>2. /\ call'[c].pc = "idle" /\ call'[c].at = call[c].at
        /\ cred.have => call'[c].res = "ok" /\ call'[c].used = cred.expire
        /\ ~cred.have => call'[c].res = "failed"
    BY <1>0, <2>1
  <2>3. call'[c] \in Calls
    BY <1>0, <2>1 DEF Calls
  <2>4. call' \in [Callers -> Calls]
    BY <1>2, <2>1, <2>3 DEF CredTypes
  <2>5. CredTypes'
    BY <1>0, <1>2, <2>1, <2>2, <2>4 DEF CredTypes
  <2>6. CredGate'
    BY <1>0, <1>2, <2>1, <2>2 DEF CredGate, Refresher
  <2>7. ASSUME ~bad, Granted
        PROVE  GoodCall(c)'
    <3>1. /\ last > 0 => cred.have
          /\ cred.have => cred.expire = 0 \/ cred.expire > last + MinInterval
      BY <2>7 DEF CredKept
    <3>2. call[c].at \in Nat /\ last \in Nat /\ Advance \in Nat /\ MinInterval \in Nat
      BY <1>0, CredentialsAssumption DEF CredTypes, Calls
    <3>3. cred.have
      BY <1>0, <1>2, <3>1 DEF NeedRefresh, TooSoon
    <3>4. cred.expire = 0 \/ cred.expire > call[c].at
      BY <1>0, <1>2, <3>1, <3>2, <3>3 DEF NeedRefresh, TooSoon
    <3> QED
      BY <2>2, <3>3, <3>4 DEF GoodCall
  <2>8. CredKept' /\ CredResults'
    BY <1>0, <2>1, <2>7 DEF CredKept, CredResults, GoodCall
  <2> QED
    BY <2>5, <2>6, <2>8
<1>3. CASE ~refreshing /\ refreshing' = TRUE /\ call' = [call EXCEPT ![c].pc = "provider"]
  <2>1. /\ call'[c] = [call[c] EXCEPT !.pc = "provider"]
        /\ \A d \in Callers : d # c => call'[d] = call[d]
    BY <1>3 DEF CredTypes
  <2>2. /\ call'[c] \in Calls /\ call'[c].pc = "provider" /\ call'[c].at = call[c].at
        /\ call'[c].res = call[c].res /\ call'[c].used = call[c].used
    BY <1>0, <2>1 DEF Calls
  <2>3. call' \in [Callers -> Calls]
    BY <1>3, <2>1, <2>2 DEF CredTypes
  <2>4. CredTypes'
    BY <1>0, <1>3, <2>1, <2>2, <2>3 DEF CredTypes
  <2>5. CredGate'
    BY <1>0, <1>3, <2>1, <2>2 DEF CredGate, Refresher
  <2>6. CredKept' /\ CredResults'
    BY <1>0, <2>1, <2>2 DEF CredKept, CredResults, GoodCall
  <2> QED
    BY <2>4, <2>5, <2>6
<1> QED
  BY <1>1, <1>2, <1>3 DEF Check

\* The refresher leaves the provider and wakes those who wait.
LEMMA CredProviderInv ==
  ASSUME CredInv, NEW c \in Callers, ProviderOk(c) \/ ProviderFails(c)
  PROVE  CredInv'
<1> USE DEF CredInv
<1>0. /\ Refresher(c) /\ refreshing' = FALSE /\ last' = call[c].at /\ now' = now
      /\ call[c] \in Calls /\ call[c].at \in Nat /\ call[c].at <= now
  BY DEF ProviderOk, ProviderFails, CredTypes, Calls, Refresher
<1>1. \A d \in Callers : d # c => ~Refresher(d)
  BY <1>0 DEF CredGate
<1>2. PICK next \in Calls :
        /\ call' = Woken(c, next) /\ next.at = call[c].at /\ next.pc \in {"check", "idle"}
        /\ \/ ProviderOk(c) /\ next.res = call[c].res /\ next.used = call[c].used
           \/ bad'
  <2>1. CASE ProviderOk(c)
    <3> DEFINE n == [call[c] EXCEPT !.pc = "check"]
    <3>1. /\ n \in Calls /\ n.at = call[c].at /\ n.pc = "check"
          /\ n.res = call[c].res /\ n.used = call[c].used
      BY <1>0 DEF Calls
    <3> QED
      BY <2>1, <3>1 DEF ProviderOk
  <2>2. CASE ProviderFails(c)
    <3> DEFINE n == Returned(c, "failed")
    <3>1. n = [pc |-> "idle", at |-> call[c].at, res |-> "failed", used |-> 0]
      <4>1. n = [NoCall EXCEPT !.res = "failed", !.at = call[c].at, !.used = 0]
        BY Zenon, "failed" # "ok" DEF Returned
      <4> QED
        BY <4>1 DEF NoCall
    <3>2. n \in Calls /\ n.at = call[c].at /\ n.pc = "idle"
      BY <1>0, <3>1 DEF Calls
    <3> QED
      BY <2>2, <3>2 DEF ProviderFails
  <2> QED
    BY <2>1, <2>2
<1>3. call'[c] = next
  BY <1>2 DEF Woken
<1>4. ASSUME NEW d \in Callers, d # c
      PROVE  /\ call'[d] \in Calls /\ call'[d].at = call[d].at
             /\ call'[d].res = call[d].res /\ call'[d].used = call[d].used
             /\ call'[d].pc \in {"idle", "check"}
  <2>1. call[d] \in Calls /\ call[d].pc # "provider"
    BY <1>1, <1>4 DEF CredTypes, Refresher
  <2>2. call'[d] = IF call[d].pc = "wait" THEN [call[d] EXCEPT !.pc = "check"] ELSE call[d]
    BY <1>2, <1>4 DEF Woken
  <2>3. CASE call[d].pc = "wait"
    BY <2>1, <2>2, <2>3 DEF Calls
  <2>4. CASE call[d].pc # "wait"
    BY <2>1, <2>2, <2>4 DEF Calls
  <2> QED
    BY <2>3, <2>4
<1>5. call' \in [Callers -> Calls]
  <2>1. \A d \in Callers : call'[d] \in Calls
    BY <1>2, <1>3, <1>4
  <2> QED
    BY <1>2, <2>1 DEF Woken
<1>6. cred' \in [have : BOOLEAN, expire : Nat] /\ bad' \in BOOLEAN
  <2>1. CASE ProviderOk(c)
    <3>1. PICK life \in Lives : cred' = [have |-> TRUE, expire |-> IF life = 0 THEN 0 ELSE now + life]
      BY <2>1 DEF ProviderOk
    <3>2. life \in Nat /\ now + life \in Nat
      BY CredentialsAssumption DEF CredTypes
    <3> QED
      BY <2>1, <3>1, <3>2 DEF ProviderOk, CredTypes
  <2>2. CASE ProviderFails(c)
    <3>1. cred' \in {cred, NoCred} /\ bad' = TRUE
      BY <2>2 DEF ProviderFails
    <3>2. NoCred \in [have : BOOLEAN, expire : Nat]
      BY DEF NoCred
    <3> QED
      BY <3>1, <3>2 DEF CredTypes
  <2> QED
    BY <2>1, <2>2
<1>7. CredTypes'
  BY <1>0, <1>2, <1>3, <1>4, <1>5, <1>6 DEF CredTypes
<1>8. CredGate'
  BY <1>0, <1>2, <1>3, <1>4 DEF CredGate, Refresher
<1>9. CredKept' /\ CredResults'
  <2>1. CASE bad'
    BY <2>1 DEF CredKept, CredResults
  <2>2. CASE ~bad'
    <3>1. /\ ProviderOk(c) /\ bad' = bad
          /\ next.res = call[c].res /\ next.used = call[c].used
      BY <1>2, <2>2 DEF ProviderOk
    <3>2. PICK life \in Lives : cred' = [have |-> TRUE, expire |-> IF life = 0 THEN 0 ELSE now + life]
      BY <3>1 DEF ProviderOk
    <3>3. CredKept'
      BY <1>0, <3>1, <3>2, CredentialsAssumption DEF CredKept, Granted, CredTypes
    <3>4. \A d \in Callers : /\ call'[d].res = call[d].res /\ call'[d].used = call[d].used
                            /\ call'[d].at = call[d].at
      <4>1. call'[c].res = call[c].res /\ call'[c].used = call[c].used /\ call'[c].at = call[c].at
        BY <1>2, <1>3, <3>1
      <4> QED
        BY <1>4, <4>1
    <3>5. CredResults'
      BY <3>1, <3>4 DEF CredResults, GoodCall
    <3> QED
      BY <3>3, <3>5
  <2> QED
    BY <2>1, <2>2
<1> QED
  BY <1>7, <1>8, <1>9

\* While the provider has not failed and grants more than the minimum interval,
\* no call of ve_tls_get_dynamic_credentials_owned fails or returns credentials
\* that had expired at its caller's time; one sender refreshes at a time, and
\* nobody waits for no one.
THEOREM CredentialsAlwaysUsable == CredentialsSpec => []CredentialsUsable
<1>1. CredInv /\ [CredentialsNext]_credVars => CredInv'
  BY CredTickInv, CredBeginInv, CredCheckInv, CredProviderInv DEF CredentialsNext
<1>2. CredInv => CredentialsUsable
  <2> SUFFICES ASSUME CredInv PROVE CredentialsUsable
    OBVIOUS
  <2> DEFINE P == {c \in Callers : call[c].pc = "provider"}
  <2>1. Cardinality(P) = IF refreshing THEN 1 ELSE 0
    <3>1. CASE refreshing
      <4>1. PICK c \in Callers : P = {c}
        BY <3>1 DEF CredInv, CredGate, Refresher
      <4> QED
        BY <3>1, <4>1, FS_Singleton
    <3>2. CASE ~refreshing
      <4>1. P = {}
        BY <3>2 DEF CredInv, CredGate, Refresher
      <4> QED
        BY <3>2, <4>1, FS_EmptySet
    <3> QED
      BY <3>1, <3>2
  <2>2. \A c \in Callers : call[c].pc = "wait" => refreshing
    BY DEF CredInv, CredGate
  <2> QED
    BY <2>1, <2>2 DEF CredInv, CredResults, GoodCall, Granted, CredentialsUsable
<1> QED
  BY <1>1, <1>2, CredInitInv, PTL DEF CredentialsSpec

-----------------------------------------------------------------------------
(* The raw buffer.                                                         *)

\* A set of natural numbers that is not empty has a least element.
LEMMA LeastNat ==
  ASSUME NEW T \in SUBSET Nat, T # {}
  PROVE  \E n \in T : \A m \in T : n <= m
<1>1. PICK n \in T : \A m \in T : ~ (<<m, n>> \in OpToRel(<, Nat))
  BY NatLessThanWellFounded, WFMin
<1>2. ASSUME NEW m \in T, ~(n <= m)
      PROVE  FALSE
  <2>1. <<m, n>> \in OpToRel(<, Nat)
    BY <1>2 DEF OpToRel
  <2> QED
    BY <1>1, <2>1
<1> QED
  BY <1>2

RawRecords == [id : Nat, logs : SUBSET Nat]
LogsOf(s) == UNION {s[i].logs : i \in DOMAIN s}

\* The invariant.  A whole export has every log that the producer held then.
RawInv ==
  /\ rawQueue \in Seq(RawRecords) /\ nextId \in Nat \ {0} /\ added \in Nat
  /\ building \in [AllKeys -> [logs : SUBSET Nat, last : Nat]]
  /\ DOMAIN saved = {"recs", "next", "whole"} /\ saved.recs \in Seq(RawRecords) /\ saved.next \in Nat
  /\ saved.whole => covered \subseteq LogsOf(saved.recs)
  /\ Recovered

\* The logs of two sequences of records after each other, of one more record,
\* and without the first record.
LEMMA LogsConcat ==
  ASSUME NEW s \in Seq(RawRecords), NEW t \in Seq(RawRecords)
  PROVE  s \o t \in Seq(RawRecords) /\ LogsOf(s \o t) = LogsOf(s) \cup LogsOf(t)
<1>1. /\ s \o t \in Seq(RawRecords) /\ Len(s \o t) = Len(s) + Len(t)
      /\ \A i \in 1..(Len(s) + Len(t)) : (s \o t)[i] = IF i <= Len(s) THEN s[i] ELSE t[i - Len(s)]
  BY ConcatProperties
<1>2. PICK n \in Nat, m \in Nat : n = Len(s) /\ m = Len(t)
  OBVIOUS
<1>3. DOMAIN s = 1..n /\ DOMAIN t = 1..m /\ DOMAIN (s \o t) = 1..(n + m)
  BY <1>1, <1>2
<1>4. ASSUME NEW i \in 1..n
      PROVE  i \in 1..(n + m) /\ (s \o t)[i] = s[i]
  BY <1>1, <1>2
<1>5. ASSUME NEW i \in 1..m
      PROVE  n + i \in 1..(n + m) /\ (s \o t)[n + i] = t[i]
  <2>1. n + i \in 1..(n + m) /\ ~(n + i <= n) /\ n + i - n = i
    OBVIOUS
  <2> QED
    BY <1>1, <1>2, <2>1
<1>6. ASSUME NEW i \in 1..(n + m)
      PROVE  (i \in 1..n /\ (s \o t)[i] = s[i]) \/ (i - n \in 1..m /\ (s \o t)[i] = t[i - n])
  BY <1>1, <1>2
<1>7. \A x : x \in LogsOf(s \o t) <=> x \in LogsOf(s) \cup LogsOf(t)
  BY <1>3, <1>4, <1>5, <1>6 DEF LogsOf
<1> QED
  BY <1>1, <1>7

\* One more record at the end.
LEMMA LogsAppend ==
  ASSUME NEW s \in Seq(RawRecords), NEW r \in RawRecords
  PROVE  Append(s, r) \in Seq(RawRecords) /\ LogsOf(Append(s, r)) = LogsOf(s) \cup r.logs
<1>1. /\ Append(s, r) \in Seq(RawRecords) /\ Len(s) \in Nat /\ DOMAIN s = 1..Len(s)
      /\ DOMAIN Append(s, r) = 1..(Len(s) + 1) /\ Append(s, r)[Len(s) + 1] = r
      /\ \A i \in 1..Len(s) : Append(s, r)[i] = s[i]
  OBVIOUS
<1>2. PICK n \in Nat : n = Len(s)
  BY <1>1
<1>3. \A i \in 1..(n + 1) : i \in 1..n \/ i = n + 1
  OBVIOUS
<1>4. 1..n \subseteq 1..(n + 1) /\ n + 1 \in 1..(n + 1)
  OBVIOUS
<1>5. \A x : x \in LogsOf(Append(s, r)) <=> x \in LogsOf(s) \cup r.logs
  BY <1>1, <1>2, <1>3, <1>4 DEF LogsOf
<1> QED
  BY <1>1, <1>5

\* The first record is taken.
LEMMA LogsTail ==
  ASSUME NEW s \in Seq(RawRecords), s # <<>>
  PROVE  /\ Tail(s) \in Seq(RawRecords) /\ LogsOf(s) = Head(s).logs \cup LogsOf(Tail(s))
         /\ \A i \in DOMAIN Tail(s) : i + 1 \in DOMAIN s /\ Tail(s)[i] = s[i + 1]
<1>1. /\ Tail(s) \in Seq(RawRecords) /\ Head(s) = s[1] /\ 1 \in DOMAIN s
      /\ \A i \in DOMAIN Tail(s) : i + 1 \in DOMAIN s /\ Tail(s)[i] = s[i + 1]
      /\ \A i \in DOMAIN s : i = 1 \/ (i - 1 \in DOMAIN Tail(s) /\ Tail(s)[i - 1] = s[i])
  OBVIOUS
<1>2. PICK t \in Seq(RawRecords) : t = Tail(s)
  BY <1>1
<1>3. LogsOf(t) \subseteq LogsOf(s)
  <2>1. ASSUME NEW i \in DOMAIN t
        PROVE  t[i].logs \subseteq LogsOf(s)
    <3>1. i + 1 \in DOMAIN s /\ t[i] = s[i + 1]
      BY <1>1, <1>2
    <3> QED
      BY <3>1, Zenon DEF LogsOf
  <2> QED
    BY <2>1, Zenon DEF LogsOf
<1>4. Head(s).logs \subseteq LogsOf(s)
  BY <1>1, Zenon DEF LogsOf
<1>5. ASSUME NEW i \in DOMAIN s
      PROVE  s[i].logs \subseteq Head(s).logs \cup LogsOf(t)
  <2>1. CASE i = 1
    BY <1>1, <2>1
  <2>2. CASE i # 1
    <3>1. i - 1 \in DOMAIN t /\ t[i - 1] = s[i]
      BY <1>1, <1>2, <2>2
    <3> QED
      BY <3>1, Zenon DEF LogsOf
  <2> QED
    BY <2>1, <2>2
<1>6. LogsOf(s) \subseteq Head(s).logs \cup LogsOf(t)
  BY <1>5, Zenon DEF LogsOf
<1>7. LogsOf(s) = Head(s).logs \cup LogsOf(t)
  BY <1>3, <1>4, <1>6
<1> QED
  BY <1>1, <1>2, <1>7

\* An order of a finite set has all its elements.
LEMMA OrderOnto ==
  ASSUME NEW S, IsFiniteSet(S), NEW f \in SetToSeqs(S)
  PROVE  f \in Seq(S) /\ \A x \in S : \E i \in DOMAIN f : f[i] = x
<1>1. PICK n \in Nat : n = Cardinality(S)
  BY FS_CardinalityType
<1>2. f \in [1..n -> S] /\ \A i, j \in 1..n : f[i] = f[j] => i = j
  BY <1>1 DEF SetToSeqs
<1>3. f \in Injection(1..n, S)
  BY <1>2 DEF Injection, IsInjective
<1>4. Cardinality(1..n) = n
  BY FS_Interval
<1>5. f \in Surjection(1..n, S)
  BY <1>1, <1>3, <1>4, FS_Injection
<1>6. \A x \in S : \E i \in 1..n : f[i] = x
  BY <1>5 DEF Surjection
<1> QED
  BY <1>2, <1>6

\* What the counter of the ids can go on from has a largest value.
LEMMA LargestId ==
  ASSUME NEW recs \in Seq(RawRecords), NEW a \in Nat, NEW b \in Nat
  PROVE  LET ids == {recs[i].id + 1 : i \in DOMAIN recs} \cup {a, b}
         IN  \E n \in ids : \A m \in ids : m <= n
<1> DEFINE Ids(k) == {recs[i].id + 1 : i \in 1..k} \cup {a, b}
           Largest(k) == \E n \in Ids(k) : \A m \in Ids(k) : m <= n
<1>1. PICK len \in Nat : len = Len(recs) /\ DOMAIN recs = 1..len
  OBVIOUS
<1>2. ASSUME NEW i \in 1..len
      PROVE  recs[i].id + 1 \in Nat
  <2>1. recs[i] \in RawRecords
    BY <1>1
  <2> QED
    BY <2>1 DEF RawRecords
<1>3. Largest(0)
  <2>1. Ids(0) = {a, b}
    OBVIOUS
  <2>2. a <= b \/ b <= a
    OBVIOUS
  <2> QED
    BY <2>1, <2>2
<1>4. ASSUME NEW k \in Nat, k + 1 <= len, Largest(k)
      PROVE  Largest(k + 1)
  <2>1. PICK n \in Ids(k) : \A m \in Ids(k) : m <= n
    BY <1>4
  <2>2. PICK c \in Nat : c = recs[k + 1].id + 1
    BY <1>2, <1>4
  <2>3. \A i \in 1..(k + 1) : i \in 1..k \/ i = k + 1
    BY <1>4
  <2>4. 1..k \subseteq 1..(k + 1) /\ k + 1 \in 1..(k + 1)
    BY <1>4
  <2>5. Ids(k + 1) = Ids(k) \cup {c}
    BY <2>2, <2>3, <2>4
  <2>6. n \in Nat
    <3>1. \A i \in 1..k : i \in 1..len
      BY <1>4
    <3> QED
      BY <1>2, <2>1, <3>1
  <2>7. \A m \in Ids(k) : m \in Nat
    <3>1. \A i \in 1..k : i \in 1..len
      BY <1>4
    <3> QED
      BY <1>2, <3>1
  <2> HIDE DEF Ids
  <2>8. CASE c <= n
    BY <2>1, <2>5, <2>8
  <2>9. CASE ~(c <= n)
    <3>1. \A m \in Ids(k + 1) : m <= c
      BY <2>1, <2>2, <2>5, <2>6, <2>7, <2>9
    <3> QED
      BY <2>5, <3>1
  <2> QED
    BY <2>8, <2>9
<1>5. Largest(len)
  <2>1. SUFFICES ASSUME ~Largest(len)
                 PROVE  FALSE
    OBVIOUS
  <2>2. PICK T \in SUBSET Nat : T = {k \in 0..len : ~Largest(k)}
    <3> HIDE DEF Largest
    <3>1. {k \in 0..len : ~Largest(k)} \in SUBSET Nat
      OBVIOUS
    <3> QED
      BY <3>1
  <2> HIDE DEF Largest
  <2>3. len \in T
    BY <2>1, <2>2
  <2>4. PICK k \in T : \A m \in T : k <= m
    BY <2>3, LeastNat
  <2>5. k \in 0..len /\ ~Largest(k) /\ k # 0
    BY <1>3, <2>2, <2>4
  <2>6. k - 1 \in Nat /\ k - 1 + 1 = k /\ k - 1 \in 0..len /\ ~(k <= k - 1)
    BY <2>5
  <2>7. Largest(k - 1)
    BY <2>2, <2>4, <2>6
  <2>8. Largest(k)
    BY <1>4, <2>5, <2>6, <2>7
  <2> QED
    BY <2>5, <2>8
<1> QED
  BY <1>1, <1>5

\* The counter goes on behind everything that was loaded.
LEMMA AdvancedBehind ==
  ASSUME RawInv, NEW recs \in Seq(RawRecords)
  PROVE  /\ Advanced(recs) \in Nat \ {0} /\ nextId <= Advanced(recs)
         /\ \A i \in DOMAIN recs : recs[i].id < Advanced(recs)
<1> DEFINE ids == {recs[i].id + 1 : i \in DOMAIN recs} \cup {nextId, saved.next}
<1>1. nextId \in Nat \ {0} /\ saved.next \in Nat
  BY DEF RawInv
<1>2. \E n \in ids : \A m \in ids : m <= n
  BY <1>1, LargestId
<1>3. PICK largest \in ids : largest = Advanced(recs) /\ \A m \in ids : m <= largest
  BY <1>2 DEF Advanced
<1>4. ASSUME NEW i \in DOMAIN recs
      PROVE  recs[i].id \in Nat /\ recs[i].id + 1 <= largest
  <2>1. recs[i] \in RawRecords
    OBVIOUS
  <2>2. recs[i].id \in Nat
    BY <2>1 DEF RawRecords
  <2>3. recs[i].id + 1 \in ids
    OBVIOUS
  <2> QED
    BY <1>3, <2>2, <2>3
<1>5. largest \in Nat
  <2>1. \A i \in DOMAIN recs : recs[i].id + 1 \in Nat
    BY <1>4
  <2> QED
    BY <1>1, <1>3, <2>1
<1>6. nextId <= largest
  BY <1>3
<1> HIDE DEF ids
<1> QED
  BY <1>1, <1>3, <1>4, <1>5, <1>6

BuildersHold(b) == UNION {b[k].logs : k \in AllKeys}

\* What is in the producer, by its two parts.
LEMMA HeldParts == Held = LogsOf(rawQueue) \cup BuildersHold(building)
  BY DEF Held, Queued, LogsOf, BuildersHold

\* The same of the next state.
LEMMA HeldPartsNext == Held' = LogsOf(rawQueue') \cup BuildersHold(building')
  BY DEF Held, Queued, LogsOf, BuildersHold

\* The first state.
LEMMA RawInitial == RawInit => RawInv
<1>1. SUFFICES ASSUME RawInit
               PROVE  RawInv
  OBVIOUS
<1>2. rawQueue = <<>> /\ nextId = 1 /\ added = 0 /\ covered = {} /\ loaded = "none"
  BY <1>1 DEF RawInit
<1>3. building \in [AllKeys -> [logs : SUBSET Nat, last : Nat]] /\ \A k \in AllKeys : building[k].last = 0
  BY <1>1 DEF RawInit, NoBuilders
<1>4. DOMAIN saved = {"recs", "next", "whole"} /\ saved.recs = <<>> /\ saved.next = 1
  BY <1>1 DEF RawInit
<1>5. <<>> \in Seq(RawRecords) /\ DOMAIN <<>> = {}
  OBVIOUS
<1>6. Recovered
  BY <1>2, <1>3, <1>5 DEF Recovered
<1> QED
  BY <1>2, <1>3, <1>4, <1>5, <1>6 DEF RawInv

\* A log that becomes an item has the next id.
LEMMA AddItemRaw ==
  ASSUME RawInv, AddItem
  PROVE  RawInv'
<1>1. /\ rawQueue \in Seq(RawRecords) /\ nextId \in Nat \ {0} /\ added \in Nat
      /\ building \in [AllKeys -> [logs : SUBSET Nat, last : Nat]] /\ Recovered
  BY DEF RawInv
<1>2. /\ rawQueue' = Append(rawQueue, [id |-> nextId, logs |-> {added + 1}])
      /\ nextId' = nextId + 1 /\ added' = added + 1
      /\ UNCHANGED <<building, saved, crashes, sent, covered, loaded>>
  BY DEF AddItem
<1>3. PICK r \in RawRecords : r = [id |-> nextId, logs |-> {added + 1}]
  <2>1. nextId \in Nat /\ {added + 1} \in SUBSET Nat
    BY <1>1
  <2> QED
    BY <2>1 DEF RawRecords
<1>4. rawQueue' \in Seq(RawRecords) /\ LogsOf(rawQueue') = LogsOf(rawQueue) \cup r.logs
  BY <1>1, <1>2, <1>3, LogsAppend
<1>5. Held \subseteq Held'
  BY <1>2, <1>4, HeldParts, HeldPartsNext
<1>6. ASSUME loaded # "part", NEW i \in DOMAIN rawQueue'
      PROVE  rawQueue'[i].id < nextId'
  <2>1. i \in DOMAIN rawQueue \/ rawQueue'[i] = r
    BY <1>1, <1>2, <1>3
  <2>2. CASE i \in DOMAIN rawQueue
    <3>1. rawQueue'[i] = rawQueue[i] /\ rawQueue[i] \in RawRecords
      BY <1>1, <1>2, <1>3, <2>2
    <3>2. rawQueue[i].id \in Nat /\ rawQueue[i].id < nextId
      BY <1>1, <1>6, <2>2, <3>1 DEF Recovered, RawRecords
    <3> QED
      BY <1>1, <1>2, <3>1, <3>2
  <2>3. CASE rawQueue'[i] = r
    BY <1>1, <1>2, <1>3, <2>3
  <2> QED
    BY <2>1, <2>2, <2>3
<1>7. ASSUME loaded # "part", NEW k \in AllKeys
      PROVE  building'[k].last < nextId'
  <2>1. building[k].last \in Nat /\ building[k].last < nextId
    BY <1>1, <1>7 DEF Recovered
  <2> QED
    BY <1>1, <1>2, <2>1
<1>8. Recovered'
  BY <1>1, <1>2, <1>5, <1>6, <1>7 DEF Recovered
<1> QED
  BY <1>1, <1>2, <1>4, <1>8 DEF RawInv

\* A log that joins a builder has the next id, and so has its builder.
LEMMA AddToBuilderRaw ==
  ASSUME RawInv, NEW k \in AllKeys, AddToBuilder(k)
  PROVE  RawInv'
<1>1. /\ rawQueue \in Seq(RawRecords) /\ nextId \in Nat \ {0} /\ added \in Nat
      /\ building \in [AllKeys -> [logs : SUBSET Nat, last : Nat]] /\ Recovered
  BY DEF RawInv
<1>2. /\ building' = [building EXCEPT ![k] = [logs |-> building[k].logs \cup {added + 1}, last |-> nextId]]
      /\ nextId' = nextId + 1 /\ added' = added + 1
      /\ UNCHANGED <<rawQueue, saved, crashes, sent, covered, loaded>>
  BY DEF AddToBuilder
<1>3. building' \in [AllKeys -> [logs : SUBSET Nat, last : Nat]]
  BY <1>1, <1>2
<1>4. \A j \in AllKeys : building[j].logs \subseteq building'[j].logs
  BY <1>1, <1>2
<1>5. Held \subseteq Held'
  <2>1. BuildersHold(building) \subseteq BuildersHold(building')
    BY <1>4, Zenon DEF BuildersHold
  <2> QED
    BY <1>2, <2>1, HeldParts, HeldPartsNext
<1>6. ASSUME loaded # "part", NEW i \in DOMAIN rawQueue
      PROVE  rawQueue[i].id < nextId'
  <2>1. rawQueue[i] \in RawRecords
    BY <1>1
  <2>2. rawQueue[i].id \in Nat /\ rawQueue[i].id < nextId
    BY <1>1, <1>6, <2>1 DEF Recovered, RawRecords
  <2> QED
    BY <1>1, <1>2, <2>2
<1>7. ASSUME loaded # "part", NEW j \in AllKeys
      PROVE  building'[j].last < nextId'
  <2>1. building[j].last \in Nat /\ building[j].last < nextId
    BY <1>1, <1>7 DEF Recovered
  <2>2. building'[j].last = IF j = k THEN nextId ELSE building[j].last
    BY <1>1, <1>2
  <2> QED
    BY <1>1, <1>2, <2>1, <2>2
<1>8. Recovered'
  BY <1>1, <1>2, <1>5, <1>6, <1>7 DEF Recovered
<1> QED
  BY <1>1, <1>2, <1>3, <1>8 DEF RawInv

\* What leaves the queue goes on to the send queue.
LEMMA TakeItemRaw ==
  ASSUME RawInv, TakeItem
  PROVE  RawInv'
<1>1. rawQueue \in Seq(RawRecords) /\ rawQueue # <<>> /\ Recovered
  BY DEF RawInv, TakeItem
<1>2. /\ rawQueue' = Tail(rawQueue) /\ sent' = sent \cup Head(rawQueue).logs
      /\ UNCHANGED <<building, nextId, saved, crashes, added, covered, loaded>>
  BY DEF TakeItem
<1>3. /\ rawQueue' \in Seq(RawRecords) /\ LogsOf(rawQueue) = Head(rawQueue).logs \cup LogsOf(rawQueue')
      /\ \A i \in DOMAIN rawQueue' : i + 1 \in DOMAIN rawQueue /\ rawQueue'[i] = rawQueue[i + 1]
  BY <1>1, <1>2, LogsTail
<1>4. Held \cup sent \subseteq Held' \cup sent'
  BY <1>2, <1>3, HeldParts, HeldPartsNext
<1>5. Recovered'
  BY <1>1, <1>2, <1>3, <1>4 DEF Recovered
<1> QED
  BY <1>2, <1>3, <1>5 DEF RawInv

\* So does what leaves a builder.
LEMMA SealBuilderRaw ==
  ASSUME RawInv, NEW k \in AllKeys, SealBuilder(k)
  PROVE  RawInv'
<1>1. building \in [AllKeys -> [logs : SUBSET Nat, last : Nat]] /\ Recovered /\ nextId \in Nat \ {0}
  BY DEF RawInv
<1>2. /\ building' = [building EXCEPT ![k] = [logs |-> {}, last |-> 0]]
      /\ sent' = sent \cup building[k].logs
      /\ UNCHANGED <<rawQueue, nextId, saved, crashes, added, covered, loaded>>
  BY DEF SealBuilder
<1>3. building' \in [AllKeys -> [logs : SUBSET Nat, last : Nat]]
  BY <1>1, <1>2
<1>4. \A j \in AllKeys : building[j].logs \subseteq building'[j].logs \cup building[k].logs
  BY <1>1, <1>2
<1>5. Held \cup sent \subseteq Held' \cup sent'
  <2>1. BuildersHold(building) \subseteq BuildersHold(building') \cup building[k].logs
    BY <1>4, Zenon DEF BuildersHold
  <2> QED
    BY <1>2, <2>1, HeldParts, HeldPartsNext
<1>6. \A j \in AllKeys : building'[j].last = 0 \/ building'[j].last = building[j].last
  BY <1>1, <1>2
<1>7. Recovered'
  BY <1>1, <1>2, <1>5, <1>6 DEF Recovered
<1> QED
  BY <1>2, <1>3, <1>7 DEF RawInv

\* An order of the builders that have logs, written out: records with all
\* their logs.
LEMMA BuildersWritten ==
  ASSUME RawInv, NEW S \in SUBSET AllKeys, IsFiniteSet(S),
         NEW f \in SetToSeqs({k \in S : building[k].logs # {}})
  PROVE  f \in Seq(AllKeys) /\ \A k \in S : building[k].logs # {} => \E i \in DOMAIN f : f[i] = k
<1> DEFINE T == {k \in S : building[k].logs # {}}
<1>1. T \subseteq S /\ IsFiniteSet(T)
  BY FS_Subset
<1>2. f \in Seq(T) /\ \A x \in T : \E i \in DOMAIN f : f[i] = x
  <2>1. f \in SetToSeqs(T)
    OBVIOUS
  <2> HIDE DEF T
  <2> QED
    BY <1>1, <2>1, OrderOnto, Zenon
<1>3. f \in Seq(AllKeys)
  BY <1>1, <1>2
<1> QED
  BY <1>2, <1>3

\* A whole export has every log the producer holds.
LEMMA ExportRaw ==
  ASSUME RawInv, Export
  PROVE  RawInv'
<1> DEFINE WithLogs(S) == {k \in S : building[k].logs # {}}
<1>1. /\ rawQueue \in Seq(RawRecords) /\ nextId \in Nat \ {0} /\ Recovered
      /\ building \in [AllKeys -> [logs : SUBSET Nat, last : Nat]]
  BY DEF RawInv
<1>2. PICK first \in SetToSeqs(WithLogs({DefaultKey})), others \in SetToSeqs(WithLogs(LogKeys)) :
        /\ saved' = [recs |-> Records(first \o others), next |-> nextId, whole |-> TRUE]
        /\ covered' = Held
        /\ UNCHANGED <<rawQueue, building, nextId, crashes, added, sent, loaded>>
  BY DEF Export
<1>3. /\ IsFiniteSet({DefaultKey}) /\ IsFiniteSet(LogKeys)
      /\ {DefaultKey} \in SUBSET AllKeys /\ LogKeys \in SUBSET AllKeys
  BY FS_Singleton, RawBufferAssumption DEF AllKeys
<1>4. first \in Seq(AllKeys) /\ \A k \in {DefaultKey} : building[k].logs # {} => \E i \in DOMAIN first : first[i] = k
  BY <1>3, BuildersWritten
<1>5. others \in Seq(AllKeys) /\ \A k \in LogKeys : building[k].logs # {} => \E i \in DOMAIN others : others[i] = k
  BY <1>3, BuildersWritten
<1>6. PICK keys \in Seq(AllKeys) : keys = first \o others
  BY <1>4, <1>5, ConcatProperties
<1>7. ASSUME NEW k \in AllKeys, building[k].logs # {}
      PROVE  \E i \in DOMAIN keys : keys[i] = k
  <2>1. CASE k = DefaultKey
    <3>1. PICK i \in DOMAIN first : first[i] = k
      BY <1>4, <1>7, <2>1
    <3>2. i \in DOMAIN keys /\ keys[i] = first[i]
      BY <1>4, <1>5, <1>6
    <3> QED
      BY <3>1, <3>2
  <2>2. CASE k \in LogKeys
    <3>1. PICK i \in DOMAIN others : others[i] = k
      BY <1>5, <1>7, <2>2
    <3>2. Len(first) + i \in DOMAIN keys /\ keys[Len(first) + i] = others[i]
      BY <1>4, <1>5, <1>6
    <3> QED
      BY <3>1, <3>2
  <2> QED
    BY <2>1, <2>2 DEF AllKeys
<1>8. PICK b \in Seq(RawRecords) : b = BuilderRecords(keys)
  <2>1. ASSUME NEW i \in DOMAIN keys
        PROVE  [id |-> building[keys[i]].last, logs |-> building[keys[i]].logs] \in RawRecords
    <3>1. keys[i] \in AllKeys
      OBVIOUS
    <3> QED
      BY <1>1, <3>1 DEF RawRecords
  <2>2. BuilderRecords(keys) \in [1..Len(keys) -> RawRecords]
    BY <2>1 DEF BuilderRecords
  <2> QED
    BY <2>2
<1>9. ASSUME NEW k \in AllKeys
      PROVE  building[k].logs \subseteq LogsOf(b)
  <2>1. CASE building[k].logs = {}
    BY <2>1
  <2>2. CASE building[k].logs # {}
    <3>1. PICK i \in DOMAIN keys : keys[i] = k
      BY <1>7, <2>2
    <3>2. i \in DOMAIN b /\ b[i].logs = building[k].logs
      BY <1>8, <3>1 DEF BuilderRecords
    <3> QED
      BY <3>2, Zenon DEF LogsOf
  <2> QED
    BY <2>1, <2>2
<1>10. rawQueue \o b \in Seq(RawRecords) /\ LogsOf(rawQueue \o b) = LogsOf(rawQueue) \cup LogsOf(b)
  BY <1>1, LogsConcat
<1>11. saved'.recs = rawQueue \o b /\ saved'.next = nextId /\ DOMAIN saved' = {"recs", "next", "whole"}
  BY <1>2, <1>6, <1>8 DEF Records
<1>12. covered' \subseteq LogsOf(saved'.recs)
  <2>1. BuildersHold(building) \subseteq LogsOf(b)
    BY <1>9, Zenon DEF BuildersHold
  <2> QED
    BY <1>2, <1>10, <1>11, <2>1, HeldParts
<1>13. Held' = Held
  BY <1>2 DEF Held, Queued
<1>14. Recovered'
  BY <1>1, <1>2, <1>13 DEF Recovered
<1> QED
  BY <1>1, <1>2, <1>10, <1>11, <1>12, <1>14 DEF RawInv

\* Damage and a restart.
LEMMA LossRaw ==
  ASSUME RawInv, Damage \/ Crash
  PROVE  RawInv'
<1>1. CASE Damage
  <2>1. PICK n \in 0..(Len(saved.recs) - 1) :
          /\ saved' = [saved EXCEPT !.recs = SubSeq(saved.recs, 1, n), !.whole = FALSE]
          /\ UNCHANGED <<rawQueue, building, nextId, crashes, added, sent, covered, loaded>>
    BY <1>1 DEF Damage
  <2>2. DOMAIN saved = {"recs", "next", "whole"} /\ saved.recs \in Seq(RawRecords) /\ saved.next \in Nat
    BY DEF RawInv
  <2>3. SubSeq(saved.recs, 1, n) \in Seq(RawRecords)
    BY <2>2
  <2>4. /\ DOMAIN saved' = {"recs", "next", "whole"} /\ saved'.recs = SubSeq(saved.recs, 1, n)
        /\ saved'.next = saved.next /\ saved'.whole = FALSE
    BY <2>1, <2>2
  <2>5. Recovered' /\ UNCHANGED <<rawQueue, building, nextId, added>>
    BY <2>1 DEF RawInv, Recovered, Held, Queued
  <2> QED
    BY <2>2, <2>3, <2>4, <2>5 DEF RawInv
<1>2. CASE Crash
  <2>1. /\ rawQueue' = <<>> /\ building' = NoBuilders /\ nextId' = 1 /\ loaded' = "none"
        /\ UNCHANGED <<saved, added, sent, covered>>
    BY <1>2 DEF Crash
  <2>2. building' \in [AllKeys -> [logs : SUBSET Nat, last : Nat]] /\ \A k \in AllKeys : building'[k].last = 0
    BY <2>1 DEF NoBuilders
  <2>3. rawQueue' \in Seq(RawRecords) /\ DOMAIN rawQueue' = {}
    BY <2>1
  <2>4. Recovered'
    BY <2>1, <2>2, <2>3 DEF Recovered
  <2> QED
    BY <2>1, <2>2, <2>3, <2>4 DEF RawInv
<1> QED
  BY <1>1, <1>2

\* A record read again: the whole export has the logs it covers, and the ids
\* go on behind it; less than all of it counts as a part.
LEMMA ImportRaw ==
  ASSUME RawInv, Import
  PROVE  RawInv'
<1>1. /\ rawQueue \in Seq(RawRecords) /\ nextId \in Nat \ {0} /\ Recovered
      /\ building \in [AllKeys -> [logs : SUBSET Nat, last : Nat]]
      /\ saved.recs \in Seq(RawRecords) /\ (saved.whole => covered \subseteq LogsOf(saved.recs))
  BY DEF RawInv
<1>2. PICK n \in 0..Len(saved.recs) :
        /\ rawQueue' = rawQueue \o SubSeq(saved.recs, 1, n)
        /\ \/ /\ n = Len(saved.recs) /\ saved.whole
              /\ nextId' = Advanced(saved.recs)
              /\ loaded' = IF loaded = "part" THEN "part" ELSE "all"
           \/ /\ n < Len(saved.recs) \/ ~saved.whole
              /\ loaded' = "part"
              /\ UNCHANGED nextId
  BY DEF Import
<1>3. UNCHANGED <<building, saved, crashes, added, sent, covered>>
  BY DEF Import
<1>4. PICK t \in Seq(RawRecords) : t = SubSeq(saved.recs, 1, n)
  <2>1. \A i \in 1..n : saved.recs[i] \in RawRecords
    BY <1>1
  <2>2. SubSeq(saved.recs, 1, n) \in Seq(RawRecords)
    BY <1>1, <2>1, SubSeqProperties
  <2> QED
    BY <2>2
<1>5. rawQueue' \in Seq(RawRecords) /\ LogsOf(rawQueue') = LogsOf(rawQueue) \cup LogsOf(t)
  BY <1>1, <1>2, <1>4, LogsConcat
<1>6. CASE loaded' = "part" /\ UNCHANGED nextId
  <2>1. Recovered'
    BY <1>6 DEF Recovered
  <2> QED
    BY <1>3, <1>5, <1>6, <2>1 DEF RawInv
<1>7. CASE /\ n = Len(saved.recs) /\ saved.whole /\ nextId' = Advanced(saved.recs)
           /\ loaded' = IF loaded = "part" THEN "part" ELSE "all"
  <2>1. t = saved.recs
    BY <1>1, <1>4, <1>7
  <2>2. nextId' \in Nat \ {0} /\ nextId <= nextId' /\ \A i \in DOMAIN t : t[i].id < nextId'
    BY <1>1, <1>7, <2>1, AdvancedBehind
  <2>3. covered' \subseteq Held'
    BY <1>1, <1>3, <1>5, <1>7, <2>1, HeldPartsNext
  <2>4. ASSUME loaded' # "part", NEW i \in DOMAIN rawQueue'
        PROVE  rawQueue'[i].id < nextId'
    <3>1. loaded # "part"
      BY <1>7, <2>4
    <3>2. \/ i \in DOMAIN rawQueue /\ rawQueue'[i] = rawQueue[i]
          \/ i - Len(rawQueue) \in DOMAIN t /\ rawQueue'[i] = t[i - Len(rawQueue)]
      BY <1>1, <1>2, <1>4, <2>4, ConcatProperties
    <3>3. CASE i \in DOMAIN rawQueue /\ rawQueue'[i] = rawQueue[i]
      <4>1. rawQueue[i] \in RawRecords
        BY <1>1, <3>3
      <4>2. rawQueue[i].id \in Nat /\ rawQueue[i].id < nextId
        BY <1>1, <3>1, <3>3, <4>1 DEF Recovered, RawRecords
      <4> QED
        BY <1>1, <2>2, <3>3, <4>2
    <3>4. CASE i - Len(rawQueue) \in DOMAIN t /\ rawQueue'[i] = t[i - Len(rawQueue)]
      BY <2>2, <3>4
    <3> QED
      BY <3>2, <3>3, <3>4
  <2>5. ASSUME loaded' # "part", NEW k \in AllKeys
        PROVE  building'[k].last < nextId'
    <3>1. loaded # "part"
      BY <1>7, <2>5
    <3>2. building[k].last \in Nat /\ building[k].last < nextId
      BY <1>1, <3>1 DEF Recovered
    <3> QED
      BY <1>1, <1>3, <2>2, <3>2
  <2>6. Recovered'
    BY <2>3, <2>4, <2>5 DEF Recovered
  <2> QED
    BY <1>3, <1>5, <2>2, <2>6 DEF RawInv
<1> QED
  BY <1>2, <1>6, <1>7

\* Whenever an import has returned VE_TLS_OK, every log of the exported
\* producer is held again or went on, and as long as no import broke off the
\* ids go on behind all that is held: for every set of keys, every order of
\* the builders, every number of logs and restarts and every room in the queue.
THEOREM ImportRecovers == RawSpec => []Recovered
<1>1. ASSUME RawInv, [RawNext]_rawVars
      PROVE  RawInv'
  <2>1. CASE UNCHANGED rawVars
    BY <1>1, <2>1 DEF rawVars, RawInv, Recovered, Held, Queued
  <2>2. ASSUME NEW k \in AllKeys, AddToBuilder(k) \/ SealBuilder(k)
        PROVE  RawInv'
    BY <1>1, <2>2, AddToBuilderRaw, SealBuilderRaw
  <2> QED
    BY <1>1, <2>1, <2>2, AddItemRaw, TakeItemRaw, ExportRaw, LossRaw, ImportRaw DEF RawNext
<1>2. RawInv => Recovered
  BY DEF RawInv
<1> QED
  BY RawInitial, <1>1, <1>2, PTL DEF RawSpec

-----------------------------------------------------------------------------
(* The object pool.                                                        *)

Pooled == {o \in Objects : owner[o] = "pool"}
Moving == {u \in Users : step[u].at \in {"link", "push", "uncount"}}
Steps == [at : {"idle", "load", "next", "take", "uncount", "link", "push"},
          obj : Objects \cup {Null}, seen : Objects \cup {Null}, next : Objects \cup {Null}]

PoolTypes ==
  /\ top \in Objects \cup {Null} /\ link \in [Objects -> Objects \cup {Null}]
  /\ owner \in [Objects -> Users \cup {"pool", "heap"}] /\ step \in [Users -> Steps]

\* The list that starts at h along the links l is s, n objects long, and has
\* the objects of P, each once.
Listed(n, s, h, l, P) ==
  /\ n \in Nat /\ s \in [1..n -> P]
  /\ \A i, j \in 1..n : s[i] = s[j] => i = j
  /\ \A o \in P : \E i \in 1..n : s[i] = o
  /\ h = IF n = 0 THEN Null ELSE s[1]
  /\ \A i \in 1..n : l[s[i]] = IF i = n THEN Null ELSE s[i + 1]

\* A put has its object to itself until the push, and once it has written the
\* link it knows the head that the link names.
PutFits(u, t, own, l) ==
  t.at \in {"link", "push"} =>
    t.obj \in Objects /\ own[t.obj] = u /\ (t.at = "push" => l[t.obj] = t.seen)

\* The object that a get looks at stays in the pool, with its link.
GetFits(t, own, l) ==
  t.at \in {"next", "take"} =>
    t.seen \in Objects /\ own[t.seen] = "pool" /\ (t.at = "take" => t.next = l[t.seen])

PutsOwn == \A u \in Users : PutFits(u, step[u], owner, link)
GetsSee == \A u \in Users : GetFits(step[u], owner, link)
GetsAlone == \A u, v \in Users : Getting(u) /\ Getting(v) => u = v

PoolInv ==
  /\ PoolTypes /\ PutsOwn /\ GetsSee /\ GetsAlone
  /\ \E n, s : Listed(n, s, top, link, Pooled)
  /\ cached = Cardinality(Pooled) + Cardinality(Moving) /\ cached <= MaxCached

\* The walk of Chained is a function with these values, since there is one.
LEMMA WalkIs ==
  ASSUME NEW g,
         g = [i \in 0..Cardinality(Objects) |->
                IF i = 0 THEN top ELSE IF g[i - 1] = Null THEN Null ELSE link[g[i - 1]]]
  PROVE  \E f : /\ f = [i \in 0..Cardinality(Objects) |->
                          IF i = 0 THEN top ELSE IF f[i - 1] = Null THEN Null ELSE link[f[i - 1]]]
                /\ Chained = {f[i] : i \in 0..Cardinality(Objects)} \ {Null}
  BY Zenon DEF Chained

\* What the walk along the list meets is what the list has.
LEMMA WalkMeets ==
  ASSUME PoolTypes, NEW n, NEW s, Listed(n, s, top, link, Pooled)
  PROVE  Chained = Pooled
<1> DEFINE Next(p) == IF p = Null THEN Null ELSE link[p]
           size == Cardinality(Objects)
           g == [i \in 0..size |-> IF i < n THEN s[i + 1] ELSE Null]
<1>1. n \in Nat /\ s \in [1..n -> Objects] /\ Null \notin Objects /\ size \in Nat
  BY ObjPoolAssumption, FS_CardinalityType DEF Listed, Pooled
<1>2. n <= size
  <2>1. s \in Injection(1..n, Objects)
    BY <1>1 DEF Listed, Injection, IsInjective
  <2>2. Cardinality(1..n) = n
    BY <1>1, FS_Interval
  <2> QED
    BY <2>1, <2>2, ObjPoolAssumption, FS_Injection
<1>3. ASSUME NEW i \in 0..size
      PROVE  g[i] = IF i = 0 THEN top ELSE Next(g[i - 1])
  <2>1. CASE i = 0
    BY <1>1, <2>1 DEF Listed
  <2>2. CASE i # 0 /\ i - 1 < n
    <3>1. i \in 1..n /\ i - 1 \in 0..size /\ g[i - 1] = s[i]
      BY <1>1, <2>2
    <3>2. Next(s[i]) = IF i = n THEN Null ELSE s[i + 1]
      BY <1>1, <3>1 DEF Listed
    <3>3. g[i] = IF i = n THEN Null ELSE s[i + 1]
      BY <1>1, <2>2
    <3> QED
      BY <2>2, <3>1, <3>2, <3>3
  <2>3. CASE i # 0 /\ ~(i - 1 < n)
    <3>1. i - 1 \in 0..size /\ g[i - 1] = Null /\ g[i] = Null
      BY <1>1, <2>3
    <3> QED
      BY <2>3, <3>1
  <2> QED
    BY <2>1, <2>2, <2>3
<1>4. g = [i \in 0..size |-> IF i = 0 THEN top ELSE Next(g[i - 1])]
  <2>1. PICK h : h = g /\ h = [i \in 0..size |-> h[i]]
    OBVIOUS
  <2> QED
    BY <1>3, <2>1
<1>5. PICK f : /\ f = [i \in 0..size |-> IF i = 0 THEN top ELSE Next(f[i - 1])]
               /\ Chained = {f[i] : i \in 0..size} \ {Null}
  <2> HIDE DEF g
  <2> QED
    BY <1>4, WalkIs, Zenon
<1>6. \A i \in 0..size : f[i] = IF i = 0 THEN top ELSE Next(f[i - 1])
  BY <1>5, Zenon
<1> HIDE DEF Next, g, size
<1>7. ASSUME NEW j \in 0..size, f[j] # g[j]
      PROVE  FALSE
  <2> DEFINE T == {i \in 0..size : f[i] # g[i]}
  <2>1. T \in SUBSET Nat /\ j \in T
    BY <1>7
  <2> HIDE DEF T
  <2>2. PICK i \in T : \A m \in T : i <= m
    BY <2>1, LeastNat
  <2>3. i \in 0..size /\ f[i] # g[i]
    BY <2>2 DEF T
  <2>4. i # 0
    <3>1. 0 \in 0..size
      BY <1>1
    <3> QED
      BY <1>3, <1>6, <2>3, <3>1
  <2>5. i - 1 \in 0..size /\ ~(i <= i - 1)
    BY <1>1, <2>3, <2>4
  <2>6. f[i - 1] = g[i - 1]
    BY <2>2, <2>5 DEF T
  <2> QED
    BY <1>3, <1>6, <2>3, <2>4, <2>6
<1>8. Chained = {g[i] : i \in 0..size} \ {Null}
  BY <1>5, <1>7
<1>9. \A i \in 0..size : g[i] = IF i < n THEN s[i + 1] ELSE Null
  BY DEF g
<1>10. ASSUME NEW o \in Pooled
       PROVE  o \in Chained
  <2>1. PICK i \in 1..n : s[i] = o
    BY DEF Listed
  <2>2. i - 1 \in 0..size /\ i - 1 < n /\ i - 1 + 1 = i
    BY <1>1, <1>2
  <2>3. g[i - 1] = o /\ o # Null
    BY <1>1, <1>9, <2>1, <2>2
  <2> QED
    BY <1>8, <2>2, <2>3
<1>11. ASSUME NEW o \in Chained
       PROVE  o \in Pooled
  <2>1. PICK i \in 0..size : g[i] = o /\ o # Null
    BY <1>8
  <2>2. i < n /\ o = s[i + 1]
    BY <1>9, <2>1
  <2>3. i + 1 \in 1..n
    BY <1>1, <2>2
  <2> QED
    BY <2>2, <2>3 DEF Listed
<1> QED
  BY <1>10, <1>11

\* An object in front of the list.
LEMMA ListPush ==
  ASSUME NEW n, NEW s, NEW h, NEW l, NEW P, Listed(n, s, h, l, P), NEW o, o \notin P, l[o] = h
  PROVE  \E m, t : Listed(m, t, o, l, P \cup {o})
<1> DEFINE t == [i \in 1..(n + 1) |-> IF i = 1 THEN o ELSE s[i - 1]]
<1>1. n \in Nat /\ s \in [1..n -> P] /\ h = IF n = 0 THEN Null ELSE s[1]
  BY DEF Listed
<1>2. ASSUME NEW i \in 1..(n + 1), i # 1
      PROVE  i - 1 \in 1..n /\ t[i] = s[i - 1] /\ s[i - 1] \in P
  BY <1>1, <1>2
<1>3. t[1] = o /\ 1 \in 1..(n + 1)
  BY <1>1
<1>4. t \in [1..(n + 1) -> P \cup {o}]
  BY <1>1
<1>5. ASSUME NEW i \in 1..(n + 1), NEW j \in 1..(n + 1), t[i] = t[j]
      PROVE  i = j
  <2>1. CASE i = 1 \/ j = 1
    BY <1>2, <1>3, <1>5, <2>1
  <2>2. CASE i # 1 /\ j # 1
    <3>1. i - 1 = j - 1
      BY <1>2, <1>5, <2>2 DEF Listed
    <3> QED
      BY <3>1
  <2> QED
    BY <2>1, <2>2
<1>6. ASSUME NEW p \in P \cup {o}
      PROVE  \E i \in 1..(n + 1) : t[i] = p
  <2>1. CASE p = o
    BY <1>3, <2>1
  <2>2. CASE p \in P
    <3>1. PICK i \in 1..n : s[i] = p
      BY <2>2 DEF Listed
    <3>2. i + 1 \in 1..(n + 1) /\ i + 1 # 1 /\ i + 1 - 1 = i
      BY <1>1
    <3>3. t[i + 1] = p
      BY <1>2, <3>1, <3>2
    <3> QED
      BY <3>2, <3>3
  <2> QED
    BY <2>1, <2>2
<1>7. ASSUME NEW i \in 1..(n + 1)
      PROVE  l[t[i]] = IF i = n + 1 THEN Null ELSE t[i + 1]
  <2>1. CASE i = 1
    <3>1. n # 0 => t[2] = s[1] /\ 1 + 1 = 2
      BY <1>1
    <3> QED
      BY <1>1, <1>3, <2>1, <3>1
  <2>2. CASE i # 1
    <3>1. l[s[i - 1]] = IF i - 1 = n THEN Null ELSE s[i - 1 + 1]
      BY <1>2, <2>2 DEF Listed
    <3>2. i # n + 1 => t[i + 1] = s[i] /\ i - 1 + 1 = i
      BY <1>1, <2>2
    <3>3. i - 1 = n <=> i = n + 1
      BY <1>1
    <3> QED
      BY <1>2, <2>2, <3>1, <3>2, <3>3
  <2> QED
    BY <2>1, <2>2
<1>8. n + 1 \in Nat /\ n + 1 # 0
  BY <1>1
<1> HIDE DEF t
<1>9. Listed(n + 1, t, o, l, P \cup {o})
  BY <1>3, <1>4, <1>5, <1>6, <1>7, <1>8 DEF Listed
<1> QED
  BY <1>9

\* The list without its first object.
LEMMA ListPop ==
  ASSUME NEW n, NEW s, NEW h, NEW l, NEW P, Listed(n, s, h, l, P), h # Null
  PROVE  \E m, t : Listed(m, t, l[h], l, P \ {h})
<1> DEFINE t == [i \in 1..(n - 1) |-> s[i + 1]]
<1>1. n \in Nat /\ s \in [1..n -> P] /\ n # 0 /\ h = s[1] /\ 1 \in 1..n /\ n - 1 \in Nat
  BY DEF Listed
<1>2. ASSUME NEW i \in 1..(n - 1)
      PROVE  i + 1 \in 1..n /\ t[i] = s[i + 1] /\ i + 1 # 1
  BY <1>1
<1>3. ASSUME NEW i \in 1..(n - 1)
      PROVE  s[i + 1] \in P \ {h}
  BY <1>1, <1>2 DEF Listed
<1>4. t \in [1..(n - 1) -> P \ {h}]
  BY <1>3
<1>5. ASSUME NEW i \in 1..(n - 1), NEW j \in 1..(n - 1), t[i] = t[j]
      PROVE  i = j
  <2>1. i + 1 = j + 1
    BY <1>2, <1>5 DEF Listed
  <2> QED
    BY <2>1
<1>6. ASSUME NEW p \in P \ {h}
      PROVE  \E i \in 1..(n - 1) : t[i] = p
  <2>1. PICK i \in 1..n : s[i] = p
    BY DEF Listed
  <2>2. i - 1 \in 1..(n - 1) /\ i - 1 + 1 = i
    BY <1>1, <2>1
  <2>3. t[i - 1] = p
    BY <1>2, <2>1, <2>2
  <2> QED
    BY <2>2, <2>3
<1>7. ASSUME NEW i \in 1..(n - 1)
      PROVE  l[t[i]] = IF i = n - 1 THEN Null ELSE t[i + 1]
  <2>1. l[s[i + 1]] = IF i + 1 = n THEN Null ELSE s[i + 1 + 1]
    BY <1>2 DEF Listed
  <2>2. i + 1 # n => t[i + 1] = s[i + 1 + 1]
    BY <1>1
  <2>3. i + 1 = n <=> i = n - 1
    BY <1>1
  <2> QED
    BY <1>2, <2>1, <2>2, <2>3
<1>8. l[h] = IF n - 1 = 0 THEN Null ELSE t[1]
  <2>1. l[s[1]] = IF 1 = n THEN Null ELSE s[1 + 1]
    BY <1>1 DEF Listed
  <2>2. n # 1 => t[1] = s[1 + 1]
    BY <1>1
  <2>3. 1 = n <=> n - 1 = 0
    BY <1>1
  <2> QED
    BY <1>1, <2>1, <2>2, <2>3
<1> HIDE DEF t
<1>9. Listed(n - 1, t, l[h], l, P \ {h})
  BY <1>1, <1>4, <1>5, <1>6, <1>7, <1>8 DEF Listed
<1> QED
  BY <1>9

\* A link outside the list is no part of it.
LEMMA ListKeep ==
  ASSUME NEW n, NEW s, NEW h, NEW l, NEW l2, NEW P, Listed(n, s, h, l, P), \A p \in P : l2[p] = l[p]
  PROVE  Listed(n, s, h, l2, P)
<1>1. ASSUME NEW i \in 1..n
      PROVE  l2[s[i]] = l[s[i]]
  BY DEF Listed
<1> QED
  BY <1>1 DEF Listed

\* A thread that starts or ends to move an object.
LEMMA MovingSize ==
  ASSUME PoolTypes, NEW u \in Users, NEW t \in Steps, step' = [step EXCEPT ![u] = t]
  PROVE  /\ IsFiniteSet(Pooled) /\ Cardinality(Pooled) \in Nat /\ Cardinality(Moving) \in Nat
         /\ t.at \in {"link", "push", "uncount"} /\ u \notin Moving => Cardinality(Moving') = Cardinality(Moving) + 1
         /\ t.at \notin {"link", "push", "uncount"} /\ u \in Moving => Cardinality(Moving') = Cardinality(Moving) - 1
         /\ (t.at \in {"link", "push", "uncount"} <=> u \in Moving) => Cardinality(Moving') = Cardinality(Moving)
<1>1. \A v \in Users : step'[v] = IF v = u THEN t ELSE step[v]
  BY DEF PoolTypes
<1>2. Pooled \in SUBSET Objects /\ Moving \in SUBSET Users
  BY DEF Pooled, Moving
<1>3. IsFiniteSet(Pooled) /\ IsFiniteSet(Moving)
  BY <1>2, ObjPoolAssumption, FS_Subset
<1>4. Cardinality(Pooled) \in Nat /\ Cardinality(Moving) \in Nat
  BY <1>3, FS_CardinalityType
<1>5. ASSUME t.at \in {"link", "push", "uncount"}, u \notin Moving
      PROVE  Cardinality(Moving') = Cardinality(Moving) + 1
  <2>1. Moving' = Moving \cup {u}
    BY <1>1, <1>5 DEF Moving
  <2> QED
    BY <1>3, <1>5, <2>1, FS_AddElement
<1>6. ASSUME t.at \notin {"link", "push", "uncount"}, u \in Moving
      PROVE  Cardinality(Moving') = Cardinality(Moving) - 1
  <2>1. Moving' = Moving \ {u}
    BY <1>1, <1>6 DEF Moving
  <2> QED
    BY <1>3, <1>6, <2>1, FS_RemoveElement
<1>7. ASSUME t.at \in {"link", "push", "uncount"} <=> u \in Moving
      PROVE  Moving' = Moving
  BY <1>1, <1>7 DEF Moving
<1> QED
  BY <1>3, <1>4, <1>5, <1>6, <1>7

Gets(t) == t.at \in {"load", "next", "take"}

\* A step of one thread keeps the invariant when its new state fits, the
\* states of the other threads still fit, and list and counter agree.
LEMMA PoolStep ==
  ASSUME PoolInv, NEW u \in Users, NEW t \in Steps, step' = [step EXCEPT ![u] = t],
         top' \in Objects \cup {Null}, link' \in [Objects -> Objects \cup {Null}],
         owner' \in [Objects -> Users \cup {"pool", "heap"}],
         PutFits(u, t, owner', link'), GetFits(t, owner', link'),
         Gets(t) => \A v \in Users : v # u => ~Getting(v),
         \A v \in Users : v # u => PutFits(v, step[v], owner', link') /\ GetFits(step[v], owner', link'),
         \E n, s : Listed(n, s, top', link', Pooled'),
         cached' = Cardinality(Pooled') + Cardinality(Moving'), cached' <= MaxCached
  PROVE  PoolInv'
<1>1. step \in [Users -> Steps] /\ GetsAlone
  BY DEF PoolInv, PoolTypes
<1>2. step' \in [Users -> Steps] /\ \A v \in Users : step'[v] = IF v = u THEN t ELSE step[v]
  BY <1>1
<1>3. PutsOwn' /\ GetsSee'
  BY <1>2 DEF PutsOwn, GetsSee
<1>4. \A v \in Users : Getting(v)' <=> IF v = u THEN Gets(t) ELSE Getting(v)
  BY <1>2 DEF Getting, Gets
<1>5. GetsAlone'
  BY <1>1, <1>4 DEF GetsAlone
<1>6. PoolTypes'
  BY <1>2 DEF PoolTypes
<1> QED
  BY <1>3, <1>5, <1>6 DEF PoolInv

\* Steps that change nothing but what the thread has seen.
LEMMA PoolLook ==
  ASSUME PoolInv, NEW u \in Users, NEW t \in Steps, step' = [step EXCEPT ![u] = t],
         UNCHANGED <<top, link, cached, owner>>,
         PutFits(u, t, owner, link), GetFits(t, owner, link),
         Gets(t) => \A v \in Users : v # u => ~Getting(v),
         t.at \in {"link", "push", "uncount"} <=> u \in Moving
  PROVE  PoolInv'
<1>1. PoolTypes /\ PutsOwn /\ GetsSee
  BY DEF PoolInv
<1>2. Cardinality(Moving') = Cardinality(Moving)
  BY <1>1, MovingSize
<1>3. Pooled' = Pooled
  BY DEF Pooled
<1>4. PICK n, s : Listed(n, s, top, link, Pooled)
  BY DEF PoolInv
<1>5. Listed(n, s, top', link', Pooled')
  BY <1>3, <1>4
<1>6. \A v \in Users : PutFits(v, step[v], owner', link') /\ GetFits(step[v], owner', link')
  BY <1>1 DEF PutsOwn, GetsSee
<1>7. PutFits(u, t, owner', link') /\ GetFits(t, owner', link')
  OBVIOUS
<1>8. /\ top' \in Objects \cup {Null} /\ link' \in [Objects -> Objects \cup {Null}]
      /\ owner' \in [Objects -> Users \cup {"pool", "heap"}]
  BY <1>1 DEF PoolTypes
<1>9. cached' = Cardinality(Pooled') + Cardinality(Moving') /\ cached' <= MaxCached
  BY <1>2, <1>3 DEF PoolInv
<1> QED
  BY <1>5, <1>6, <1>7, <1>8, <1>9, PoolStep

\* A get begins, reads the head, and reads the head's link, which is there.
LEMMA GetLooks ==
  ASSUME PoolInv, OneGetter, NEW u \in Users, GetCall(u) \/ GetLoad(u) \/ GetNext(u)
  PROVE  PoolInv'
<1>1. /\ PoolTypes /\ PutsOwn /\ GetsSee /\ GetsAlone /\ step[u] \in Steps
      /\ top \in Objects \cup {Null} /\ link \in [Objects -> Objects \cup {Null}]
  BY DEF PoolInv, PoolTypes
<1>2. CASE GetCall(u)
  <2>1. PICK t \in Steps : t = [step[u] EXCEPT !.at = "load"] /\ t.at = "load"
    <3>1. [step[u] EXCEPT !.at = "load"] \in Steps
      BY <1>1 DEF Steps
    <3> QED
      BY <1>1, <3>1 DEF Steps
  <2>2. /\ step[u].at = "idle" /\ step' = [step EXCEPT ![u] = t] /\ UNCHANGED <<top, link, cached, owner>>
        /\ \A v \in Users : ~Getting(v)
    BY <1>2, <2>1 DEF GetCall
  <2>3. PutFits(u, t, owner, link) /\ GetFits(t, owner, link) /\ u \notin Moving
    BY <2>1, <2>2 DEF PutFits, GetFits, Moving
  <2> QED
    BY <2>1, <2>2, <2>3, PoolLook
<1>3. CASE GetLoad(u)
  <2>1. PICK t \in Steps : t = [step[u] EXCEPT !.at = "next", !.seen = top] /\ t.at = "next" /\ t.seen = top
    <3>1. [step[u] EXCEPT !.at = "next", !.seen = top] \in Steps
      BY <1>1 DEF Steps
    <3> QED
      BY <1>1, <3>1 DEF Steps
  <2>2. /\ step[u].at = "load" /\ step' = [step EXCEPT ![u] = t] /\ UNCHANGED <<top, link, cached, owner>>
        /\ top # Null
    BY <1>3, <2>1 DEF GetLoad
  <2>3. top \in Pooled
    <3>1. PICK n, s : Listed(n, s, top, link, Pooled)
      BY DEF PoolInv
    <3> QED
      BY <2>2, <3>1 DEF Listed
  <2>4. PutFits(u, t, owner, link) /\ GetFits(t, owner, link) /\ u \notin Moving
    BY <2>1, <2>2, <2>3 DEF PutFits, GetFits, Moving, Pooled
  <2>5. \A v \in Users : v # u => ~Getting(v)
    BY <1>1, <2>2 DEF GetsAlone, Getting
  <2> QED
    BY <2>1, <2>2, <2>4, <2>5, PoolLook
<1>4. CASE GetNext(u)
  <2>1. step[u].at = "next" /\ UNCHANGED <<top, link, cached, owner>>
    BY <1>4 DEF GetNext
  <2>2. step[u].seen \in Objects /\ owner[step[u].seen] = "pool"
    BY <1>1, <2>1 DEF GetsSee, GetFits
  <2>3. HasLink(step[u].seen) /\ link[step[u].seen] \in Objects \cup {Null}
    BY <1>1, <2>2 DEF HasLink
  <2>4. step' = [step EXCEPT ![u].at = "take", ![u].next = link[step[u].seen]]
    BY <1>4, <2>3 DEF GetNext
  <2>5. PICK t \in Steps : /\ t = [step[u] EXCEPT !.at = "take", !.next = link[step[u].seen]]
                           /\ t.at = "take" /\ t.seen = step[u].seen /\ t.next = link[t.seen]
    <3>1. [step[u] EXCEPT !.at = "take", !.next = link[step[u].seen]] \in Steps
      BY <1>1, <2>3 DEF Steps
    <3> QED
      BY <1>1, <3>1 DEF Steps
  <2>6. step' = [step EXCEPT ![u] = t]
    BY <2>4, <2>5
  <2>7. PutFits(u, t, owner, link) /\ GetFits(t, owner, link) /\ u \notin Moving
    BY <2>1, <2>2, <2>5 DEF PutFits, GetFits, Moving
  <2>8. \A v \in Users : v # u => ~Getting(v)
    BY <1>1, <2>1 DEF GetsAlone, Getting
  <2> QED
    BY <2>1, <2>5, <2>6, <2>7, <2>8, PoolLook
<1> QED
  BY <1>2, <1>3, <1>4

\* A change of who has an object that nobody else is about to use.
LEMMA OwnerMoves ==
  ASSUME PoolInv, NEW u \in Users, NEW o \in Objects, NEW w \in Users \cup {"pool", "heap"},
         owner[o] = "pool" => \A v \in Users : v # u => ~Getting(v),
         \A v \in Users : v # u => owner[o] # v,
         owner' = [owner EXCEPT ![o] = w], UNCHANGED link
  PROVE  \A v \in Users : v # u => PutFits(v, step[v], owner', link') /\ GetFits(step[v], owner', link')
<1>1. PutsOwn /\ GetsSee /\ owner \in [Objects -> Users \cup {"pool", "heap"}]
  BY DEF PoolInv, PoolTypes
<1>2. ASSUME NEW v \in Users, v # u
      PROVE  PutFits(v, step[v], owner', link')
  BY <1>1, <1>2 DEF PutsOwn, PutFits
<1>3. ASSUME NEW v \in Users, v # u
      PROVE  GetFits(step[v], owner', link')
  BY <1>1, <1>3 DEF GetsSee, GetFits, Getting
<1> QED
  BY <1>2, <1>3

\* An object from the heap, and an object freed over the limit.
LEMMA HeapMoves ==
  ASSUME PoolInv, NEW u \in Users, NEW o \in Objects, NEW w \in Users \cup {"heap"}, NEW t \in Steps,
         owner[o] \in {"heap", u}, u \notin Moving, t.at = "idle",
         owner' = [owner EXCEPT ![o] = w], step' = [step EXCEPT ![u] = t], UNCHANGED <<top, link, cached>>
  PROVE  PoolInv'
<1>1. PoolTypes
  BY DEF PoolInv
<1>2. u \notin {"pool", "heap"} /\ w # "pool" /\ \A v \in Users : v # "pool" /\ v # "heap"
  BY ObjPoolAssumption
<1>3. \A v \in Users : v # u => PutFits(v, step[v], owner', link') /\ GetFits(step[v], owner', link')
  BY <1>2, OwnerMoves
<1>4. Pooled' = Pooled
  BY <1>1, <1>2 DEF Pooled, PoolTypes
<1>5. PICK n, s : Listed(n, s, top, link, Pooled)
  BY DEF PoolInv
<1>6. Listed(n, s, top', link', Pooled')
  BY <1>4, <1>5
<1>7. Cardinality(Moving') = Cardinality(Moving)
  BY <1>1, MovingSize
<1>8. PutFits(u, t, owner', link') /\ GetFits(t, owner', link') /\ ~Gets(t)
  BY DEF PutFits, GetFits, Gets
<1>9. /\ top' \in Objects \cup {Null} /\ link' \in [Objects -> Objects \cup {Null}]
      /\ owner' \in [Objects -> Users \cup {"pool", "heap"}]
  BY <1>1 DEF PoolTypes
<1>10. cached' = Cardinality(Pooled') + Cardinality(Moving') /\ cached' <= MaxCached
  BY <1>4, <1>7 DEF PoolInv
<1> QED
  BY <1>3, <1>6, <1>8, <1>9, <1>10, PoolStep

\* The only get takes the head: its link is the rest of the list.
LEMMA GetTakes ==
  ASSUME PoolInv, NEW u \in Users, GetTake(u)
  PROVE  PoolInv'
<1>1. PoolTypes /\ GetsSee /\ GetsAlone /\ step[u].at = "take" /\ UNCHANGED <<link, cached>>
  BY DEF PoolInv, GetTake
<1>2. \A v \in Users : v # u => ~Getting(v)
  BY <1>1 DEF GetsAlone, Getting
<1>3. u \notin Moving
  BY <1>1 DEF Moving
<1>4. CASE top = step[u].seen
  <2>1. PICK t \in Steps : t = [NoStep EXCEPT !.at = "uncount"] /\ t.at = "uncount"
    <3>1. [NoStep EXCEPT !.at = "uncount"] \in Steps
      BY DEF Steps, NoStep
    <3> QED
      BY <3>1 DEF NoStep
  <2>2. /\ top' = step[u].next /\ owner' = [owner EXCEPT ![step[u].seen] = u]
        /\ step' = [step EXCEPT ![u] = t]
    BY <1>4, <2>1 DEF GetTake, TopIs
  <2>3. top \in Objects /\ owner[top] = "pool" /\ step[u].next = link[top] /\ top # Null
    BY <1>1, <1>4, ObjPoolAssumption DEF GetsSee, GetFits
  <2>4. \A v \in Users : v # "pool"
    BY ObjPoolAssumption
  <2>5. Pooled' = Pooled \ {top} /\ top \in Pooled
    BY <1>1, <1>4, <2>2, <2>3, <2>4 DEF Pooled, PoolTypes
  <2>6. PICK n, s : Listed(n, s, top, link, Pooled)
    BY DEF PoolInv
  <2>7. \E m, r : Listed(m, r, link[top], link, Pooled \ {top})
    BY <2>3, <2>6, ListPop
  <2>8. \E m, r : Listed(m, r, top', link', Pooled')
    BY <1>1, <2>2, <2>3, <2>5, <2>7
  <2>9. /\ IsFiniteSet(Pooled) /\ Cardinality(Pooled) \in Nat /\ Cardinality(Moving) \in Nat
        /\ Cardinality(Moving') = Cardinality(Moving) + 1
    BY <1>1, <1>3, <2>1, <2>2, MovingSize
  <2>10. Cardinality(Pooled') = Cardinality(Pooled) - 1
    BY <2>5, <2>9, FS_RemoveElement
  <2>11. cached' = Cardinality(Pooled') + Cardinality(Moving') /\ cached' <= MaxCached
    BY <1>1, <2>9, <2>10 DEF PoolInv
  <2>12. \A v \in Users : v # u => PutFits(v, step[v], owner', link') /\ GetFits(step[v], owner', link')
    BY <1>1, <1>2, <1>4, <2>2, <2>3, <2>4, OwnerMoves
  <2>13. PutFits(u, t, owner', link') /\ GetFits(t, owner', link') /\ ~Gets(t)
    BY <2>1 DEF PutFits, GetFits, Gets
  <2>14. /\ top' \in Objects \cup {Null} /\ link' \in [Objects -> Objects \cup {Null}]
         /\ owner' \in [Objects -> Users \cup {"pool", "heap"}]
    BY <1>1, <2>2, <2>3 DEF PoolTypes
  <2> QED
    BY <2>1, <2>2, <2>8, <2>11, <2>12, <2>13, <2>14, PoolStep
<1>5. CASE top # step[u].seen
  <2>1. PICK t \in Steps : t = [NoStep EXCEPT !.at = "load"] /\ t.at = "load"
    <3>1. [NoStep EXCEPT !.at = "load"] \in Steps
      BY DEF Steps, NoStep
    <3> QED
      BY <3>1 DEF NoStep
  <2>2. step' = [step EXCEPT ![u] = t] /\ UNCHANGED <<top, link, cached, owner>>
    BY <1>1, <1>5, <2>1 DEF GetTake, TopIs
  <2>3. PutFits(u, t, owner, link) /\ GetFits(t, owner, link)
    BY <2>1 DEF PutFits, GetFits
  <2> QED
    BY <1>2, <1>3, <2>1, <2>2, <2>3, PoolLook
<1> QED
  BY <1>4, <1>5

\* A get has its object and counts it off.
LEMMA GetUncounts ==
  ASSUME PoolInv, NEW u \in Users, GetUncount(u)
  PROVE  PoolInv'
<1>1. /\ PoolTypes /\ PutsOwn /\ GetsSee /\ u \in Moving
      /\ cached' = cached - 1 /\ step' = [step EXCEPT ![u] = NoStep] /\ UNCHANGED <<top, link, owner>>
  BY DEF PoolInv, GetUncount, Moving
<1>2. NoStep \in Steps /\ NoStep.at = "idle"
  BY DEF Steps, NoStep
<1>3. /\ Cardinality(Pooled) \in Nat /\ Cardinality(Moving) \in Nat
      /\ Cardinality(Moving') = Cardinality(Moving) - 1
  BY <1>1, <1>2, MovingSize
<1>4. Pooled' = Pooled
  BY <1>1 DEF Pooled
<1>5. PICK n, s : Listed(n, s, top, link, Pooled)
  BY DEF PoolInv
<1>6. Listed(n, s, top', link', Pooled')
  BY <1>1, <1>4, <1>5
<1>7. cached' = Cardinality(Pooled') + Cardinality(Moving') /\ cached' <= MaxCached
  BY <1>1, <1>3, <1>4, ObjPoolAssumption DEF PoolInv
<1>8. \A v \in Users : PutFits(v, step[v], owner', link') /\ GetFits(step[v], owner', link')
  BY <1>1 DEF PutsOwn, GetsSee
<1>9. PutFits(u, NoStep, owner', link') /\ GetFits(NoStep, owner', link') /\ ~Gets(NoStep)
  BY <1>2 DEF PutFits, GetFits, Gets
<1>10. /\ top' \in Objects \cup {Null} /\ link' \in [Objects -> Objects \cup {Null}]
       /\ owner' \in [Objects -> Users \cup {"pool", "heap"}]
  BY <1>1 DEF PoolTypes
<1> QED
  BY <1>1, <1>2, <1>6, <1>7, <1>8, <1>9, <1>10, PoolStep

\* A put below the limit counts its object.
LEMMA PutCounts ==
  ASSUME PoolInv, NEW u \in Users, NEW o \in Objects, Put(u, o), ~Full
  PROVE  PoolInv'
<1>1. PICK t \in Steps : t = [NoStep EXCEPT !.at = "link", !.obj = o] /\ t.at = "link" /\ t.obj = o
  <2>1. [NoStep EXCEPT !.at = "link", !.obj = o] \in Steps
    BY DEF Steps, NoStep
  <2> QED
    BY <2>1 DEF NoStep
<1>2. /\ PoolTypes /\ PutsOwn /\ GetsSee /\ u \notin Moving /\ owner[o] = u /\ ~(cached >= MaxCached)
      /\ cached' = cached + 1 /\ step' = [step EXCEPT ![u] = t] /\ UNCHANGED <<top, link, owner>>
  BY <1>1 DEF PoolInv, Put, Moving, Full
<1>3. /\ Cardinality(Pooled) \in Nat /\ Cardinality(Moving) \in Nat
      /\ Cardinality(Moving') = Cardinality(Moving) + 1
  BY <1>1, <1>2, MovingSize
<1>4. Pooled' = Pooled
  BY <1>2 DEF Pooled
<1>5. PICK n, s : Listed(n, s, top, link, Pooled)
  BY DEF PoolInv
<1>6. Listed(n, s, top', link', Pooled')
  BY <1>2, <1>4, <1>5
<1>7. cached' = Cardinality(Pooled') + Cardinality(Moving') /\ cached' <= MaxCached
  BY <1>2, <1>3, <1>4, ObjPoolAssumption DEF PoolInv
<1>8. \A v \in Users : PutFits(v, step[v], owner', link') /\ GetFits(step[v], owner', link')
  BY <1>2 DEF PutsOwn, GetsSee
<1>9. PutFits(u, t, owner', link') /\ GetFits(t, owner', link') /\ ~Gets(t)
  BY <1>1, <1>2 DEF PutFits, GetFits, Gets
<1>10. /\ top' \in Objects \cup {Null} /\ link' \in [Objects -> Objects \cup {Null}]
       /\ owner' \in [Objects -> Users \cup {"pool", "heap"}]
  BY <1>2 DEF PoolTypes
<1> QED
  BY <1>1, <1>2, <1>6, <1>7, <1>8, <1>9, <1>10, PoolStep

\* The link that a put writes is in no list and under nobody's eyes.
LEMMA PutLinks ==
  ASSUME PoolInv, NEW u \in Users, PutLink(u)
  PROVE  PoolInv'
<1>1. /\ PoolTypes /\ PutsOwn /\ GetsSee /\ step[u] \in Steps /\ step[u].at = "link"
      /\ top \in Objects \cup {Null} /\ u \in Moving /\ UNCHANGED <<top, cached, owner>>
  BY DEF PoolInv, PoolTypes, PutLink, Moving
<1>2. PICK o \in Objects : o = step[u].obj /\ owner[o] = u
  BY <1>1 DEF PutsOwn, PutFits
<1>3. PICK t \in Steps : /\ t = [step[u] EXCEPT !.at = "push", !.seen = top]
                         /\ t.at = "push" /\ t.seen = top /\ t.obj = o
  <2>1. [step[u] EXCEPT !.at = "push", !.seen = top] \in Steps
    BY <1>1 DEF Steps
  <2> QED
    BY <1>1, <1>2, <2>1 DEF Steps
<1>4. link' = [link EXCEPT ![o] = top] /\ step' = [step EXCEPT ![u] = t]
  BY <1>2, <1>3 DEF PutLink
<1>5. u # "pool"
  BY ObjPoolAssumption
<1>6. link' \in [Objects -> Objects \cup {Null}] /\ link'[o] = top /\ \A p \in Objects : p # o => link'[p] = link[p]
  BY <1>1, <1>4 DEF PoolTypes
<1>7. Pooled' = Pooled /\ \A p \in Pooled : link'[p] = link[p]
  BY <1>1, <1>2, <1>5, <1>6 DEF Pooled
<1>8. PICK n, s : Listed(n, s, top, link, Pooled)
  BY DEF PoolInv
<1>9. Listed(n, s, top', link', Pooled')
  BY <1>1, <1>7, <1>8, ListKeep
<1>10. Cardinality(Moving') = Cardinality(Moving)
  BY <1>1, <1>3, <1>4, MovingSize
<1>11. cached' = Cardinality(Pooled') + Cardinality(Moving') /\ cached' <= MaxCached
  BY <1>1, <1>7, <1>10 DEF PoolInv
<1>12. ASSUME NEW v \in Users, v # u
       PROVE  PutFits(v, step[v], owner', link') /\ GetFits(step[v], owner', link')
  <2>1. PutFits(v, step[v], owner, link) /\ GetFits(step[v], owner, link)
    BY <1>1 DEF PutsOwn, GetsSee
  <2>2. PutFits(v, step[v], owner', link')
    BY <1>1, <1>2, <1>6, <1>12, <2>1 DEF PutFits
  <2>3. GetFits(step[v], owner', link')
    BY <1>1, <1>2, <1>5, <1>6, <2>1 DEF GetFits
  <2> QED
    BY <2>2, <2>3
<1>13. PutFits(u, t, owner', link') /\ GetFits(t, owner', link') /\ ~Gets(t)
  BY <1>1, <1>2, <1>3, <1>6 DEF PutFits, GetFits, Gets
<1>14. top' \in Objects \cup {Null} /\ owner' \in [Objects -> Users \cup {"pool", "heap"}]
  BY <1>1 DEF PoolTypes
<1> QED
  BY <1>3, <1>4, <1>6, <1>9, <1>11, <1>12, <1>13, <1>14, PoolStep

\* A push that finds the head it linked to puts its object in front.
LEMMA PutPushes ==
  ASSUME PoolInv, NEW u \in Users, PutPush(u)
  PROVE  PoolInv'
<1>1. /\ PoolTypes /\ PutsOwn /\ GetsSee /\ step[u] \in Steps /\ step[u].at = "push"
      /\ u \in Moving /\ UNCHANGED <<link, cached>>
  BY DEF PoolInv, PoolTypes, PutPush, Moving
<1>2. PICK o \in Objects : o = step[u].obj /\ owner[o] = u /\ link[o] = step[u].seen
  BY <1>1 DEF PutsOwn, PutFits
<1>3. \A v \in Users : v # "pool"
  BY ObjPoolAssumption
<1>4. CASE top = step[u].seen
  <2>1. NoStep \in Steps /\ NoStep.at = "idle"
    BY DEF Steps, NoStep
  <2>2. top' = o /\ owner' = [owner EXCEPT ![o] = "pool"] /\ step' = [step EXCEPT ![u] = NoStep]
    BY <1>2, <1>4 DEF PutPush, TopIs
  <2>3. Pooled' = Pooled \cup {o} /\ o \notin Pooled
    BY <1>1, <1>2, <1>3, <2>2 DEF Pooled, PoolTypes
  <2>4. PICK n, s : Listed(n, s, top, link, Pooled)
    BY DEF PoolInv
  <2>5. \E m, r : Listed(m, r, o, link, Pooled \cup {o})
    BY <1>2, <1>4, <2>3, <2>4, ListPush
  <2>6. \E m, r : Listed(m, r, top', link', Pooled')
    BY <1>1, <2>2, <2>3, <2>5
  <2>7. /\ IsFiniteSet(Pooled) /\ Cardinality(Pooled) \in Nat /\ Cardinality(Moving) \in Nat
        /\ Cardinality(Moving') = Cardinality(Moving) - 1
    BY <1>1, <2>1, <2>2, MovingSize
  <2>8. Cardinality(Pooled') = Cardinality(Pooled) + 1
    BY <2>3, <2>7, FS_AddElement
  <2>9. cached' = Cardinality(Pooled') + Cardinality(Moving') /\ cached' <= MaxCached
    BY <1>1, <2>7, <2>8 DEF PoolInv
  <2>10. \A v \in Users : v # u => PutFits(v, step[v], owner', link') /\ GetFits(step[v], owner', link')
    BY <1>1, <1>2, <1>3, <2>2, OwnerMoves
  <2>11. PutFits(u, NoStep, owner', link') /\ GetFits(NoStep, owner', link') /\ ~Gets(NoStep)
    BY <2>1 DEF PutFits, GetFits, Gets
  <2>12. /\ top' \in Objects \cup {Null} /\ link' \in [Objects -> Objects \cup {Null}]
         /\ owner' \in [Objects -> Users \cup {"pool", "heap"}]
    BY <1>1, <2>2 DEF PoolTypes
  <2> QED
    BY <2>1, <2>2, <2>6, <2>9, <2>10, <2>11, <2>12, PoolStep
<1>5. CASE top # step[u].seen
  <2>1. PICK t \in Steps : t = [step[u] EXCEPT !.at = "link"] /\ t.at = "link" /\ t.obj = o
    <3>1. [step[u] EXCEPT !.at = "link"] \in Steps
      BY <1>1 DEF Steps
    <3> QED
      BY <1>1, <1>2, <3>1 DEF Steps
  <2>2. step' = [step EXCEPT ![u] = t] /\ UNCHANGED <<top, link, cached, owner>>
    BY <1>1, <1>5, <2>1 DEF PutPush, TopIs
  <2>3. PutFits(u, t, owner, link) /\ GetFits(t, owner, link) /\ ~Gets(t)
    BY <1>2, <2>1 DEF PutFits, GetFits, Gets
  <2> QED
    BY <1>1, <2>1, <2>2, <2>3, PoolLook
<1> QED
  BY <1>4, <1>5

\* The first state: an empty list.
LEMMA PoolInitial == PoolInit => PoolInv
<1>1. SUFFICES ASSUME PoolInit
               PROVE  PoolInv
  OBVIOUS
<1>2. NoStep \in Steps /\ NoStep.at = "idle"
  BY DEF Steps, NoStep
<1>3. PoolTypes /\ \A u \in Users : step[u].at = "idle"
  BY <1>1, <1>2 DEF PoolInit, PoolTypes
<1>4. PutsOwn /\ GetsSee /\ GetsAlone /\ Moving = {}
  BY <1>3 DEF PutsOwn, GetsSee, GetsAlone, PutFits, GetFits, Getting, Moving
<1>5. Pooled = {}
  BY <1>1 DEF PoolInit, Pooled
<1>6. Listed(0, [i \in 1..0 |-> Null], top, link, Pooled)
  BY <1>1, <1>5 DEF PoolInit, Listed
<1>7. cached = Cardinality(Pooled) + Cardinality(Moving) /\ cached <= MaxCached
  BY <1>1, <1>4, <1>5, FS_EmptySet, ObjPoolAssumption DEF PoolInit
<1> QED
  BY <1>3, <1>4, <1>6, <1>7 DEF PoolInv

\* With one get at a time the list of the pool has exactly the objects that
\* were given back, and the counter counts them and those on their way, for
\* every number of threads, objects and places: no object is handed out twice
\* although a get reads a link that puts may be writing next to.
THEOREM PoolStaysExact == ASSUME OneGetter PROVE PoolSpec => []PoolExact
<1>1. ASSUME PoolInv, [PoolNext]_poolVars
      PROVE  PoolInv'
  <2>1. CASE UNCHANGED poolVars
    BY <1>1, <2>1 DEF poolVars, PoolInv, PoolTypes, PutsOwn, GetsSee, GetsAlone, Getting, Pooled, Moving
  <2>2. ASSUME NEW u \in Users, GetNew(u)
        PROVE  PoolInv'
    <3>1. /\ step[u].at = "load" /\ step' = [step EXCEPT ![u] = NoStep] /\ UNCHANGED <<top, link, cached>>
          /\ \E o \in Objects : owner[o] = "heap" /\ owner' = [owner EXCEPT ![o] = u]
      BY <2>2 DEF GetNew
    <3>2. NoStep \in Steps /\ NoStep.at = "idle" /\ u \notin Moving
      BY <3>1 DEF Steps, NoStep, Moving
    <3> QED
      BY <1>1, <3>1, <3>2, HeapMoves
  <2>3. ASSUME NEW u \in Users, NEW o \in Objects, Put(u, o), Full
        PROVE  PoolInv'
    <3>1. /\ step[u].at = "idle" /\ owner[o] = u /\ owner' = [owner EXCEPT ![o] = "heap"]
          /\ UNCHANGED <<top, link, cached, step>>
      BY <2>3 DEF Put
    <3>2. step \in [Users -> Steps]
      BY <1>1 DEF PoolInv, PoolTypes
    <3>3. step' = [step EXCEPT ![u] = step[u]] /\ step[u] \in Steps /\ u \notin Moving
      BY <3>1, <3>2 DEF Moving
    <3> QED
      BY <1>1, <3>1, <3>3, HeapMoves
  <2>4. CASE \E u \in Users :
               \/ GetCall(u) \/ GetNew(u) \/ GetLoad(u) \/ GetNext(u) \/ GetTake(u) \/ GetUncount(u)
               \/ \E o \in Objects : Put(u, o)
               \/ PutLink(u) \/ PutPush(u)
    BY <1>1, <2>2, <2>3, <2>4, GetLooks, GetTakes, GetUncounts, PutCounts, PutLinks, PutPushes
  <2> QED
    BY <1>1, <2>1, <2>4 DEF PoolNext
<1>2. ASSUME PoolInv
      PROVE  PoolExact
  <2>1. PoolTypes /\ \E n, s : Listed(n, s, top, link, Pooled)
    BY <1>2 DEF PoolInv
  <2>2. Chained = Pooled
    BY <2>1, WalkMeets
  <2> HIDE DEF Chained
  <2> QED
    BY <1>2, <2>2 DEF PoolInv, PoolExact, Pooled, Moving
<1> QED
  BY PoolInitial, <1>1, <1>2, PTL DEF PoolSpec
=============================================================================

----------------------------- MODULE IngressProofs ------------------------------
(***************************************************************************)
(* Proofs about the way of a log into the producer, for every number of    *)
(* writers, workers and logs, every limit and every configuration:         *)
(*                                                                         *)
(*  - every log is in one place at a time, so that every counter of the    *)
(*    budget is the size of what it stands for, and no log is lost but     *)
(*    with a batch of its thread;                                          *)
(*  - the producer implements the memory budget, and keeps within it;      *)
(*  - under DROP the one condition variable leaves no work without a       *)
(*    worker that is awake.                                                *)
(***************************************************************************)
EXTENDS Ingress, FiniteSetTheorems, SequenceTheorems, WellFoundedInduction, NaturalsInduction, TLAPS

-----------------------------------------------------------------------------
(* The budget.  Ingress implements BudgetSpec (IngressImplementsBudget);   *)
(* what holds of the budget holds of the producer.                         *)

\* What the counters other than queue_bytes hold.
Elsewhere == ingressB + tlsB + sendB + inflightB + scratchB

\* The inductive invariant.  An import looks at queue_bytes only: it takes that
\* counter to the limit at most, so the sum keeps to twice the limit as long as
\* the other counters keep to it, imports or not.
BudgetInv ==
  /\ BudgetTypeOK
  /\ WithinBudget
  /\ Elsewhere \leq MaxBuffer

\* ve_tls_size_add_sat is the sum as long as the sum does not exceed a limit
\* below the largest size_t, and otherwise exceeds that limit too.
LEMMA AddSatBound ==
  ASSUME NEW a \in Nat, NEW b \in Nat
  PROVE  /\ AddSat(a, b) \in Nat
         /\ AddSat(a, b) \leq MaxBuffer => AddSat(a, b) = a + b
         /\ AddSat(a, b) > MaxBuffer => a + b > MaxBuffer
  BY BudgetAssumption DEF AddSat

\* While the saturating sums of ve_tls_has_buffer_space_locked are within the
\* limit they are the sums of the counters; beyond it the counters are, too.
LEMMA SumsExact ==
  ASSUME BudgetTypeOK
  PROVE  /\ BufferedBytes \leq MaxBuffer => BufferedBytes = Total
         /\ IngressBytes \leq MaxBuffer => IngressBytes = queueB + ingressB + tlsB
         /\ SendSideBytes \leq MaxBuffer => SendSideBytes = sendB + inflightB + scratchB
         /\ {BufferedBytes, IngressBytes, SendSideBytes} \subseteq Nat
         /\ SendSideBytes > MaxBuffer => sendB + inflightB + scratchB > MaxBuffer
  <1>1. {tlsB, ingressB, queueB, sendB, inflightB, scratchB} \subseteq Nat
    BY DEF BudgetTypeOK
  <1> DEFINE q1 == AddSat(queueB, ingressB)
             q2 == AddSat(q1, sendB)
             q3 == AddSat(q2, inflightB)
             q4 == AddSat(q3, scratchB)
             s1 == AddSat(sendB, inflightB)
  <1>2. /\ q1 \in Nat
        /\ q1 \leq MaxBuffer => q1 = queueB + ingressB
        /\ q1 > MaxBuffer => queueB + ingressB > MaxBuffer
    BY <1>1, AddSatBound
  <1>3. /\ q2 \in Nat
        /\ q2 \leq MaxBuffer => q2 = q1 + sendB
    BY <1>1, <1>2, AddSatBound
  <1>4. /\ q3 \in Nat
        /\ q3 \leq MaxBuffer => q3 = q2 + inflightB
    BY <1>1, <1>3, AddSatBound
  <1>5. /\ q4 \in Nat
        /\ q4 \leq MaxBuffer => q4 = q3 + scratchB
    BY <1>1, <1>4, AddSatBound
  <1>6. /\ BufferedBytes \in Nat
        /\ BufferedBytes \leq MaxBuffer => BufferedBytes = q4 + tlsB
    BY <1>1, <1>5, AddSatBound DEF BufferedBytes
  <1>7. /\ IngressBytes \in Nat
        /\ IngressBytes \leq MaxBuffer => IngressBytes = q1 + tlsB
    BY <1>1, <1>2, AddSatBound DEF IngressBytes
  <1>8. /\ s1 \in Nat
        /\ s1 \leq MaxBuffer => s1 = sendB + inflightB
        /\ s1 > MaxBuffer => sendB + inflightB > MaxBuffer
    BY <1>1, AddSatBound
  <1>9. /\ SendSideBytes \in Nat
        /\ SendSideBytes \leq MaxBuffer => SendSideBytes = s1 + scratchB
        /\ SendSideBytes > MaxBuffer => s1 + scratchB > MaxBuffer
    BY <1>1, <1>8, AddSatBound DEF SendSideBytes
  <1> HIDE DEF q1, q2, q3, q4, s1
  <1>10. BufferedBytes \leq MaxBuffer => BufferedBytes = Total
    BY <1>1, <1>2, <1>3, <1>4, <1>5, <1>6, BudgetAssumption DEF Total
  <1>11. IngressBytes \leq MaxBuffer => IngressBytes = queueB + ingressB + tlsB
    BY <1>1, <1>2, <1>7, BudgetAssumption
  <1>12. /\ SendSideBytes \leq MaxBuffer => SendSideBytes = sendB + inflightB + scratchB
         /\ SendSideBytes > MaxBuffer => sendB + inflightB + scratchB > MaxBuffer
    BY <1>1, <1>8, <1>9, BudgetAssumption
  <1> QED
    BY <1>6, <1>7, <1>9, <1>10, <1>11, <1>12

\* A writer that is admitted leaves everything buffered within the limit.
LEMMA LogFits ==
  ASSUME BudgetTypeOK, Elsewhere \leq MaxBuffer,
         NEW n \in Nat, HasSpaceForLog(n), n > 0
  PROVE  Total + n \leq MaxBuffer
  <1>1. {tlsB, ingressB, queueB, sendB, inflightB, scratchB} \subseteq Nat
    BY DEF BudgetTypeOK
  <1>2. /\ IngressBytes \in Nat /\ SendSideBytes \in Nat
        /\ IngressBytes \leq MaxBuffer => IngressBytes = queueB + ingressB + tlsB
        /\ SendSideBytes = sendB + inflightB + scratchB
    BY <1>1, SumsExact, BudgetAssumption DEF Elsewhere
  <1>3. /\ SendSideBytes > Reserved => IngressBytes + n \leq MaxBuffer - SendSideBytes
        /\ SendSideBytes \leq Reserved => IngressBytes + n \leq MaxBuffer - Reserved
    BY <1>2, BudgetAssumption DEF HasSpaceForLog, Fits
  <1> QED
    BY <1>1, <1>2, <1>3, BudgetAssumption DEF Total

\* A task or scratch memory that is admitted does so, too.
LEMMA SendFits ==
  ASSUME BudgetTypeOK, NEW n \in Nat, HasSpaceForSend(n)
  PROVE  Total + n \leq MaxBuffer
  <1>1. /\ BufferedBytes \in Nat
        /\ BufferedBytes \leq MaxBuffer => BufferedBytes = Total
    BY SumsExact
  <1>2. BufferedBytes + n \leq MaxBuffer
    BY <1>1, BudgetAssumption DEF HasSpaceForSend, Fits
  <1> QED
    BY <1>1, <1>2, BudgetAssumption

\* The first state of the budget.
LEMMA BudgetStart == BudgetInit => BudgetInv
  <1> SUFFICES ASSUME BudgetInit
               PROVE  BudgetInv
    OBVIOUS
  <1>1. /\ {tlsB, ingressB, queueB, sendB, inflightB, scratchB} \subseteq Nat
        /\ Total = 0 /\ Elsewhere = 0
    BY DEF BudgetInit, Total, Elsewhere
  <1>2. imported \in BOOLEAN
    BY DEF BudgetInit
  <1>3. WithinBudget /\ Elsewhere \leq MaxBuffer
    BY <1>1, BudgetAssumption DEF WithinBudget
  <1> QED
    BY <1>1, <1>2, <1>3 DEF BudgetInv, BudgetTypeOK

\* Every move of bytes keeps the invariant.
LEMMA BudgetStep == BudgetInv /\ [BudgetNext]_budgetVars => BudgetInv'
  <1> SUFFICES ASSUME BudgetInv, [BudgetNext]_budgetVars
               PROVE  BudgetInv'
    OBVIOUS
  <1>1. /\ {tlsB, ingressB, queueB, sendB, inflightB, scratchB} \subseteq Nat
        /\ imported \in BOOLEAN
        /\ ~imported => Total \leq MaxBuffer
        /\ Total \leq 2 * MaxBuffer
        /\ Elsewhere \leq MaxBuffer
    BY DEF BudgetInv, BudgetTypeOK, WithinBudget
  <1>2. ASSUME NEW n \in 0..MaxBuffer, AdmitLog(n)
        PROVE  BudgetInv'
    <2>1. /\ n \in Nat
          /\ {tlsB', ingressB', queueB', sendB', inflightB', scratchB'} \subseteq Nat
          /\ imported' = imported
          /\ Total' = Total + n
          /\ n = 0 => Elsewhere' = Elsewhere
          /\ Elsewhere' \leq Total'
      BY <1>1, <1>2, BudgetAssumption DEF AdmitLog, sendSide, Total, Elsewhere
    <2>2. n > 0 => Total + n \leq MaxBuffer
      BY <1>2, <2>1, LogFits DEF AdmitLog, BudgetInv
    <2>3. WithinBudget' /\ Elsewhere' \leq MaxBuffer
      BY <1>1, <2>1, <2>2, BudgetAssumption DEF WithinBudget, Total, Elsewhere
    <2> QED
      BY <1>1, <2>1, <2>3 DEF BudgetInv, BudgetTypeOK
  <1>3. ASSUME NEW n \in 0..MaxBuffer, AdmitSend(n)
        PROVE  BudgetInv'
    <2>1. /\ n \in Nat
          /\ {tlsB', ingressB', queueB', sendB', inflightB', scratchB'} \subseteq Nat
          /\ imported' = imported
          /\ Total' = Total + n
          /\ Elsewhere' \leq Total'
      BY <1>1, <1>3, BudgetAssumption DEF AdmitSend, ingressSide, Total, Elsewhere
    <2>2. Total + n \leq MaxBuffer
      BY <1>3, <2>1, SendFits DEF AdmitSend, BudgetInv
    <2>3. WithinBudget' /\ Elsewhere' \leq MaxBuffer
      BY <1>1, <2>1, <2>2, BudgetAssumption DEF WithinBudget, Total, Elsewhere
    <2> QED
      BY <1>1, <2>1, <2>3 DEF BudgetInv, BudgetTypeOK
  <1>4. ASSUME NEW n \in 0..MaxBuffer, Import(n)
        PROVE  BudgetInv'
    <2>1. /\ {tlsB', ingressB', queueB', sendB', inflightB', scratchB'} \subseteq Nat
          /\ imported' = TRUE
          /\ queueB' \leq MaxBuffer
          /\ Elsewhere' = Elsewhere
      BY <1>1, <1>4, BudgetAssumption DEF Import, Fits, sendSide, Elsewhere
    <2>2. Total' = queueB' + Elsewhere'
      BY <2>1 DEF Total, Elsewhere
    <2>3. WithinBudget' /\ Elsewhere' \leq MaxBuffer
      BY <1>1, <2>1, <2>2, BudgetAssumption DEF WithinBudget, Elsewhere
    <2> QED
      BY <2>1, <2>3 DEF BudgetInv, BudgetTypeOK
  <1>5. CASE Forward
    <2>1. /\ {tlsB', ingressB', queueB', sendB', inflightB', scratchB'} \subseteq Nat
          /\ imported' = imported
          /\ Total' \leq Total
          /\ Elsewhere' \leq Elsewhere
      BY <1>1, <1>5 DEF Forward, sendSide, Total, Elsewhere
    <2>2. Total' \in Nat /\ Total \in Nat /\ Elsewhere \in Nat /\ Elsewhere' \in Nat
      BY <1>1, <2>1 DEF Total, Elsewhere
    <2>3. WithinBudget' /\ Elsewhere' \leq MaxBuffer
      BY <1>1, <2>1, <2>2, BudgetAssumption DEF WithinBudget
    <2> QED
      BY <1>1, <2>1, <2>3 DEF BudgetInv, BudgetTypeOK
  <1>6. CASE SendForward
    <2>1. /\ {tlsB', ingressB', queueB', sendB', inflightB', scratchB'} \subseteq Nat
          /\ imported' = imported
          /\ Total' \leq Total
          /\ Elsewhere' \leq Elsewhere
      BY <1>1, <1>6 DEF SendForward, ingressSide, Total, Elsewhere
    <2>2. Total' \in Nat /\ Total \in Nat /\ Elsewhere \in Nat /\ Elsewhere' \in Nat
      BY <1>1, <2>1 DEF Total, Elsewhere
    <2>3. WithinBudget' /\ Elsewhere' \leq MaxBuffer
      BY <1>1, <2>1, <2>2, BudgetAssumption DEF WithinBudget
    <2> QED
      BY <1>1, <2>1, <2>3 DEF BudgetInv, BudgetTypeOK
  <1>7. CASE UNCHANGED budgetVars
    BY <1>1, <1>7
    DEF BudgetInv, BudgetTypeOK, WithinBudget, Total, Elsewhere, budgetVars, ingressSide, sendSide
  <1> QED
    BY <1>2, <1>3, <1>4, <1>5, <1>6, <1>7 DEF BudgetNext

\* Whatever the limit, the reserve of the send side and the sizes of logs and
\* batches: the six counters of the producer together stay within
\* max_buffer_bytes, and an import takes them to twice of it at most.
THEOREM BudgetKept == BudgetSpec => []WithinBudget
  <1>1. BudgetInv => WithinBudget
    BY DEF BudgetInv
  <1> QED
    BY <1>1, BudgetStart, BudgetStep, PTL DEF BudgetSpec

-----------------------------------------------------------------------------
(* The logs.  A log is in one place at a time: at[l] says in which, and    *)
(* by[l] whose it is, when every thread has a place of that kind.          *)

WriterTags == {"space", "append", "copy", "tls"}
QueueTags == {"ingress", "item", "default", "key", "sealed"}
WorkerTags == {"list", "task"}
SenderTags == {"sendq", "inflight"}
Tags == WriterTags \cup QueueTags \cup WorkerTags \cup SenderTags \cup {"new", "done"}

\* The places that queue_bytes counts.
CountedTags == {"copy", "item", "default", "key", "sealed", "list"}

\* Where a writer is, and where it has a log in its hands.
WriterPcs == {"idle", "space", "copy", "append", "flush", "reflush", "push", "drain", "join"}
LogPcs == {"space", "append", "copy"}

\* A worker has a task in its hands.
TaskPcs == {"prepare", "compress", "reserve", "put"}

\* No two batches of a sequence have a log in common.
Apart(n, s) == \A i, j \in 1..n : i # j => s[i] \cap s[j] = {}

\* The logs of the batches of a sequence.
Within(l, n, s) == \E i \in 1..n : l \in s[i]

\* What a writer has: the log it is writing, and its thread-local batch.
WriterHas(at, by, a, b, p, r) ==
  /\ b \subseteq Logs
  /\ p \in WriterPcs
  /\ p \in LogPcs => r.log \in Logs
  /\ \A l \in Logs : l \in b <=> at[l] = "tls" /\ by[l] = a
  /\ \A l \in Logs, t \in LogPcs :
       p = t /\ r.log = l <=> at[l] = t /\ by[l] = a

\* The task is the first batch of the list a worker has taken.
First(s, t) == s # <<>> /\ t = Head(s)

\* What a worker has: the batches it has taken and not handed on, and a raw
\* item.  A batch that is handed on leads the list until its bytes are released.
WorkerHas(at, by, w, p, s, t) ==
  /\ s \in Seq(SUBSET Logs) /\ Apart(Len(s), s)
  /\ t \in SUBSET Logs
  /\ p \in TaskPcs \cup {"loop", "timed", "items", "batches", "release", "exited"}
  /\ p \in {"loop", "timed", "exited"} => s = <<>>
  /\ p = "release" => First(s, t)
  /\ p = "release" => \A l \in t : by[l] = w /\ at[l] \in SenderTags \cup {"done"}
  /\ \A l \in Logs : at[l] = "list" /\ by[l] = w <=>
                     \E i \in 1..Len(s) : l \in s[i] /\ (i = 1 => p # "release")
  /\ \A l \in Logs : at[l] = "task" /\ by[l] = w <=> p \in TaskPcs /\ ~First(s, t) /\ l \in t

\* What the queues and the builders have.
QueuesHave(at, q, its, bs, s) ==
  /\ \E S : q \in Seq(S)
  /\ \A i \in 1..Len(q) : q[i].logs \subseteq Logs
  /\ \A i, j \in 1..Len(q) : i # j => q[i].logs \cap q[j].logs = {}
  /\ \A l \in Logs : at[l] = "ingress" <=> \E i \in 1..Len(q) : l \in q[i].logs
  /\ its \in Seq(Logs)
  /\ \A i, j \in 1..Len(its) : i # j => its[i] # its[j]
  /\ \A l \in Logs : at[l] = "item" <=> \E i \in 1..Len(its) : l = its[i]
  /\ bs \in [{"default", "key"} -> SUBSET Logs]
  /\ \A l \in Logs, k \in {"default", "key"} : at[l] = k <=> l \in bs[k]
  /\ s \in Seq(SUBSET Logs) /\ Apart(Len(s), s)
  /\ \A l \in Logs : at[l] = "sealed" <=> Within(l, Len(s), s)

\* What the senders have: tasks without a log in common.
SendersHave(at, q, f) ==
  /\ q \subseteq SUBSET Logs /\ f \subseteq SUBSET Logs
  /\ \A b, c \in q : b # c => b \cap c = {}
  /\ \A b, c \in f : b # c => b \cap c = {}
  /\ \A l \in Logs : at[l] = "sendq" <=> l \in UNION q
  /\ \A l \in Logs : at[l] = "inflight" <=> l \in UNION f

\* A log that is nowhere has not been written, was answered or was lost.
HistoryHas(at, n, ans, ls) ==
  /\ n \in Nat \ {0}
  /\ \A l \in Logs : at[l] = "new" <=> l >= n
  /\ \A l \in Logs : at[l] = "done" => l \in ans \cup ls

\* Every log is in one place, and every place has the logs that are there.
Placed(at, by) ==
  /\ at \in [Logs -> Tags]
  /\ \A l \in Logs : at[l] \in WriterTags => by[l] \in Writers
  /\ \A l \in Logs : at[l] \in WorkerTags => by[l] \in Workers
  /\ \A a \in Writers : WriterHas(at, by, a, tls[a], pc[a], req[a])
  /\ \A w \in Workers : WorkerHas(at, by, w, wpc[w], wlist[w], task[w])
  /\ QueuesHave(at, ingress, items, builder, sealed)
  /\ SendersHave(at, sendq, inflight)
  /\ HistoryHas(at, next, answered, lost)

\* The logs at places of some kinds, and those in the hands of workers.
Tagged(at, T) == {l \in Logs : at[l] \in T}
Carried(ps, ts, p) == {l \in Logs : \E w \in Workers : ps[w] = p /\ l \in ts[w]}

\* The workers that compress their task with scratch memory.
Packing(ps) == {w \in Workers : ps[w] = "compress"}

\* The counters are the numbers of the logs at the places they stand for.
\* queue_bytes counts a batch until it is released, send_queue_bytes from its
\* reservation on.
Counted(at, ps, ts, tB, iB, qB, sB, fB, cB) ==
  /\ tB = Cardinality(Tagged(at, {"tls", "append"}))
  /\ iB = Cardinality(Tagged(at, {"ingress"}))
  /\ qB = Cardinality(Tagged(at, CountedTags)) + Cardinality(Carried(ps, ts, "release"))
  /\ sB = Cardinality(Tagged(at, {"sendq"})) + Cardinality(Carried(ps, ts, "put"))
  /\ fB = Cardinality(Tagged(at, {"inflight"}))
  /\ cB = Cardinality(Carried(ps, ts, "compress"))
          + Scratch * Cardinality(Packing(ps))

\* The types that the places do not have.
Shaped ==
  /\ tls \in [Writers -> SUBSET Logs]
  /\ DOMAIN pc = Writers /\ DOMAIN req = Writers
  /\ DOMAIN wpc = Workers /\ DOMAIN wlist = Workers /\ DOMAIN task = Workers

\* The inductive invariant: a place can be given to every log so that every
\* batch, queue and task has exactly the logs that are there, and every counter
\* is their number.  As no log is at two places, to move a batch from one to the
\* next takes from one counter what it adds to the other.
LogInv ==
  /\ Shaped
  /\ \E at, by : /\ Placed(at, by)
                 /\ Counted(at, wpc, task, tlsB, ingressB, queueB, sendB, inflightB, scratchB)

\* Some logs go elsewhere.
Move(f, M, v) == [l \in Logs |-> IF l \in M THEN v ELSE f[l]]

\* The logs of M go from a place of one kind to one of another.
Moves(at, by, at2, by2, M, p, t) ==
  /\ M \in SUBSET Logs /\ p \in Tags /\ t \in Tags
  /\ \A l \in M : at[l] = p
  /\ at2 = Move(at, M, t)
  /\ \A l \in Logs : l \notin M => by2[l] = by[l]

\* A set of natural numbers that is not empty has a least element.
LEMMA LeastNat ==
  ASSUME NEW T \in SUBSET Nat, T # {}
  PROVE  \E n \in T : \A m \in T : n <= m
<1>1. PICK n \in T : \A m \in T : ~ (<<m, n>> \in OpToRel(<, Nat))
  BY NatLessThanWellFounded, WFMin
<1>2. ASSUME NEW m \in T, ~(n <= m)
      PROVE  FALSE
  <2>1. <<m, n>> \in OpToRel(<, Nat)
    BY <1>2 DEF OpToRel
  <2> QED
    BY <1>1, <2>1
<1> QED
  BY <1>2

\* Sets of logs are finite.
LEMMA LogsFinite ==
  ASSUME NEW S \in SUBSET Logs
  PROVE  IsFiniteSet(S) /\ Cardinality(S) \in Nat
<1>1. IsFiniteSet(Logs)
  BY IngressAssumption, FS_Interval DEF Logs
<1>2. IsFiniteSet(S)
  BY <1>1, FS_Subset
<1> QED
  BY <1>2, FS_CardinalityType

\* A set of logs is split in two.
LEMMA SizeSplit ==
  ASSUME NEW S \in SUBSET Logs, NEW M \in SUBSET Logs, NEW T, T = S \cup M, S \cap M = {}
  PROVE  Cardinality(T) = Cardinality(S) + Cardinality(M)
<1>1. IsFiniteSet(S) /\ IsFiniteSet(M) /\ Cardinality(S) \in Nat /\ Cardinality(M) \in Nat
  BY LogsFinite
<1>2. Cardinality(S \cup M) = Cardinality(S) + Cardinality(M) - Cardinality(S \cap M)
  BY <1>1, FS_Union
<1>3. Cardinality(S \cap M) = 0
  BY FS_EmptySet
<1> QED
  BY <1>1, <1>2, <1>3

\* The counts of places are natural numbers.
LEMMA TaggedSize ==
  ASSUME NEW at, NEW T
  PROVE  Tagged(at, T) \in SUBSET Logs /\ Cardinality(Tagged(at, T)) \in Nat
<1>1. Tagged(at, T) \in SUBSET Logs
  BY DEF Tagged
<1> QED
  BY <1>1, LogsFinite

\* The numbers of the logs in the hands of workers, too.
LEMMA CarriedSize ==
  ASSUME NEW ps, NEW ts, NEW p
  PROVE  Carried(ps, ts, p) \in SUBSET Logs /\ Cardinality(Carried(ps, ts, p)) \in Nat
<1>1. Carried(ps, ts, p) \in SUBSET Logs
  BY DEF Carried
<1> QED
  BY <1>1, LogsFinite

\* Logs move from one kind of place to another: a count that has both kinds or
\* neither keeps, the others change by the number of the logs.
LEMMA MoveCounts ==
  ASSUME NEW at, NEW by, NEW at2, NEW by2, NEW M, NEW p, NEW t, Moves(at, by, at2, by2, M, p, t), NEW T
  PROVE  /\ (p \in T <=> t \in T) => Tagged(at2, T) = Tagged(at, T)
         /\ p \notin T /\ t \in T =>
              Cardinality(Tagged(at2, T)) = Cardinality(Tagged(at, T)) + Cardinality(M)
         /\ p \in T /\ t \notin T =>
              Cardinality(Tagged(at, T)) = Cardinality(Tagged(at2, T)) + Cardinality(M)
<1> DEFINE old == Tagged(at, T)
           new == Tagged(at2, T)
<1>1. \A l \in Logs : at2[l] = IF l \in M THEN t ELSE at[l]
  BY DEF Move, Moves
<1>0. M \in SUBSET Logs /\ \A l \in M : at[l] = p
  BY DEF Moves
<1>2. old \in SUBSET Logs /\ new \in SUBSET Logs
  BY DEF Tagged
<1>3. \A l \in Logs : /\ l \in old <=> at[l] \in T
                      /\ l \in new <=> IF l \in M THEN t \in T ELSE at[l] \in T
  BY <1>1 DEF Tagged
<1> HIDE DEF old, new
<1>4. (p \in T <=> t \in T) => new = old
  <2> SUFFICES ASSUME p \in T <=> t \in T
               PROVE  \A l \in Logs : l \in new <=> l \in old
    BY <1>2
  <2> QED
    BY <1>0, <1>3
<1>5. ASSUME p \notin T, t \in T
      PROVE  Cardinality(new) = Cardinality(old) + Cardinality(M)
  <2>1. new = old \cup M /\ old \cap M = {}
    BY <1>0, <1>2, <1>3, <1>5
  <2> QED
    BY <1>0, <1>2, <2>1, SizeSplit
<1>6. ASSUME p \in T, t \notin T
      PROVE  Cardinality(old) = Cardinality(new) + Cardinality(M)
  <2>1. old = new \cup M /\ new \cap M = {}
    BY <1>0, <1>2, <1>3, <1>6
  <2> QED
    BY <1>0, <1>2, <2>1, SizeSplit
<1> QED
  BY <1>4, <1>5, <1>6 DEF old, new

\* The logs of a task are the worker's.
LEMMA TaskBy ==
  ASSUME NEW at, NEW by, NEW w, NEW p, NEW s, NEW t, WorkerHas(at, by, w, p, s, t),
         p \in TaskPcs \cup {"release"}
  PROVE  /\ t \in SUBSET Logs
         /\ \A l \in t : by[l] = w
         /\ p # "release" /\ First(s, t) => \A l \in t : at[l] = "list"
         /\ p # "release" /\ ~First(s, t) => \A l \in t : at[l] = "task"
<1>1. t \in SUBSET Logs
  BY DEF WorkerHas
<1>2. CASE p = "release"
  BY <1>1, <1>2 DEF WorkerHas, TaskPcs
<1>3. CASE p # "release" /\ ~First(s, t)
  BY <1>1, <1>3 DEF WorkerHas
<1>4. CASE p # "release" /\ First(s, t)
  <2>1. s \in Seq(SUBSET Logs) /\ s # <<>> /\ t = Head(s)
    BY <1>4 DEF WorkerHas, First
  <2>2. 1 \in 1..Len(s) /\ t = s[1]
    BY <2>1
  <2> QED
    BY <1>1, <1>4, <2>2 DEF WorkerHas
<1> QED
  BY <1>2, <1>3, <1>4

\* Two workers have no log of their tasks in common.
LEMMA TasksApart ==
  ASSUME NEW at, NEW by, Placed(at, by),
         NEW v \in Workers, NEW w \in Workers, v # w,
         wpc[v] \in TaskPcs \cup {"release"}, wpc[w] \in TaskPcs \cup {"release"}
  PROVE  task[v] \cap task[w] = {}
<1>1. WorkerHas(at, by, v, wpc[v], wlist[v], task[v]) /\ WorkerHas(at, by, w, wpc[w], wlist[w], task[w])
  BY DEF Placed
<1>2. (\A l \in task[v] : by[l] = v) /\ (\A l \in task[w] : by[l] = w)
  BY <1>1, TaskBy
<1> QED
  BY <1>2

\* A worker goes from one step to another, with a task that is its own.
Turns(ps, ps2, w, q) == ps2[w] = q /\ \A v \in Workers : v # w => ps2[v] = ps[v]
Own(ps, ts, w, r) == ts[w] \in SUBSET Logs /\ \A v \in Workers : v # w /\ ps[v] = r => ts[v] \cap ts[w] = {}

\* The logs of the tasks at a step are more by this task, less, or the same.
LEMMA CarriedMove ==
  ASSUME NEW ps, NEW ts, NEW ps2, NEW w \in Workers, NEW q, NEW r, Turns(ps, ps2, w, q), Own(ps, ts, w, r),
         q # ps[w]
  PROVE  /\ r # ps[w] /\ r # q => Carried(ps2, ts, r) = Carried(ps, ts, r)
         /\ r = q => Cardinality(Carried(ps2, ts, r))
                       = Cardinality(Carried(ps, ts, r)) + Cardinality(ts[w])
         /\ r = ps[w] => Cardinality(Carried(ps, ts, r))
                       = Cardinality(Carried(ps2, ts, r)) + Cardinality(ts[w])
<1> DEFINE old == Carried(ps, ts, r)
           new == Carried(ps2, ts, r)
<1> USE DEF Turns, Own
<1>1. old \in SUBSET Logs /\ new \in SUBSET Logs
  BY DEF Carried
<1>2. \A v \in Workers : ps2[v] = IF v = w THEN q ELSE ps[v]
  OBVIOUS
<1>3. \A l \in Logs : l \in old <=> \E v \in Workers : ps[v] = r /\ l \in ts[v]
  BY DEF Carried
<1>4. \A l \in Logs : l \in new <=> \E v \in Workers : (IF v = w THEN q ELSE ps[v]) = r /\ l \in ts[v]
  BY <1>2 DEF Carried
<1> HIDE DEF old, new
<1>5. ASSUME r # ps[w], r # q
      PROVE  new = old
  <2>1. \A l \in Logs : l \in new <=> l \in old
    BY <1>3, <1>4, <1>5
  <2> QED
    BY <1>1, <2>1
<1>6. ASSUME r = q
      PROVE  Cardinality(new) = Cardinality(old) + Cardinality(ts[w])
  <2>1. \A l \in Logs : l \in new <=> l \in old \/ l \in ts[w]
    BY <1>3, <1>4, <1>6
  <2>2. old \cap ts[w] = {}
    BY <1>1, <1>3, <1>6
  <2>3. new = old \cup ts[w]
    BY <1>1, <2>1
  <2> QED
    BY <1>1, <2>2, <2>3, SizeSplit
<1>7. ASSUME r = ps[w]
      PROVE  Cardinality(old) = Cardinality(new) + Cardinality(ts[w])
  <2>1. \A l \in Logs : l \in old <=> l \in new \/ l \in ts[w]
    BY <1>3, <1>4, <1>7
  <2>2. new \cap ts[w] = {}
    BY <1>1, <1>4, <1>7
  <2>3. old = new \cup ts[w]
    BY <1>1, <2>1
  <2> QED
    BY <1>1, <2>2, <2>3, SizeSplit
<1> QED
  BY <1>5, <1>6, <1>7 DEF old, new

\* The workers at a step, and their tasks, are the same.
LEMMA CarriedKeeps ==
  ASSUME NEW ps, NEW ts, NEW ps2, NEW ts2, NEW r,
         \A v \in Workers : ps[v] = r \/ ps2[v] = r => ps2[v] = ps[v] /\ ts2[v] = ts[v]
  PROVE  Carried(ps2, ts2, r) = Carried(ps, ts, r)
BY DEF Carried

\* The number of workers that compress.
LEMMA Compressing ==
  ASSUME NEW ps, NEW ps2, NEW w \in Workers, NEW q, Turns(ps, ps2, w, q)
  PROVE  /\ Cardinality(Packing(ps)) \in Nat /\ Cardinality(Packing(ps2)) \in Nat
         /\ ps[w] # "compress" /\ q = "compress" => Cardinality(Packing(ps2)) = Cardinality(Packing(ps)) + 1
         /\ ps[w] = "compress" /\ q # "compress" => Cardinality(Packing(ps)) = Cardinality(Packing(ps2)) + 1
         /\ ps[w] # "compress" /\ q # "compress" => Packing(ps2) = Packing(ps)
<1>0. PICK old, new : old = Packing(ps) /\ new = Packing(ps2)
  OBVIOUS
<1>1. IsFiniteSet(old) /\ IsFiniteSet(new)
  BY <1>0, IngressAssumption, FS_Subset DEF Packing
<1>2. Cardinality(old) \in Nat /\ Cardinality(new) \in Nat
  BY <1>1, FS_CardinalityType
<1>3. \A v : /\ v \in old <=> v \in Workers /\ ps[v] = "compress"
             /\ v \in new <=> v \in Workers /\ (IF v = w THEN q ELSE ps[v]) = "compress"
  BY <1>0 DEF Turns, Packing
<1>4. ASSUME ps[w] # "compress", q = "compress"
      PROVE  Cardinality(new) = Cardinality(old) + 1
  <2>1. new = old \cup {w} /\ w \notin old
    BY <1>3, <1>4
  <2> QED
    BY <1>1, <2>1, FS_AddElement
<1>5. ASSUME ps[w] = "compress", q # "compress"
      PROVE  Cardinality(old) = Cardinality(new) + 1
  <2>1. old = new \cup {w} /\ w \notin new
    BY <1>3, <1>5
  <2> QED
    BY <1>1, <2>1, FS_AddElement
<1>6. ASSUME ps[w] # "compress", q # "compress"
      PROVE  new = old
  BY <1>3, <1>6
<1> QED
  BY <1>0, <1>2, <1>4, <1>5, <1>6

\* What a writer has stays when none of its logs moves and none comes to it.
LEMMA WriterKeeps ==
  ASSUME NEW at, NEW by, NEW at2, NEW by2, NEW a, NEW b, NEW p, NEW r,
         WriterHas(at, by, a, b, p, r),
         \A l \in Logs, t \in WriterTags : at[l] = t /\ by[l] = a <=> at2[l] = t /\ by2[l] = a
  PROVE  WriterHas(at2, by2, a, b, p, r)
BY DEF WriterHas, WriterTags, LogPcs, WriterPcs

\* The same for a worker; a batch that it has handed on may go through the
\* hands of the senders meanwhile.
LEMMA WorkerKeeps ==
  ASSUME NEW at, NEW by, NEW at2, NEW by2, NEW w, NEW p, NEW s, NEW t,
         WorkerHas(at, by, w, p, s, t),
         \A l \in Logs, g \in WorkerTags : at[l] = g /\ by[l] = w <=> at2[l] = g /\ by2[l] = w,
         \A l \in Logs : by[l] = w /\ at[l] \in SenderTags \cup {"done"} =>
                         by2[l] = w /\ at2[l] \in SenderTags \cup {"done"}
  PROVE  WorkerHas(at2, by2, w, p, s, t)
<1>1. t \in SUBSET Logs
  BY DEF WorkerHas
<1>2. p = "release" => \A l \in t : by2[l] = w /\ at2[l] \in SenderTags \cup {"done"}
  BY <1>1 DEF WorkerHas
<1>3. \A l \in Logs : at2[l] = "list" /\ by2[l] = w <=>
                     \E i \in 1..Len(s) : l \in s[i] /\ (i = 1 => p # "release")
  BY DEF WorkerHas, WorkerTags
<1>4. \A l \in Logs : at2[l] = "task" /\ by2[l] = w <=> p \in TaskPcs /\ ~First(s, t) /\ l \in t
  BY DEF WorkerHas, WorkerTags
<1> QED
  BY <1>2, <1>3, <1>4 DEF WorkerHas

\* What the queues have stays when no log joins or leaves them.
LEMMA QueuesKeep ==
  ASSUME NEW at, NEW at2, NEW q, NEW its, NEW bs, NEW s, QueuesHave(at, q, its, bs, s),
         \A l \in Logs, t \in QueueTags : at[l] = t <=> at2[l] = t
  PROVE  QueuesHave(at2, q, its, bs, s)
BY DEF QueuesHave, QueueTags

\* The same for the senders.
LEMMA SendersKeep ==
  ASSUME NEW at, NEW at2, NEW q, NEW f, SendersHave(at, q, f),
         \A l \in Logs, t \in SenderTags : at[l] = t <=> at2[l] = t
  PROVE  SendersHave(at2, q, f)
BY DEF SendersHave, SenderTags

\* A log that is done with was answered or lost.
LEMMA HistoryKeeps ==
  ASSUME NEW at, NEW at2, NEW n, NEW ans, NEW ls, NEW ans2, NEW ls2, HistoryHas(at, n, ans, ls),
         ans \subseteq ans2, ls \subseteq ls2,
         \A l \in Logs : at[l] = "new" <=> at2[l] = "new",
         \A l \in Logs : at2[l] = "done" => at[l] = "done" \/ l \in ans2 \cup ls2
  PROVE  HistoryHas(at2, n, ans2, ls2)
BY DEF HistoryHas

\* Where logs move, only the writers of X and the workers of Y have to do with
\* it; a log that the senders have or had keeps its worker.
Frame(at, by, at2, by2, X, Y) ==
  \A l \in Logs :
    \/ at2[l] = at[l] /\ by2[l] = by[l]
    \/ /\ at[l] \in WriterTags => by[l] \in X
       /\ at2[l] \in WriterTags => by2[l] \in X
       /\ at[l] \in WorkerTags => by[l] \in Y
       /\ at2[l] \in WorkerTags => by2[l] \in Y
       /\ at[l] \in SenderTags \cup {"done"} => at2[l] \in SenderTags \cup {"done"} /\ by2[l] = by[l]

\* The other threads have what they had.
LEMMA FrameKeeps ==
  ASSUME NEW at, NEW by, Placed(at, by), NEW at2, NEW by2,
         NEW X \in SUBSET Writers, NEW Y \in SUBSET Workers, Frame(at, by, at2, by2, X, Y)
  PROVE  /\ \A l \in Logs : at2[l] \in WriterTags => by2[l] \in Writers
         /\ \A l \in Logs : at2[l] \in WorkerTags => by2[l] \in Workers
         /\ \A v \in Writers \ X : WriterHas(at2, by2, v, tls[v], pc[v], req[v])
         /\ \A v \in Workers \ Y : WorkerHas(at2, by2, v, wpc[v], wlist[v], task[v])
<1>1. \A l \in Logs : at2[l] \in WriterTags => by2[l] \in Writers
  BY DEF Placed, Frame
<1>2. \A l \in Logs : at2[l] \in WorkerTags => by2[l] \in Workers
  BY DEF Placed, Frame
<1>3. ASSUME NEW v \in Writers \ X
      PROVE  WriterHas(at2, by2, v, tls[v], pc[v], req[v])
  <2>1. \A l \in Logs, g \in WriterTags : at[l] = g /\ by[l] = v <=> at2[l] = g /\ by2[l] = v
    BY DEF Frame
  <2>2. WriterHas(at, by, v, tls[v], pc[v], req[v])
    BY DEF Placed
  <2> QED
    BY <2>1, <2>2, WriterKeeps
<1>4. ASSUME NEW v \in Workers \ Y
      PROVE  WorkerHas(at2, by2, v, wpc[v], wlist[v], task[v])
  <2>1. \A l \in Logs, g \in WorkerTags : at[l] = g /\ by[l] = v <=> at2[l] = g /\ by2[l] = v
    BY DEF Frame
  <2>2. \A l \in Logs : by[l] = v /\ at[l] \in SenderTags \cup {"done"} =>
                         by2[l] = v /\ at2[l] \in SenderTags \cup {"done"}
    BY DEF Frame
  <2>3. WorkerHas(at, by, v, wpc[v], wlist[v], task[v])
    BY DEF Placed
  <2> QED
    BY <2>1, <2>2, <2>3, WorkerKeeps
<1> QED
  BY <1>1, <1>2, <1>3, <1>4

\* Only the writers of X have changed.
OnlyWriters(X) ==
  /\ Shaped'
  /\ \A v \in Writers \ X : tls'[v] = tls[v] /\ pc'[v] = pc[v] /\ req'[v] = req[v]
  /\ UNCHANGED <<wpc, wlist, task, sendq, inflight>>

\* A writer moves logs, from it or to it or not: what the workers, the senders
\* and the other writers have is the same.
LEMMA WriterStepKeeps ==
  ASSUME NEW at, NEW by, Placed(at, by), NEW at2 \in [Logs -> Tags], NEW by2,
         NEW X \in SUBSET Writers, OnlyWriters(X), Frame(at, by, at2, by2, X, {}),
         \A l \in Logs, t \in SenderTags : at[l] = t <=> at2[l] = t,
         \A v \in X : WriterHas(at2, by2, v, tls'[v], pc'[v], req'[v]),
         QueuesHave(at2, ingress', items', builder', sealed'),
         HistoryHas(at2, next', answered', lost'),
         Counted(at2, wpc, task, tlsB', ingressB', queueB', sendB', inflightB', scratchB')
  PROVE  LogInv'
<1>1. /\ \A l \in Logs : at2[l] \in WriterTags => by2[l] \in Writers
      /\ \A l \in Logs : at2[l] \in WorkerTags => by2[l] \in Workers
      /\ \A v \in Writers \ X : WriterHas(at2, by2, v, tls[v], pc[v], req[v])
      /\ \A v \in Workers : WorkerHas(at2, by2, v, wpc[v], wlist[v], task[v])
  <2>1. {} \in SUBSET Workers
    OBVIOUS
  <2> QED
    BY <2>1, FrameKeeps
<1>2. SendersHave(at2, sendq, inflight)
  BY SendersKeep DEF Placed
<1>3. \A v \in Writers : WriterHas(at2, by2, v, tls'[v], pc'[v], req'[v])
  BY <1>1 DEF OnlyWriters
<1>4. Placed(at2, by2)'
  BY <1>1, <1>2, <1>3 DEF Placed, OnlyWriters
<1>5. Counted(at2, wpc, task, tlsB, ingressB, queueB, sendB, inflightB, scratchB)'
  BY DEF OnlyWriters
<1> QED
  BY <1>4, <1>5 DEF LogInv, OnlyWriters

\* The log a writer is writing goes on.
LEMMA WriterGoes ==
  ASSUME NEW at, NEW by, NEW a, NEW b, NEW p, NEW r, WriterHas(at, by, a, b, p, r),
         NEW at2, NEW by2, NEW t, Moves(at, by, at2, by2, {r.log}, p, t),
         p \in LogPcs, t # p,
         t \in WriterTags => by2[r.log] = a,
         NEW b2, b2 = IF t = "tls" THEN b \cup {r.log} ELSE b,
         NEW p2 \in WriterPcs, NEW r2,
         t \in LogPcs => p2 = t /\ r2.log = r.log,
         t \notin LogPcs => p2 \notin LogPcs
  PROVE  WriterHas(at2, by2, a, b2, p2, r2)
<1>1. r.log \in Logs /\ at2 = Move(at, {r.log}, t) /\ \A l \in Logs : l # r.log => by2[l] = by[l]
  BY DEF WriterHas, Moves
<1>2. \A l \in Logs : at2[l] = IF l = r.log THEN t ELSE at[l]
  BY <1>1 DEF Move
<1>3. \A l \in Logs : l \in b2 <=> at2[l] = "tls" /\ by2[l] = a
  <2> SUFFICES ASSUME NEW l \in Logs
               PROVE  l \in b2 <=> at2[l] = "tls" /\ by2[l] = a
    OBVIOUS
  <2>1. CASE l = r.log
    BY <1>2, <2>1 DEF WriterHas, WriterTags, LogPcs, WriterPcs
  <2>2. CASE l # r.log
    BY <1>1, <1>2, <2>2 DEF WriterHas
  <2> QED
    BY <2>1, <2>2
<1>4. ASSUME NEW l \in Logs, NEW g \in LogPcs
      PROVE  p2 = g /\ r2.log = l <=> at2[l] = g /\ by2[l] = a
  <2>1. CASE l = r.log
    BY <1>2, <2>1 DEF WriterTags, LogPcs, WriterPcs
  <2>2. CASE l # r.log
    <3>1. ~(at[l] = g /\ by[l] = a)
      BY <2>2 DEF WriterHas
    <3> QED
      BY <1>1, <1>2, <2>2, <3>1
  <2> QED
    BY <2>1, <2>2
<1>5. b2 \subseteq Logs
  BY <1>1 DEF WriterHas
<1>6. p2 \in LogPcs => r2.log \in Logs
  BY <1>1
<1> QED
  BY <1>3, <1>4, <1>5, <1>6 DEF WriterHas

\* The thread-local batch of a writer goes elsewhere.
LEMMA WriterEmpties ==
  ASSUME NEW at, NEW by, NEW a, NEW b, NEW p, NEW r, WriterHas(at, by, a, b, p, r),
         NEW at2, NEW by2,
         \A l \in b : at2[l] \notin WriterTags,
         \A l \in Logs, t \in WriterTags : l \notin b => (at[l] = t /\ by[l] = a <=> at2[l] = t /\ by2[l] = a),
         p \notin LogPcs,
         NEW p2 \in WriterPcs \ LogPcs, NEW r2
  PROVE  WriterHas(at2, by2, a, {}, p2, r2)
<1>1. \A l \in Logs : ~(at2[l] = "tls" /\ by2[l] = a)
  BY DEF WriterHas, WriterTags
<1>2. ASSUME NEW l \in Logs, NEW g \in LogPcs
      PROVE  ~(at2[l] = g /\ by2[l] = a)
  BY DEF WriterHas, WriterTags, LogPcs, WriterPcs
<1> QED
  BY <1>1, <1>2 DEF WriterHas

\* A writer goes on and its logs stay.
LEMMA WriterTurns ==
  ASSUME NEW at, NEW by, NEW a, NEW b, NEW p, NEW r, WriterHas(at, by, a, b, p, r),
         p \notin LogPcs,
         NEW p2 \in WriterPcs \ LogPcs, NEW r2
  PROVE  WriterHas(at, by, a, b, p2, r2)
BY DEF WriterHas

\* What a log that goes from a place of one kind to another adds to a count.
Adds(p, t, T) == IF t \in T /\ p \notin T THEN 1 ELSE 0
Drops(p, t, T) == IF p \in T /\ t \notin T THEN 1 ELSE 0

\* Batches that are built are sealed.
Reseals(at, at2) ==
  /\ at2 \in [Logs -> Tags]
  /\ \A l \in Logs : at2[l] = at[l] \/ {at[l], at2[l]} \subseteq {"default", "key", "sealed"}

\* The log that a writer is writing leaves its place: it is queued, joins the
\* batch of its thread, is refused, or the writer goes on with it.  Batches may
\* be sealed in the same step.
LEMMA LogGoes ==
  ASSUME NEW at, NEW by, Placed(at, by),
         Counted(at, wpc, task, tlsB, ingressB, queueB, sendB, inflightB, scratchB),
         NEW a \in Writers, OnlyWriters({a}), pc[a] \in LogPcs,
         NEW t \in WriterTags \cup QueueTags \cup {"done"}, t # pc[a], t # "ingress",
         NEW at2, Reseals(Move(at, {req[a].log}, t), at2),
         tls'[a] = IF t = "tls" THEN tls[a] \cup {req[a].log} ELSE tls[a],
         pc'[a] \in WriterPcs,
         t \in LogPcs => pc'[a] = t /\ req'[a].log = req[a].log,
         t \notin LogPcs => pc'[a] \notin LogPcs,
         QueuesHave(at2, ingress', items', builder', sealed'),
         next' = next, answered \subseteq answered', lost \subseteq lost',
         t = "done" => req[a].log \in answered' \cup lost',
         tlsB' = tlsB + Adds(pc[a], t, {"tls", "append"}) - Drops(pc[a], t, {"tls", "append"}),
         queueB' = queueB + Adds(pc[a], t, CountedTags) - Drops(pc[a], t, CountedTags),
         UNCHANGED <<ingressB, sendB, inflightB, scratchB>>
  PROVE  LogInv'
<1>1. WriterHas(at, by, a, tls[a], pc[a], req[a]) /\ HistoryHas(at, next, answered, lost)
  BY DEF Placed
<1>2. PICK M, at1, p : M = {req[a].log} /\ at1 = Move(at, M, t) /\ p = pc[a]
  OBVIOUS
<1>3. req[a].log \in Logs /\ at[req[a].log] = p /\ by[req[a].log] = a
  BY <1>1, <1>2 DEF WriterHas
<1>4. Moves(at, by, at1, by, M, p, t)
  BY <1>2, <1>3 DEF Moves, Tags, WriterTags, QueueTags, LogPcs
<1>5. \A l \in Logs : at1[l] = IF l = req[a].log THEN t ELSE at[l]
  BY <1>2 DEF Move
<1>6. Reseals(at1, at2)
  BY <1>2
<1>7. WriterHas(at2, by, a, tls'[a], pc'[a], req'[a])
  <2>1. /\ WriterHas(at, by, a, tls[a], p, req[a]) /\ Moves(at, by, at1, by, {req[a].log}, p, t)
        /\ p \in LogPcs /\ t # p
        /\ t \in WriterTags => by[req[a].log] = a
    BY <1>1, <1>2, <1>3, <1>4
  <2>2. PICK r, b2, p2, r2 : r = req[a] /\ b2 = tls'[a] /\ p2 = pc'[a] /\ r2 = req'[a]
    OBVIOUS
  <2>3. /\ b2 = IF t = "tls" THEN tls[a] \cup {r.log} ELSE tls[a]
        /\ p2 \in WriterPcs
        /\ t \in LogPcs => p2 = t /\ r2.log = r.log
        /\ t \notin LogPcs => p2 \notin LogPcs
    BY <2>2
  <2>4. WriterHas(at1, by, a, b2, p2, r2)
    BY <2>1, <2>2, <2>3, WriterGoes
  <2>5. \A l \in Logs, g \in WriterTags : at1[l] = g /\ by[l] = a <=> at2[l] = g /\ by[l] = a
    BY <1>6 DEF Reseals, WriterTags
  <2>6. WriterHas(at2, by, a, b2, p2, r2)
    BY <2>4, <2>5, WriterKeeps
  <2> QED
    BY <2>2, <2>6
<1>8. HistoryHas(at2, next', answered', lost')
  <2>1. /\ \A l \in Logs : at[l] = "new" <=> at1[l] = "new"
        /\ \A l \in Logs : at1[l] = "done" => at[l] = "done" \/ l \in answered' \cup lost'
    BY <1>2, <1>3, <1>5 DEF WriterTags, QueueTags, LogPcs
  <2>2. \A l \in Logs, g \in {"new", "done"} : at1[l] = g <=> at2[l] = g
    BY <1>6 DEF Reseals
  <2> QED
    BY <1>1, <2>1, <2>2, HistoryKeeps
<1>9. Cardinality(M) = 1
  BY <1>2, FS_Singleton
<1>10. Counted(at2, wpc, task, tlsB', ingressB', queueB', sendB', inflightB', scratchB')
  <2> DEFINE N(f, T) == Cardinality(Tagged(f, T))
  <2>1. ASSUME NEW T, T \cap {"default", "key", "sealed"} \in {{}, {"default", "key", "sealed"}}
        PROVE  N(at, T) \in Nat /\ N(at2, T) = N(at, T) + Adds(p, t, T) - Drops(p, t, T)
    <3>1. N(at, T) \in Nat /\ N(at1, T) \in Nat
      BY TaggedSize
    <3>2. /\ (p \in T <=> t \in T) => N(at1, T) = N(at, T)
          /\ p \notin T /\ t \in T => N(at1, T) = N(at, T) + 1
          /\ p \in T /\ t \notin T => N(at, T) = N(at1, T) + 1
      BY <1>4, <1>9, MoveCounts
    <3>3. \A l \in Logs : at1[l] \in T <=> at2[l] \in T
      BY <1>6, <2>1 DEF Reseals
    <3>4. N(at1, T) = N(at2, T)
      BY <3>3 DEF Tagged
    <3> HIDE DEF N
    <3> QED
      BY <3>1, <3>2, <3>4 DEF Adds, Drops
  <2> HIDE DEF N
  <2>2. /\ N(at2, {"ingress"}) = N(at, {"ingress"})
        /\ N(at2, {"sendq"}) = N(at, {"sendq"})
        /\ N(at2, {"inflight"}) = N(at, {"inflight"})
    <3>1. \A T \in {{"ingress"}, {"sendq"}, {"inflight"}} :
            /\ Adds(p, t, T) = 0 /\ Drops(p, t, T) = 0
            /\ T \cap {"default", "key", "sealed"} = {}
      BY <1>2 DEF Adds, Drops, WriterTags, QueueTags, LogPcs
    <3> QED
      BY <2>1, <3>1
  <2>3. Cardinality(Carried(wpc, task, "release")) \in Nat
    BY CarriedSize
  <2>4. queueB' = N(at2, CountedTags) + Cardinality(Carried(wpc, task, "release"))
    <3>1. queueB = N(at, CountedTags) + Cardinality(Carried(wpc, task, "release"))
      BY DEF Counted, N
    <3>2. CountedTags \cap {"default", "key", "sealed"} = {"default", "key", "sealed"}
      BY DEF CountedTags
    <3>3. /\ N(at, CountedTags) \in Nat
          /\ N(at2, CountedTags) = N(at, CountedTags) + Adds(p, t, CountedTags) - Drops(p, t, CountedTags)
      BY <2>1, <3>2
    <3>4. Adds(p, t, CountedTags) \in Nat /\ Drops(p, t, CountedTags) \in Nat
      BY DEF Adds, Drops
    <3> QED
      BY <1>2, <2>3, <3>1, <3>3, <3>4
  <2>5. tlsB' = N(at2, {"tls", "append"})
    <3>1. {"tls", "append"} \cap {"default", "key", "sealed"} = {}
      OBVIOUS
    <3> QED
      BY <1>2, <2>1, <3>1 DEF Counted, N
  <2> QED
    BY <2>2, <2>4, <2>5 DEF Counted, N
<1>11. Frame(at, by, at2, by, {a}, {})
  <2> SUFFICES ASSUME NEW l \in Logs
               PROVE  \/ at2[l] = at[l]
                      \/ /\ at[l] \in WriterTags => by[l] \in {a}
                         /\ at2[l] \in WriterTags => by[l] \in {a}
                         /\ at[l] \notin WorkerTags /\ at2[l] \notin WorkerTags
                         /\ at[l] \notin SenderTags \cup {"done"}
    BY DEF Frame
  <2>1. CASE l = req[a].log
    <3>1. at[l] \in LogPcs /\ by[l] = a /\ at1[l] = t
      BY <1>2, <1>3, <1>5, <2>1
    <3>2. at2[l] \notin WorkerTags
      BY <1>6, <3>1 DEF Reseals, WriterTags, QueueTags, WorkerTags
    <3> QED
      BY <3>1, <3>2 DEF LogPcs, WorkerTags, SenderTags
  <2>2. CASE l # req[a].log
    BY <1>5, <1>6, <2>2 DEF Reseals, WriterTags, WorkerTags, SenderTags
  <2> QED
    BY <2>1, <2>2
<1>12. at2 \in [Logs -> Tags] /\ \A l \in Logs, g \in SenderTags : at[l] = g <=> at2[l] = g
  BY <1>2, <1>3, <1>5, <1>6 DEF Reseals, SenderTags, WriterTags, QueueTags, LogPcs
<1> QED
  BY <1>7, <1>8, <1>10, <1>11, <1>12, WriterStepKeeps

\* The queues have what they had when the log stays out of them.
LEMMA QueuesKeepOut ==
  ASSUME NEW at, NEW l0, NEW t, t \notin QueueTags, at[l0] \notin QueueTags,
         NEW q, NEW its, NEW bs, NEW s, QueuesHave(at, q, its, bs, s)
  PROVE  QueuesHave(Move(at, {l0}, t), q, its, bs, s)
<1>1. \A l \in Logs, g \in QueueTags : at[l] = g <=> Move(at, {l0}, t)[l] = g
  BY DEF Move
<1> QED
  BY <1>1, QueuesKeep

\* A sequence gets longer.
LEMMA Appended ==
  ASSUME NEW S, NEW s \in Seq(S), NEW e \in S
  PROVE  /\ Append(s, e) \in Seq(S)
         /\ Len(s) \in Nat /\ Len(Append(s, e)) = Len(s) + 1
         /\ \A i \in 1..Len(s) : Append(s, e)[i] = s[i]
         /\ Append(s, e)[Len(s) + 1] = e
OBVIOUS

\* A log joins the queue of raw items.
LEMMA QueueItem ==
  ASSUME NEW at, NEW q, NEW its, NEW bs, NEW s, QueuesHave(at, q, its, bs, s),
         NEW l0 \in Logs, at[l0] \notin QueueTags
  PROVE  QueuesHave(Move(at, {l0}, "item"), q, Append(its, l0), bs, s)
<1> DEFINE at2 == Move(at, {l0}, "item")
           its2 == Append(its, l0)
<1>1. \A l \in Logs : at2[l] = IF l = l0 THEN "item" ELSE at[l]
  BY DEF Move
<1>2. its \in Seq(Logs)
  BY DEF QueuesHave
<1>3. /\ its2 \in Seq(Logs) /\ Len(its) \in Nat /\ Len(its2) = Len(its) + 1
      /\ \A i \in 1..Len(its) : its2[i] = its[i]
      /\ its2[Len(its) + 1] = l0
  BY <1>2, Appended
<1> HIDE DEF at2, its2
<1>4. \A l \in Logs : at2[l] = "item" <=> \E i \in 1..Len(its2) : l = its2[i]
  <2> SUFFICES ASSUME NEW l \in Logs
               PROVE  at2[l] = "item" <=> \E i \in 1..Len(its2) : l = its2[i]
    OBVIOUS
  <2>1. CASE l = l0
    <3>1. Len(its) + 1 \in 1..Len(its2)
      BY <1>3
    <3> QED
      BY <1>1, <1>3, <2>1, <3>1
  <2>2. CASE l # l0
    <3>1. at2[l] = "item" <=> \E i \in 1..Len(its) : l = its[i]
      BY <1>1, <2>2 DEF QueuesHave
    <3>2. (\E i \in 1..Len(its) : l = its[i]) <=> \E i \in 1..Len(its2) : l = its2[i]
      BY <1>3, <2>2
    <3> QED
      BY <3>1, <3>2
  <2> QED
    BY <2>1, <2>2
<1>5. ASSUME NEW i \in 1..Len(its2), NEW j \in 1..Len(its2), i # j
      PROVE  its2[i] # its2[j]
  <2>1. \A k \in 1..Len(its) : its[k] # l0
    BY DEF QueuesHave, QueueTags
  <2>2. i = Len(its) + 1 \/ i \in 1..Len(its)
    BY <1>3
  <2>3. j = Len(its) + 1 \/ j \in 1..Len(its)
    BY <1>3
  <2> QED
    BY <1>3, <1>5, <2>1, <2>2, <2>3 DEF QueuesHave
<1>6. \A l \in Logs, g \in QueueTags \ {"item"} : at2[l] = g <=> at[l] = g
  BY <1>1
<1>7. \A l \in Logs : /\ at2[l] = "ingress" <=> at[l] = "ingress"
                      /\ at2[l] = "sealed" <=> at[l] = "sealed"
                      /\ \A k \in {"default", "key"} : at2[l] = k <=> at[l] = k
  BY <1>6 DEF QueueTags
<1>8. QueuesHave(at2, q, its2, bs, s)
  BY <1>3, <1>4, <1>5, <1>7 DEF QueuesHave
<1> QED
  BY <1>8 DEF at2, its2

\* A log joins a builder.
LEMMA QueueBuild ==
  ASSUME NEW at, NEW q, NEW its, NEW bs, NEW s, QueuesHave(at, q, its, bs, s),
         NEW l0 \in Logs, at[l0] \notin QueueTags, NEW k \in {"default", "key"}
  PROVE  QueuesHave(Move(at, {l0}, k), q, its, [bs EXCEPT ![k] = bs[k] \cup {l0}], s)
<1> DEFINE at2 == Move(at, {l0}, k)
           bs2 == [bs EXCEPT ![k] = bs[k] \cup {l0}]
<1>1. \A l \in Logs : at2[l] = IF l = l0 THEN k ELSE at[l]
  BY DEF Move
<1>2. bs \in [{"default", "key"} -> SUBSET Logs]
  BY DEF QueuesHave
<1>3. bs2 \in [{"default", "key"} -> SUBSET Logs]
      /\ \A j \in {"default", "key"} : bs2[j] = IF j = k THEN bs[k] \cup {l0} ELSE bs[j]
  BY <1>2
<1> HIDE DEF at2, bs2
<1>4. \A l \in Logs, j \in {"default", "key"} : at2[l] = j <=> l \in bs2[j]
  <2>1. \A l \in Logs, j \in {"default", "key"} : at[l] = j <=> l \in bs[j]
    BY DEF QueuesHave
  <2> QED
    BY <1>1, <1>3, <2>1 DEF QueueTags
<1>5. \A l \in Logs, g \in QueueTags \ {"default", "key"} : at2[l] = g <=> at[l] = g
  BY <1>1
<1>6. \A l \in Logs : /\ at2[l] = "ingress" <=> at[l] = "ingress"
                      /\ at2[l] = "sealed" <=> at[l] = "sealed"
                      /\ at2[l] = "item" <=> at[l] = "item"
  BY <1>5 DEF QueueTags
<1>7. QueuesHave(at2, q, its, bs2, s)
  BY <1>3, <1>4, <1>6 DEF QueuesHave
<1> QED
  BY <1>7 DEF at2, bs2

\* A batch is added to a list of batches that have no log in common.
LEMMA AddBatch ==
  ASSUME NEW s \in Seq(SUBSET Logs), Apart(Len(s), s), NEW b \in SUBSET Logs,
         \A l \in b : ~Within(l, Len(s), s)
  PROVE  /\ Append(s, b) \in Seq(SUBSET Logs)
         /\ Apart(Len(Append(s, b)), Append(s, b))
         /\ \A l : Within(l, Len(Append(s, b)), Append(s, b)) <=> Within(l, Len(s), s) \/ l \in b
<1> DEFINE s2 == Append(s, b)
<1>1. /\ s2 \in Seq(SUBSET Logs) /\ Len(s) \in Nat /\ Len(s2) = Len(s) + 1
      /\ \A i \in 1..Len(s) : s2[i] = s[i]
      /\ s2[Len(s) + 1] = b
  BY Appended
<1> HIDE DEF s2
<1>2. \A i \in 1..Len(s2) : i = Len(s) + 1 \/ i \in 1..Len(s)
  BY <1>1
<1>3. Apart(Len(s2), s2)
  <2> SUFFICES ASSUME NEW i \in 1..Len(s2), NEW j \in 1..Len(s2), i # j
               PROVE  s2[i] \cap s2[j] = {}
    BY DEF Apart
  <2>1. \A k \in 1..Len(s) : s[k] \cap b = {}
    BY DEF Within
  <2>2. CASE i \in 1..Len(s) /\ j \in 1..Len(s)
    BY <1>1, <2>2 DEF Apart
  <2> QED
    BY <1>1, <1>2, <2>1, <2>2
<1>4. ASSUME NEW l
      PROVE  Within(l, Len(s2), s2) <=> Within(l, Len(s), s) \/ l \in b
  <2>1. Len(s) + 1 \in 1..Len(s2) /\ \A i \in 1..Len(s) : i \in 1..Len(s2)
    BY <1>1
  <2> QED
    BY <1>1, <1>2, <2>1 DEF Within
<1> QED
  BY <1>1, <1>3, <1>4 DEF s2

\* The batch of a builder is sealed.
LEMMA QueueSeal ==
  ASSUME NEW at, NEW q, NEW its, NEW bs, NEW s, QueuesHave(at, q, its, bs, s),
         NEW k \in {"default", "key"}
  PROVE  QueuesHave(Move(at, bs[k], "sealed"), q, its, [bs EXCEPT ![k] = {}], Append(s, bs[k]))
<1> DEFINE at2 == Move(at, bs[k], "sealed")
           bs2 == [bs EXCEPT ![k] = {}]
           s2 == Append(s, bs[k])
<1>1. \A l \in Logs : at2[l] = IF l \in bs[k] THEN "sealed" ELSE at[l]
  BY DEF Move
<1>2. bs \in [{"default", "key"} -> SUBSET Logs] /\ s \in Seq(SUBSET Logs) /\ Apart(Len(s), s)
  BY DEF QueuesHave
<1>3. bs2 \in [{"default", "key"} -> SUBSET Logs]
      /\ \A j \in {"default", "key"} : bs2[j] = IF j = k THEN {} ELSE bs[j]
  BY <1>2
<1>4. /\ \A l \in Logs, j \in {"default", "key"} : at[l] = j <=> l \in bs[j]
      /\ \A l \in Logs : at[l] = "sealed" <=> Within(l, Len(s), s)
  BY DEF QueuesHave
<1>5. /\ s2 \in Seq(SUBSET Logs)
      /\ Apart(Len(s2), s2)
      /\ \A l : Within(l, Len(s2), s2) <=> Within(l, Len(s), s) \/ l \in bs[k]
  <2>1. bs[k] \in SUBSET Logs /\ \A l \in bs[k] : ~Within(l, Len(s), s)
    BY <1>2, <1>4
  <2> QED
    BY <1>2, <2>1, AddBatch
<1> HIDE DEF at2, bs2, s2
<1>6. \A l \in Logs, j \in {"default", "key"} : at2[l] = j <=> l \in bs2[j]
  BY <1>1, <1>3, <1>4
<1>7. \A l \in Logs : at2[l] = "sealed" <=> Within(l, Len(s2), s2)
  BY <1>1, <1>4, <1>5
<1>8. \A l \in Logs, g \in {"ingress", "item"} : at2[l] = g <=> at[l] = g
  BY <1>1, <1>4
<1> QED
  BY <1>3, <1>5, <1>6, <1>7, <1>8 DEF QueuesHave, at2, bs2, s2

\* A new log is written, queued or refused at once.
LEMMA NewHistory ==
  ASSUME NEW at, NEW by, Placed(at, by), next \in Logs, NEW t, t # "new", NEW at2,
         \A l \in Logs : at2[l] = IF l = next THEN t ELSE at[l],
         NEW ans, answered \subseteq ans, t = "done" => next \in ans
  PROVE  HistoryHas(at2, next + 1, ans, lost)
<1>1. HistoryHas(at, next, answered, lost) /\ next \in Nat \ {0} /\ Logs \subseteq Nat
  BY DEF Placed, HistoryHas, Logs
<1>2. \A l \in Logs : at2[l] = "new" <=> l >= next + 1
  BY <1>1 DEF HistoryHas
<1>3. \A l \in Logs : at2[l] = "done" => l \in ans \cup lost
  BY <1>1 DEF HistoryHas
<1> QED
  BY <1>1, <1>2, <1>3 DEF HistoryHas

\* A log is written: it is with its writer, which asks for room.
LEMMA LogWrite ==
  ASSUME LogInv, NEW a \in Writers, NEW kind, NEW force, Write(a, kind, force)
  PROVE  LogInv'
<1>1. PICK at, by : Placed(at, by) /\ Counted(at, wpc, task, tlsB, ingressB, queueB, sendB, inflightB, scratchB)
  BY DEF LogInv
<1>2. PICK r2 : r2 = [kind |-> kind, log |-> next, force |-> force]
  OBVIOUS
<1>3. /\ next \in Logs /\ next' = next + 1 /\ pc[a] = "idle"
      /\ pc' = [pc EXCEPT ![a] = "space"]
      /\ req' = [req EXCEPT ![a] = r2]
      /\ UNCHANGED <<tlsB, ingressB, queueB, sendB, inflightB, scratchB, tls, ingress, items, builder, sealed,
                     wpc, wlist, task, sendq, inflight, answered, lost>>
  BY <1>1, <1>2, IngressAssumption DEF Write, Placed, HistoryHas, Logs, budgetVars, ingressSide, sendSide,
     queueVars, workerVars, senderVars
<1>4. PICK M, at2, by2 : M = {next} /\ at2 = Move(at, M, "space") /\ by2 = Move(by, M, a)
  OBVIOUS
<1>6. /\ Moves(at, by, at2, by2, M, "new", "space")
      /\ at[next] = "new" /\ at2 \in [Logs -> Tags]
      /\ \A l \in Logs : at2[l] = IF l = next THEN "space" ELSE at[l]
      /\ \A l \in Logs : by2[l] = IF l = next THEN a ELSE by[l]
  BY <1>1, <1>3, <1>4 DEF Placed, HistoryHas, Tags, WriterTags, QueueTags, Move, Logs, Moves
<1>66. HistoryHas(at2, next', answered', lost')
  BY <1>1, <1>3, <1>6, NewHistory
<1>7. /\ \A v \in Writers : pc'[v] = (IF v = a THEN "space" ELSE pc[v]) /\ req'[v] = IF v = a THEN r2 ELSE req[v]
      /\ OnlyWriters({a})
  BY <1>3 DEF LogInv, Shaped, OnlyWriters
<1>8. WriterHas(at2, by2, a, tls'[a], pc'[a], req'[a])
  <2>1. WriterHas(at, by, a, tls[a], "idle", req[a])
    BY <1>1, <1>3 DEF Placed
  <2>2. \A l \in Logs : /\ l \in tls[a] <=> at2[l] = "tls" /\ by2[l] = a
                        /\ at2[l] = "space" /\ by2[l] = a <=> l = next
                        /\ ~(at2[l] \in {"append", "copy"} /\ by2[l] = a)
    BY <1>6, <2>1 DEF WriterHas, LogPcs
  <2>3. r2.log = next
    BY <1>2
  <2>4. WriterHas(at2, by2, a, tls[a], "space", r2)
    BY <1>3, <2>1, <2>2, <2>3 DEF WriterHas, LogPcs, WriterPcs
  <2> QED
    BY <1>3, <1>7, <2>4
<1>9. QueuesHave(at2, ingress', items', builder', sealed')
  BY <1>1, <1>3, <1>4, <1>6, QueuesKeepOut DEF Placed, QueueTags
<1>10. Counted(at2, wpc, task, tlsB', ingressB', queueB', sendB', inflightB', scratchB')
  <2>1. \A T : ("new" \in T <=> "space" \in T) => Tagged(at2, T) = Tagged(at, T)
    BY <1>6, MoveCounts
  <2> QED
    BY <1>1, <1>3, <2>1 DEF Counted, CountedTags
<1>11. Frame(at, by, at2, by2, {a}, {})
  BY <1>6 DEF Frame, WriterTags, WorkerTags, SenderTags
<1>12. \A l \in Logs, t \in SenderTags : at[l] = t <=> at2[l] = t
  BY <1>6 DEF SenderTags
<1> QED
  BY <1>1, <1>6, <1>66, <1>7, <1>8, <1>9, <1>10, <1>11, <1>12, WriterStepKeeps

\* The breaker refuses a log.
LEMMA LogCircuitOpen ==
  ASSUME LogInv, NEW a \in Writers, CircuitOpen(a)
  PROVE  LogInv'
<1>1. PICK at, by : Placed(at, by) /\ Counted(at, wpc, task, tlsB, ingressB, queueB, sendB, inflightB, scratchB)
  BY DEF LogInv
<1>2. /\ next \in Logs /\ next' = next + 1 /\ answered' = answered \cup {next}
      /\ UNCHANGED <<tlsB, ingressB, queueB, sendB, inflightB, scratchB, tls, pc, req, ingress, items, builder,
                     sealed, wpc, wlist, task, sendq, inflight, lost>>
  BY <1>1, IngressAssumption DEF CircuitOpen, Placed, HistoryHas, Logs, budgetVars, ingressSide, sendSide,
     queueVars, workerVars, senderVars, writerVars
<1>3. PICK M, at2, by2 : M = {next} /\ at2 = Move(at, M, "done") /\ by2 = Move(by, M, a)
  OBVIOUS
<1>5. /\ Moves(at, by, at2, by2, M, "new", "done")
      /\ at[next] = "new" /\ at2 \in [Logs -> Tags]
      /\ \A l \in Logs : at2[l] = IF l = next THEN "done" ELSE at[l]
      /\ \A l \in Logs : by2[l] = IF l = next THEN a ELSE by[l]
  BY <1>1, <1>2, <1>3 DEF Placed, HistoryHas, Tags, WriterTags, QueueTags, Move, Logs, Moves
<1>55. HistoryHas(at2, next', answered', lost')
  BY <1>1, <1>2, <1>5, NewHistory
<1>6. OnlyWriters({})
  BY <1>2 DEF LogInv, Shaped, OnlyWriters
<1>7. QueuesHave(at2, ingress', items', builder', sealed')
  BY <1>1, <1>2, <1>3, <1>5, QueuesKeepOut DEF Placed, QueueTags
<1>8. Counted(at2, wpc, task, tlsB', ingressB', queueB', sendB', inflightB', scratchB')
  <2>1. \A T : ("new" \in T <=> "done" \in T) => Tagged(at2, T) = Tagged(at, T)
    BY <1>5, MoveCounts
  <2> QED
    BY <1>1, <1>2, <2>1 DEF Counted, CountedTags
<1>9. Frame(at, by, at2, by2, {}, {})
  BY <1>5 DEF Frame, WriterTags, WorkerTags, SenderTags
<1>10. \A l \in Logs, t \in SenderTags : at[l] = t <=> at2[l] = t
  BY <1>5 DEF SenderTags
<1>11. {} \in SUBSET Writers /\ \A v \in {} : WriterHas(at2, by2, v, tls'[v], pc'[v], req'[v])
  OBVIOUS
<1> QED
  BY <1>1, <1>5, <1>55, <1>6, <1>7, <1>8, <1>9, <1>10, <1>11, WriterStepKeeps

\* A record of a raw buffer is imported.
LEMMA LogImport ==
  ASSUME LogInv, ImportItem
  PROVE  LogInv'
<1>1. PICK at, by : Placed(at, by) /\ Counted(at, wpc, task, tlsB, ingressB, queueB, sendB, inflightB, scratchB)
  BY DEF LogInv
<1>2. /\ next \in Logs /\ next' = next + 1 /\ items' = Append(items, next) /\ queueB' = queueB + 1
      /\ UNCHANGED <<tlsB, ingressB, sendB, inflightB, scratchB, tls, pc, req, ingress, builder,
                     sealed, wpc, wlist, task, sendq, inflight, answered, lost>>
  BY <1>1, IngressAssumption DEF ImportItem, Import, Placed, HistoryHas, Logs, sendSide,
     workerVars, senderVars, writerVars
<1>3. PICK M, at2, by2 : M = {next} /\ at2 = Move(at, M, "item") /\ by2 = Move(by, M, 0)
  OBVIOUS
<1>5. /\ Moves(at, by, at2, by2, M, "new", "item")
      /\ at[next] = "new" /\ at2 \in [Logs -> Tags]
      /\ \A l \in Logs : at2[l] = IF l = next THEN "item" ELSE at[l]
      /\ \A l \in Logs : by2[l] = IF l = next THEN 0 ELSE by[l]
  BY <1>1, <1>2, <1>3 DEF Placed, HistoryHas, Tags, WriterTags, QueueTags, Move, Logs, Moves
<1>55. HistoryHas(at2, next', answered', lost')
  BY <1>1, <1>2, <1>5, NewHistory
<1>6. OnlyWriters({})
  BY <1>2 DEF LogInv, Shaped, OnlyWriters
<1>7. QueuesHave(at2, ingress', items', builder', sealed')
  BY <1>1, <1>2, <1>3, <1>5, QueueItem DEF Placed, QueueTags
<1>8. Counted(at2, wpc, task, tlsB', ingressB', queueB', sendB', inflightB', scratchB')
  <2>1. \A T : ("new" \in T <=> "item" \in T) => Tagged(at2, T) = Tagged(at, T)
    BY <1>5, MoveCounts
  <2>2. Cardinality(Tagged(at2, CountedTags)) = Cardinality(Tagged(at, CountedTags)) + Cardinality(M)
    BY <1>5, MoveCounts DEF CountedTags
  <2>3. Cardinality(M) = 1
    BY <1>3, FS_Singleton
  <2>4. Cardinality(Tagged(at, CountedTags)) \in Nat /\ Cardinality(Carried(wpc, task, "release")) \in Nat
    BY TaggedSize, CarriedSize
  <2>5. queueB' = Cardinality(Tagged(at2, CountedTags)) + Cardinality(Carried(wpc, task, "release"))
    BY <1>1, <1>2, <2>2, <2>3, <2>4 DEF Counted
  <2> QED
    BY <1>1, <1>2, <2>1, <2>5 DEF Counted
<1>9. Frame(at, by, at2, by2, {}, {})
  BY <1>5 DEF Frame, WriterTags, WorkerTags, SenderTags
<1>10. \A l \in Logs, t \in SenderTags : at[l] = t <=> at2[l] = t
  BY <1>5 DEF SenderTags
<1>11. {} \in SUBSET Writers /\ \A v \in {} : WriterHas(at2, by2, v, tls'[v], pc'[v], req'[v])
  OBVIOUS
<1> QED
  BY <1>1, <1>5, <1>55, <1>6, <1>7, <1>8, <1>9, <1>10, <1>11, WriterStepKeeps

\* Nothing is sealed.
LEMMA ResealsNot ==
  ASSUME NEW at \in [Logs -> Tags], NEW M, NEW t \in Tags
  PROVE  Reseals(Move(at, M, t), Move(at, M, t))
BY DEF Reseals, Move

\* The call of a writer ends, and nothing else changes on its side.
LEMMA ReturnShape ==
  ASSUME Shaped, NEW a \in Writers, Return(a), tls' = tls, UNCHANGED <<wpc, wlist, task, sendq, inflight>>
  PROVE  OnlyWriters({a}) /\ pc'[a] = "idle" /\ tls'[a] = tls[a]
BY DEF Shaped, Return, OnlyWriters

\* The log of a call that fails is answered.
LEMMA LogRefuse ==
  ASSUME LogInv, NEW a \in Writers, pc[a] \in {"space", "copy"}, Return(a),
         answered' = answered \cup {req[a].log},
         pc[a] = "space" => queueB' = queueB, pc[a] = "copy" => queueB' = Less(queueB, 1),
         UNCHANGED <<tlsB, ingressB, sendB, inflightB, scratchB, tls, ingress, items, builder, sealed,
                     wpc, wlist, task, sendq, inflight, next, lost>>
  PROVE  LogInv'
<1>1. PICK at, by : Placed(at, by) /\ Counted(at, wpc, task, tlsB, ingressB, queueB, sendB, inflightB, scratchB)
  BY DEF LogInv
<1>2. OnlyWriters({a}) /\ pc'[a] = "idle" /\ tls'[a] = tls[a]
  BY ReturnShape DEF LogInv
<1>3. WriterHas(at, by, a, tls[a], pc[a], req[a]) /\ at \in [Logs -> Tags]
  BY <1>1 DEF Placed
<1>4. req[a].log \in Logs /\ at[req[a].log] = pc[a]
  BY <1>3 DEF WriterHas, LogPcs
<1>5. PICK at2 : at2 = Move(at, {req[a].log}, "done")
  OBVIOUS
<1>6. Reseals(Move(at, {req[a].log}, "done"), at2)
  BY <1>3, <1>5, ResealsNot DEF Tags
<1>7. QueuesHave(at2, ingress', items', builder', sealed')
  BY <1>1, <1>4, <1>5, QueuesKeepOut DEF Placed, QueueTags
<1>8. pc[a] = "copy" => queueB >= 1 /\ queueB \in Nat
  <2>1. Tagged(at, CountedTags) \in SUBSET Logs /\ IsFiniteSet(Tagged(at, CountedTags))
    BY LogsFinite, TaggedSize
  <2>2. pc[a] = "copy" => Tagged(at, CountedTags) # {}
    BY <1>4 DEF Tagged, CountedTags
  <2>3. Cardinality(Tagged(at, CountedTags)) \in Nat /\ Cardinality(Carried(wpc, task, "release")) \in Nat
    BY TaggedSize, CarriedSize
  <2>4. pc[a] = "copy" => Cardinality(Tagged(at, CountedTags)) # 0
    BY <2>1, <2>2, FS_EmptySet
  <2> QED
    BY <1>1, <2>3, <2>4 DEF Counted
<1>9. /\ tlsB' = tlsB + Adds(pc[a], "done", {"tls", "append"}) - Drops(pc[a], "done", {"tls", "append"})
      /\ queueB' = queueB + Adds(pc[a], "done", CountedTags) - Drops(pc[a], "done", CountedTags)
  <2>1. tlsB \in Nat /\ queueB \in Nat
    BY <1>1, TaggedSize, CarriedSize DEF Counted
  <2>2. CASE pc[a] = "space"
    BY <2>1, <2>2 DEF Adds, Drops, CountedTags
  <2>3. CASE pc[a] = "copy"
    BY <1>8, <2>1, <2>3 DEF Adds, Drops, CountedTags, Less
  <2> QED
    BY <2>2, <2>3
<1>10. pc[a] \in LogPcs /\ "done" # pc[a] /\ "done" \notin LogPcs /\ pc'[a] \notin LogPcs /\ pc'[a] \in WriterPcs
  BY <1>2 DEF LogPcs, WriterPcs
<1> QED
  BY <1>1, <1>2, <1>6, <1>7, <1>9, <1>10, LogGoes

\* A log is admitted.
LEMMA LogAdmit ==
  ASSUME LogInv, NEW a \in Writers, pc[a] = "space", Admit(a),
         UNCHANGED <<ingressB, sendB, inflightB, scratchB, tls, ingress, items,
                     wpc, wlist, task, sendq, inflight, next, lost>>
  PROVE  LogInv'
<1>1. PICK at, by : Placed(at, by) /\ Counted(at, wpc, task, tlsB, ingressB, queueB, sendB, inflightB, scratchB)
  BY DEF LogInv
<1>2. WriterHas(at, by, a, tls[a], pc[a], req[a]) /\ at \in [Logs -> Tags] /\ Shaped
      /\ QueuesHave(at, ingress, items, builder, sealed)
  BY <1>1 DEF Placed, LogInv
<1>3. req[a].log \in Logs /\ at[req[a].log] = "space" /\ at[req[a].log] \notin QueueTags
  BY <1>2 DEF WriterHas, LogPcs, QueueTags
<1>4. tlsB \in Nat /\ queueB \in Nat
  BY <1>1, TaggedSize, CarriedSize DEF Counted
<1>5. CASE tlsB' = tlsB + 1 /\ pc' = [pc EXCEPT ![a] = "append"]
           /\ UNCHANGED <<queueB, builder, sealed, flush, req, answered>>
  <2>1. OnlyWriters({a}) /\ pc'[a] = "append" /\ req'[a] = req[a]
    BY <1>2, <1>5 DEF Shaped, OnlyWriters
  <2>2. PICK at2 : at2 = Move(at, {req[a].log}, "append")
    OBVIOUS
  <2>3. Reseals(Move(at, {req[a].log}, "append"), at2)
    BY <1>2, <2>2, ResealsNot DEF Tags, WriterTags
  <2>4. QueuesHave(at2, ingress', items', builder', sealed')
    BY <1>2, <1>3, <1>5, <2>2, QueuesKeepOut DEF QueueTags
  <2>5. /\ tlsB' = tlsB + Adds(pc[a], "append", {"tls", "append"}) - Drops(pc[a], "append", {"tls", "append"})
        /\ queueB' = queueB + Adds(pc[a], "append", CountedTags) - Drops(pc[a], "append", CountedTags)
    BY <1>4, <1>5 DEF Adds, Drops, CountedTags
  <2>6. /\ pc[a] \in LogPcs /\ "append" # pc[a] /\ "append" \in LogPcs /\ pc'[a] \in WriterPcs
        /\ "append" \in WriterTags
        /\ answered \subseteq answered' /\ lost \subseteq lost'
    BY <1>5, <2>1 DEF LogPcs, WriterPcs, WriterTags
  <2> QED
    BY <1>1, <2>1, <2>3, <2>4, <2>5, <2>6, LogGoes
<1>6. CASE queueB' = queueB + 1 /\ pc' = [pc EXCEPT ![a] = "copy"]
           /\ UNCHANGED <<tlsB, builder, sealed, flush, req, answered>>
  <2>1. OnlyWriters({a}) /\ pc'[a] = "copy" /\ req'[a] = req[a]
    BY <1>2, <1>6 DEF Shaped, OnlyWriters
  <2>2. PICK at2 : at2 = Move(at, {req[a].log}, "copy")
    OBVIOUS
  <2>3. Reseals(Move(at, {req[a].log}, "copy"), at2)
    BY <1>2, <2>2, ResealsNot DEF Tags, WriterTags
  <2>4. QueuesHave(at2, ingress', items', builder', sealed')
    BY <1>2, <1>3, <1>6, <2>2, QueuesKeepOut DEF QueueTags
  <2>5. /\ tlsB' = tlsB + Adds(pc[a], "copy", {"tls", "append"}) - Drops(pc[a], "copy", {"tls", "append"})
        /\ queueB' = queueB + Adds(pc[a], "copy", CountedTags) - Drops(pc[a], "copy", CountedTags)
    BY <1>4, <1>6 DEF Adds, Drops, CountedTags
  <2>6. /\ pc[a] \in LogPcs /\ "copy" # pc[a] /\ "copy" \in LogPcs /\ pc'[a] \in WriterPcs
        /\ "copy" \in WriterTags
        /\ answered \subseteq answered' /\ lost \subseteq lost'
    BY <1>6, <2>1 DEF LogPcs, WriterPcs, WriterTags
  <2> QED
    BY <1>1, <2>1, <2>3, <2>4, <2>5, <2>6, LogGoes
<1>7. CASE answered' = answered \cup {req[a].log} /\ Return(a)
           /\ UNCHANGED <<tlsB, queueB, builder, sealed, flush>>
  BY <1>7, LogRefuse
<1>8. ASSUME NEW b, b = builder["key"] \cup {req[a].log}, NEW full \in BOOLEAN,
             queueB' = queueB + 1,
             builder' = [builder EXCEPT !["key"] = IF full THEN {} ELSE b],
             sealed' = IF full THEN Append(sealed, b) ELSE sealed,
             Return(a), UNCHANGED <<tlsB, answered>>
      PROVE  LogInv'
  <2>1. OnlyWriters({a}) /\ pc'[a] = "idle" /\ tls'[a] = tls[a]
    BY <1>2, <1>8, ReturnShape
  <2>2. PICK at1, bs1 : at1 = Move(at, {req[a].log}, "key") /\ bs1 = [builder EXCEPT !["key"] = b]
    OBVIOUS
  <2>3. QueuesHave(at1, ingress, items, bs1, sealed)
    BY <1>2, <1>3, <1>8, <2>2, QueueBuild
  <2>4. PICK at2 : at2 = IF full THEN Move(at1, b, "sealed") ELSE at1
    OBVIOUS
  <2>5. builder \in [{"default", "key"} -> SUBSET Logs] /\ b \in SUBSET Logs /\ bs1["key"] = b
    BY <1>2, <1>3, <1>8, <2>2 DEF QueuesHave
  <2>6. QueuesHave(at2, ingress', items', builder', sealed')
    <3>1. CASE full
      <4>1. QueuesHave(Move(at1, bs1["key"], "sealed"), ingress, items, [bs1 EXCEPT !["key"] = {}],
                       Append(sealed, bs1["key"]))
        BY <2>3, QueueSeal
      <4>2. builder' = [bs1 EXCEPT !["key"] = {}] /\ sealed' = Append(sealed, bs1["key"])
        BY <1>8, <2>2, <2>5, <3>1
      <4> QED
        BY <2>4, <2>5, <3>1, <4>1, <4>2
    <3>2. CASE ~full
      BY <1>8, <2>2, <2>3, <2>4, <3>2
    <3> QED
      BY <3>1, <3>2
  <2>7. Reseals(at1, at2)
    <3>1. at1 \in [Logs -> Tags]
      BY <1>2, <2>2 DEF Move, Tags, QueueTags
    <3>2. at2 \in [Logs -> Tags]
      BY <2>4, <3>1 DEF Move, Tags, QueueTags
    <3>3. \A l \in b : at1[l] = "key"
      BY <2>3, <2>5 DEF QueuesHave
    <3>4. \A l \in Logs : at2[l] = at1[l] \/ (l \in b /\ at2[l] = "sealed")
      BY <2>4 DEF Move
    <3> QED
      BY <3>2, <3>3, <3>4 DEF Reseals
  <2>8. /\ tlsB' = tlsB + Adds(pc[a], "key", {"tls", "append"}) - Drops(pc[a], "key", {"tls", "append"})
        /\ queueB' = queueB + Adds(pc[a], "key", CountedTags) - Drops(pc[a], "key", CountedTags)
    BY <1>4, <1>8 DEF Adds, Drops, CountedTags
  <2>9. /\ pc[a] \in LogPcs /\ "key" # pc[a] /\ "key" \notin LogPcs /\ pc'[a] \in WriterPcs /\ pc'[a] \notin LogPcs
        /\ "key" \in QueueTags
        /\ answered \subseteq answered' /\ lost \subseteq lost'
    BY <1>8, <2>1 DEF LogPcs, WriterPcs, QueueTags
  <2>10. Reseals(Move(at, {req[a].log}, "key"), at2)
    BY <2>2, <2>7
  <2> QED
    BY <1>1, <1>8, <2>1, <2>6, <2>8, <2>9, <2>10, LogGoes
<1> QED
  <2>1. CASE req[a].kind = "key" /\ queueB' = queueB + 1 /\ Return(a) /\ UNCHANGED <<tlsB, answered>>
             /\ LET b == builder["key"] \cup {req[a].log}
                    full == ShouldSeal(b, req[a].force)
                IN /\ builder' = [builder EXCEPT !["key"] = IF full THEN {} ELSE b]
                   /\ sealed' = IF full THEN Append(sealed, b) ELSE sealed
    <3>1. PICK b, full : /\ b = builder["key"] \cup {req[a].log} /\ full \in BOOLEAN
                         /\ builder' = [builder EXCEPT !["key"] = IF full THEN {} ELSE b]
                         /\ sealed' = IF full THEN Append(sealed, b) ELSE sealed
      <4> DEFINE b == builder["key"] \cup {req[a].log}
                 full == IF ShouldSeal(b, req[a].force) THEN TRUE ELSE FALSE
      <4>1. /\ full \in BOOLEAN
            /\ builder' = [builder EXCEPT !["key"] = IF full THEN {} ELSE b]
            /\ sealed' = IF full THEN Append(sealed, b) ELSE sealed
        BY <2>1
      <4> HIDE DEF full
      <4> QED
        BY <4>1
    <3> QED
      BY <1>8, <2>1, <3>1
  <2> QED
    BY <1>5, <1>6, <1>7, <2>1 DEF Admit

\* A step that changes none of the places.
LogVars == <<tlsB, ingressB, queueB, sendB, inflightB, scratchB, tls, ingress, items, builder, sealed,
             wpc, wlist, task, sendq, inflight, next, answered, lost>>

\* It may take a writer that has no log in its hands from one step to another.
LEMMA LogStays ==
  ASSUME LogInv, NEW a \in Writers, Shaped', UNCHANGED LogVars,
         \A v \in Writers \ {a} : pc'[v] = pc[v] /\ req'[v] = req[v],
         (pc'[a] = pc[a] /\ req'[a] = req[a]) \/ (pc[a] \notin LogPcs /\ pc'[a] \in WriterPcs \ LogPcs)
  PROVE  LogInv'
<1>1. PICK at, by : Placed(at, by) /\ Counted(at, wpc, task, tlsB, ingressB, queueB, sendB, inflightB, scratchB)
  BY DEF LogInv
<1>2. WriterHas(at, by, a, tls[a], pc'[a], req'[a])
  <2>1. WriterHas(at, by, a, tls[a], pc[a], req[a])
    BY <1>1 DEF Placed
  <2>2. PICK p2, r2 : p2 = pc'[a] /\ r2 = req'[a]
    OBVIOUS
  <2>3. CASE p2 = pc[a] /\ r2 = req[a]
    BY <2>1, <2>2, <2>3
  <2>4. CASE pc[a] \notin LogPcs /\ p2 \in WriterPcs \ LogPcs
    <3>1. WriterHas(at, by, a, tls[a], p2, r2)
      BY <2>1, <2>4, WriterTurns
    <3> QED
      BY <2>2, <3>1
  <2> QED
    BY <2>2, <2>3, <2>4
<1>3. \A v \in Writers : WriterHas(at, by, v, tls'[v], pc'[v], req'[v])
  BY <1>1, <1>2 DEF Placed, LogVars
<1>4. Placed(at, by)'
  BY <1>1, <1>3 DEF Placed, LogVars
<1>5. Counted(at, wpc, task, tlsB, ingressB, queueB, sendB, inflightB, scratchB)'
  BY <1>1 DEF LogVars
<1> QED
  BY <1>4, <1>5 DEF LogInv

\* The writer has looked for room.
LEMMA LogSpace ==
  ASSUME LogInv, NEW a \in Writers, WriteSpace(a)
  PROVE  LogInv'
<1>1. /\ pc[a] = "space"
      /\ UNCHANGED <<ingressB, sendB, inflightB, scratchB, tls, ingress, items,
                     wpc, wlist, task, sendq, inflight, next, lost>>
  BY DEF WriteSpace, sendSide, workerVars, senderVars
<1>2. CASE Admit(a)
  BY <1>1, <1>2, LogAdmit
<1>3. CASE Refuse(a)
  BY <1>1, <1>3, LogRefuse DEF Refuse
<1>4. CASE UNCHANGED <<tlsB, queueB, builder, sealed, pc, req, answered>>
  <2>1. UNCHANGED LogVars
    BY <1>1, <1>4 DEF LogVars
  <2>2. Shaped'
    BY <1>1, <1>4 DEF LogInv, Shaped
  <2>4. pc' = pc /\ req' = req
    BY <1>4
  <2>3. /\ \A v \in Writers \ {a} : pc'[v] = pc[v] /\ req'[v] = req[v]
        /\ (pc'[a] = pc[a] /\ req'[a] = req[a]) \/ (pc[a] \notin LogPcs /\ pc'[a] \in WriterPcs \ LogPcs)
    BY <2>4
  <2> QED
    BY <2>1, <2>2, <2>3, LogStays
<1> QED
  BY <1>2, <1>3, <1>4 DEF WriteSpace

\* A raw log is queued, or the producer was closed.
LEMMA LogCopied ==
  ASSUME LogInv, NEW a \in Writers, RawCopied(a)
  PROVE  LogInv'
<1>1. /\ pc[a] = "copy" /\ Return(a)
      /\ UNCHANGED <<tlsB, ingressB, sendB, inflightB, scratchB, tls, ingress, builder, sealed,
                     wpc, wlist, task, sendq, inflight, next, lost>>
  BY DEF RawCopied, sendSide, workerVars, senderVars
<1>2. CASE queueB' = Less(queueB, 1) /\ answered' = answered \cup {req[a].log} /\ UNCHANGED items
  BY <1>1, <1>2, LogRefuse
<1>3. CASE items' = Append(items, req[a].log) /\ UNCHANGED <<queueB, answered>>
  <2>1. PICK at, by : Placed(at, by) /\ Counted(at, wpc, task, tlsB, ingressB, queueB, sendB, inflightB, scratchB)
    BY DEF LogInv
  <2>2. WriterHas(at, by, a, tls[a], pc[a], req[a]) /\ at \in [Logs -> Tags]
        /\ QueuesHave(at, ingress, items, builder, sealed)
    BY <2>1 DEF Placed
  <2>3. req[a].log \in Logs /\ at[req[a].log] = "copy" /\ at[req[a].log] \notin QueueTags
    BY <1>1, <2>2 DEF WriterHas, LogPcs, QueueTags
  <2>4. OnlyWriters({a}) /\ pc'[a] = "idle" /\ tls'[a] = tls[a]
    BY <1>1, ReturnShape DEF LogInv
  <2>5. PICK at2 : at2 = Move(at, {req[a].log}, "item")
    OBVIOUS
  <2>6. Reseals(Move(at, {req[a].log}, "item"), at2)
    BY <2>2, <2>5, ResealsNot DEF Tags, QueueTags
  <2>7. QueuesHave(at2, ingress', items', builder', sealed')
    BY <1>1, <1>3, <2>2, <2>3, <2>5, QueueItem
  <2>8. tlsB \in Nat /\ queueB \in Nat
    BY <2>1, TaggedSize, CarriedSize DEF Counted
  <2>9. /\ tlsB' = tlsB + Adds(pc[a], "item", {"tls", "append"}) - Drops(pc[a], "item", {"tls", "append"})
        /\ queueB' = queueB + Adds(pc[a], "item", CountedTags) - Drops(pc[a], "item", CountedTags)
    BY <1>1, <1>3, <2>8 DEF Adds, Drops, CountedTags
  <2>10. /\ pc[a] \in LogPcs /\ "item" # pc[a] /\ "item" \notin LogPcs
         /\ pc'[a] \in WriterPcs /\ pc'[a] \notin LogPcs /\ "item" \in QueueTags
         /\ answered \subseteq answered' /\ lost \subseteq lost'
    BY <1>1, <1>3, <2>4 DEF LogPcs, WriterPcs, QueueTags
  <2> QED
    BY <1>1, <2>1, <2>4, <2>6, <2>7, <2>9, <2>10, LogGoes
<1> QED
  BY <1>2, <1>3 DEF RawCopied

\* A log joins the batch of its thread.
LEMMA LogAppend ==
  ASSUME LogInv, NEW a \in Writers, TlsAppend(a)
  PROVE  LogInv'
<1>1. /\ pc[a] = "append" /\ tls' = [tls EXCEPT ![a] = tls[a] \cup {req[a].log}]
      /\ UNCHANGED <<tlsB, ingressB, queueB, sendB, inflightB, scratchB, ingress, items, builder, sealed,
                     wpc, wlist, task, sendq, inflight, next, answered, lost>>
  BY DEF TlsAppend, budgetVars, ingressSide, sendSide, queueVars, workerVars, senderVars, historyVars
<1>2. \/ pc' = [pc EXCEPT ![a] = "flush"] /\ req' = req
      \/ pc' = [pc EXCEPT ![a] = "idle"] /\ req' = [req EXCEPT ![a] = NoReq]
  BY DEF TlsAppend, Return
<1>3. PICK at, by : Placed(at, by) /\ Counted(at, wpc, task, tlsB, ingressB, queueB, sendB, inflightB, scratchB)
  BY DEF LogInv
<1>4. WriterHas(at, by, a, tls[a], pc[a], req[a]) /\ at \in [Logs -> Tags] /\ Shaped
      /\ QueuesHave(at, ingress, items, builder, sealed)
  BY <1>3 DEF Placed, LogInv
<1>5. req[a].log \in Logs /\ at[req[a].log] = "append" /\ at[req[a].log] \notin QueueTags
  BY <1>1, <1>4 DEF WriterHas, LogPcs, QueueTags
<1>6. OnlyWriters({a}) /\ pc'[a] \in {"flush", "idle"} /\ tls'[a] = tls[a] \cup {req[a].log}
  BY <1>1, <1>2, <1>4, <1>5 DEF Shaped, OnlyWriters
<1>7. PICK at2 : at2 = Move(at, {req[a].log}, "tls")
  OBVIOUS
<1>8. Reseals(Move(at, {req[a].log}, "tls"), at2)
  BY <1>4, <1>7, ResealsNot DEF Tags, WriterTags
<1>9. QueuesHave(at2, ingress', items', builder', sealed')
  BY <1>1, <1>4, <1>5, <1>7, QueuesKeepOut DEF QueueTags
<1>10. tlsB \in Nat /\ queueB \in Nat
  BY <1>3, TaggedSize, CarriedSize DEF Counted
<1>11. /\ tlsB' = tlsB + Adds(pc[a], "tls", {"tls", "append"}) - Drops(pc[a], "tls", {"tls", "append"})
       /\ queueB' = queueB + Adds(pc[a], "tls", CountedTags) - Drops(pc[a], "tls", CountedTags)
  BY <1>1, <1>10 DEF Adds, Drops, CountedTags
<1>12. /\ pc[a] \in LogPcs /\ "tls" # pc[a] /\ "tls" \notin LogPcs
       /\ pc'[a] \in WriterPcs /\ pc'[a] \notin LogPcs /\ "tls" \in WriterTags
       /\ answered \subseteq answered' /\ lost \subseteq lost'
  BY <1>1, <1>6 DEF LogPcs, WriterPcs, WriterTags
<1> QED
  BY <1>1, <1>3, <1>6, <1>8, <1>9, <1>11, <1>12, LogGoes

\* A thread-local batch leaves its thread, for the queues or for good; what
\* the queues have may change places among them, or go.
Leaves(at, at2, b) ==
  /\ at2 \in [Logs -> Tags]
  /\ \A l \in b : at2[l] \in QueueTags \cup {"done"}
  /\ \A l \in Logs \ b : at2[l] # at[l] => at[l] \in QueueTags /\ at2[l] \in QueueTags \cup {"done"}

\* The batch of a writer that has no other log in its hands leaves it.
LEMMA BatchGoes ==
  ASSUME NEW at, NEW by, Placed(at, by), NEW a \in Writers, OnlyWriters({a}), pc[a] \notin LogPcs,
         NEW at2, Leaves(at, at2, tls[a]),
         tls'[a] = {}, pc'[a] \in WriterPcs, pc'[a] \notin LogPcs,
         QueuesHave(at2, ingress', items', builder', sealed'),
         next' = next, answered \subseteq answered', lost \subseteq lost',
         \A l \in Logs : at2[l] = "done" => at[l] = "done" \/ l \in answered' \cup lost',
         Counted(at2, wpc, task, tlsB', ingressB', queueB', sendB', inflightB', scratchB')
  PROVE  LogInv'
<1>1. WriterHas(at, by, a, tls[a], pc[a], req[a]) /\ HistoryHas(at, next, answered, lost)
  BY DEF Placed
<1>2. tls[a] \subseteq Logs /\ \A l \in Logs : l \in tls[a] <=> at[l] = "tls" /\ by[l] = a
  BY <1>1 DEF WriterHas
<1>3. \A l \in Logs : \/ at2[l] = at[l] /\ l \notin tls[a]
                      \/ at[l] \in QueueTags /\ at2[l] \in QueueTags \cup {"done"}
                      \/ at[l] = "tls" /\ by[l] = a /\ l \in tls[a] /\ at2[l] \in QueueTags \cup {"done"}
  BY <1>2 DEF Leaves
<1>4. WriterHas(at2, by, a, tls'[a], pc'[a], req'[a])
  <2>1. \A l \in tls[a] : at2[l] \notin WriterTags
    BY <1>2, <1>3 DEF QueueTags, WriterTags
  <2>2. ASSUME NEW l \in Logs, NEW t \in WriterTags, l \notin tls[a]
        PROVE  at[l] = t /\ by[l] = a <=> at2[l] = t /\ by[l] = a
    BY <1>3, <2>2 DEF QueueTags, WriterTags
  <2>3. PICK p, p2, r, r2 : p = pc[a] /\ p2 = pc'[a] /\ r = req[a] /\ r2 = req'[a]
    OBVIOUS
  <2>4. WriterHas(at, by, a, tls[a], p, r) /\ p \notin LogPcs /\ p2 \in WriterPcs \ LogPcs
    BY <1>1, <2>3
  <2>5. WriterHas(at2, by, a, {}, p2, r2)
    BY <2>1, <2>2, <2>4, WriterEmpties
  <2> QED
    BY <2>3, <2>5
<1>5. HistoryHas(at2, next', answered', lost')
  <2>1. \A l \in Logs : /\ at[l] = "new" <=> at2[l] = "new"
                        /\ at2[l] = "done" => at[l] = "done" \/ l \in answered' \cup lost'
    BY <1>3 DEF QueueTags
  <2> QED
    BY <1>1, <2>1, HistoryKeeps
<1>6. Frame(at, by, at2, by, {a}, {})
  BY <1>3 DEF Frame, QueueTags, WriterTags, WorkerTags, SenderTags
<1>7. at2 \in [Logs -> Tags] /\ \A l \in Logs, t \in SenderTags : at[l] = t <=> at2[l] = t
  BY <1>3 DEF Leaves, QueueTags, SenderTags
<1>8. PICK X : X = {a}
  OBVIOUS
<1>9. /\ X \in SUBSET Writers /\ OnlyWriters(X) /\ Frame(at, by, at2, by, X, {})
      /\ \A v \in X : WriterHas(at2, by, v, tls'[v], pc'[v], req'[v])
  BY <1>4, <1>6, <1>8
<1> QED
  BY <1>5, <1>7, <1>9, WriterStepKeeps

\* What a move of the batch of a writer does to the counts.
LEMMA BatchCounts ==
  ASSUME NEW at, NEW by, Placed(at, by), NEW a \in Writers,
         NEW t \in Tags, t \notin {"tls", "append"}, NEW at2, at2 = Move(at, tls[a], t)
  PROVE  /\ tls[a] \in SUBSET Logs /\ Cardinality(tls[a]) \in Nat
         /\ Moves(at, by, at2, by, tls[a], "tls", t)
         /\ Cardinality(Tagged(at, {"tls", "append"}))
              = Cardinality(Tagged(at2, {"tls", "append"})) + Cardinality(tls[a])
         /\ \A T : t \notin T /\ "tls" \notin T => Tagged(at2, T) = Tagged(at, T)
         /\ \A T : t \in T /\ "tls" \notin T =>
              Cardinality(Tagged(at2, T)) = Cardinality(Tagged(at, T)) + Cardinality(tls[a])
<1>1. WriterHas(at, by, a, tls[a], pc[a], req[a])
  BY DEF Placed
<1>2. tls[a] \in SUBSET Logs /\ \A l \in tls[a] : at[l] = "tls"
  BY <1>1 DEF WriterHas
<1>3. Moves(at, by, at2, by, tls[a], "tls", t)
  BY <1>2 DEF Moves, Tags, WriterTags
<1>4. Cardinality(tls[a]) \in Nat
  BY <1>2, LogsFinite
<1> QED
  BY <1>2, <1>3, <1>4, MoveCounts

\* A batch that cannot be flushed, or is for another producer, is given up.
LEMMA LogDrops ==
  ASSUME LogInv, NEW a \in Writers, pc[a] \notin LogPcs,
         Shaped', \A v \in Writers \ {a} : pc'[v] = pc[v] /\ req'[v] = req[v],
         pc'[a] \in WriterPcs, pc'[a] \notin LogPcs,
         tlsB' = tlsB - Size(tls[a]), tls' = [tls EXCEPT ![a] = {}],
         answered \subseteq answered', lost \subseteq lost', tls[a] \subseteq answered' \cup lost',
         UNCHANGED <<ingressB, queueB, sendB, inflightB, scratchB, ingress, items, builder, sealed,
                     wpc, wlist, task, sendq, inflight, next>>
  PROVE  LogInv'
<1>1. PICK at, by : Placed(at, by) /\ Counted(at, wpc, task, tlsB, ingressB, queueB, sendB, inflightB, scratchB)
  BY DEF LogInv
<1>2. PICK at2 : at2 = Move(at, tls[a], "done")
  OBVIOUS
<1>3. /\ tls[a] \in SUBSET Logs /\ Cardinality(tls[a]) \in Nat
      /\ Cardinality(Tagged(at, {"tls", "append"}))
           = Cardinality(Tagged(at2, {"tls", "append"})) + Cardinality(tls[a])
      /\ \A T : "done" \notin T /\ "tls" \notin T => Tagged(at2, T) = Tagged(at, T)
      /\ \A l \in tls[a] : at[l] = "tls"
  <2>1. "done" \in Tags /\ "done" \notin {"tls", "append"}
    BY DEF Tags
  <2> QED
    BY <1>1, <1>2, <2>1, BatchCounts DEF Moves
<1>4. Counted(at2, wpc, task, tlsB', ingressB', queueB', sendB', inflightB', scratchB')
  <2>1. tlsB' = Cardinality(Tagged(at2, {"tls", "append"}))
    <3>1. Cardinality(Tagged(at2, {"tls", "append"})) \in Nat
      BY TaggedSize
    <3> QED
      BY <1>1, <1>3, <3>1 DEF Counted, Size
  <2> QED
    BY <1>1, <1>3, <2>1 DEF Counted, CountedTags
<1>5. \A l \in Logs : at2[l] = IF l \in tls[a] THEN "done" ELSE at[l]
  BY <1>2 DEF Move
<1>6. Leaves(at, at2, tls[a])
  BY <1>1, <1>2, <1>3, <1>5 DEF Leaves, Placed, Move, Tags
<1>7. QueuesHave(at2, ingress', items', builder', sealed')
  <2>1. \A l \in Logs, t \in QueueTags : at[l] = t <=> at2[l] = t
    BY <1>3, <1>5 DEF QueueTags
  <2> QED
    BY <1>1, <2>1, QueuesKeep DEF Placed
<1>8. OnlyWriters({a}) /\ tls'[a] = {}
  BY DEF LogInv, Shaped, OnlyWriters
<1>9. \A l \in Logs : at2[l] = "done" => at[l] = "done" \/ l \in answered' \cup lost'
  BY <1>5
<1> QED
  BY <1>1, <1>4, <1>6, <1>7, <1>8, <1>9, BatchGoes

\* The batch of a thread cannot be flushed.
LEMMA LogFlushFails ==
  ASSUME LogInv, NEW a \in Writers, pc[a] \in {"flush", "reflush", "push"}, FlushFails(a),
         UNCHANGED <<sendB, inflightB, scratchB, items, wpc, wlist, task, sendq, inflight, next>>
  PROVE  LogInv'
<1>1. pc[a] \notin LogPcs /\ pc'[a] \in WriterPcs /\ pc'[a] \notin LogPcs
      /\ \A v \in Writers \ {a} : pc'[v] = pc[v] /\ req'[v] = req[v]
  BY DEF LogPcs, WriterPcs, FlushFails, Return, LogInv, Shaped
<1>2. Shaped'
  BY DEF LogInv, Shaped, FlushFails, Return
<1>3. CASE req[a].kind = "tls"
  <2>1. /\ tlsB' = tlsB - Size(tls[a]) /\ tls' = [tls EXCEPT ![a] = {}]
        /\ answered' = answered \cup {req[a].log}
        /\ lost' = lost \cup (tls[a] \ {req[a].log})
        /\ UNCHANGED <<ingressB, queueB, ingress, builder, sealed>>
    BY <1>3 DEF FlushFails
  <2>2. answered \subseteq answered' /\ lost \subseteq lost' /\ tls[a] \subseteq answered' \cup lost'
    BY <2>1
  <2> QED
    BY <1>1, <1>2, <2>1, <2>2, LogDrops
<1>4. CASE req[a].kind # "tls"
  <2>1. UNCHANGED LogVars
    BY <1>4 DEF FlushFails, LogVars
  <2> QED
    BY <1>1, <1>2, <2>1, LogStays
<1> QED
  BY <1>3, <1>4

\* A thread turns to another producer.
LEMMA LogSwitch ==
  ASSUME LogInv, NEW a \in Writers, SwitchProducer(a)
  PROVE  LogInv'
<1>1. /\ pc[a] = "idle" /\ tlsB' = tlsB - Size(tls[a]) /\ tls' = [tls EXCEPT ![a] = {}]
      /\ lost' = lost \cup tls[a]
      /\ UNCHANGED <<ingressB, queueB, sendB, inflightB, scratchB, pc, req, ingress, items, builder, sealed,
                     wpc, wlist, task, sendq, inflight, next, answered>>
  BY DEF SwitchProducer, sendSide, queueVars, workerVars, senderVars
<1>2. pc[a] \notin LogPcs /\ pc'[a] \in WriterPcs /\ pc'[a] \notin LogPcs
      /\ \A v \in Writers \ {a} : pc'[v] = pc[v] /\ req'[v] = req[v]
  BY <1>1 DEF LogPcs, WriterPcs
<1>3. Shaped'
  BY <1>1 DEF LogInv, Shaped
<1>4. answered \subseteq answered' /\ lost \subseteq lost' /\ tls[a] \subseteq answered' \cup lost'
  BY <1>1
<1> QED
  BY <1>1, <1>2, <1>3, <1>4, LogDrops

\* A batch joins the ingress queue.
LEMMA QueuePush ==
  ASSUME NEW at, NEW q, NEW its, NEW bs, NEW s, QueuesHave(at, q, its, bs, s),
         NEW e, e.logs \in SUBSET Logs, \A l \in e.logs : at[l] \notin QueueTags
  PROVE  QueuesHave(Move(at, e.logs, "ingress"), Append(q, e), its, bs, s)
<1> DEFINE at2 == Move(at, e.logs, "ingress")
           q2 == Append(q, e)
<1>1. \A l \in Logs : at2[l] = IF l \in e.logs THEN "ingress" ELSE at[l]
  BY DEF Move
<1>2. PICK S : q \in Seq(S)
  BY DEF QueuesHave
<1>3. PICK T : T = S \cup {e}
  OBVIOUS
<1>4. q \in Seq(T) /\ e \in T
  BY <1>2, <1>3
<1>5. /\ q2 \in Seq(T) /\ Len(q) \in Nat /\ Len(q2) = Len(q) + 1
      /\ \A i \in 1..Len(q) : q2[i] = q[i]
      /\ q2[Len(q) + 1] = e
  BY <1>4, Appended
<1> HIDE DEF at2, q2
<1>6. \A i \in 1..Len(q2) : i = Len(q) + 1 \/ i \in 1..Len(q)
  BY <1>5
<1>7. \A i \in 1..Len(q2) : q2[i].logs \subseteq Logs
  BY <1>5, <1>6 DEF QueuesHave
<1>8. \A i \in 1..Len(q) : q[i].logs \cap e.logs = {}
  BY DEF QueuesHave, QueueTags
<1>9. ASSUME NEW i \in 1..Len(q2), NEW j \in 1..Len(q2), i # j
      PROVE  q2[i].logs \cap q2[j].logs = {}
  <2>1. CASE i \in 1..Len(q) /\ j \in 1..Len(q)
    BY <1>5, <1>9, <2>1 DEF QueuesHave
  <2> QED
    BY <1>5, <1>6, <1>8, <1>9, <2>1
<1>10. ASSUME NEW l \in Logs
       PROVE  at2[l] = "ingress" <=> \E i \in 1..Len(q2) : l \in q2[i].logs
  <2>1. Len(q) + 1 \in 1..Len(q2) /\ \A i \in 1..Len(q) : i \in 1..Len(q2)
    BY <1>5
  <2>2. at[l] = "ingress" <=> \E i \in 1..Len(q) : l \in q[i].logs
    BY DEF QueuesHave
  <2> QED
    BY <1>1, <1>5, <1>6, <2>1, <2>2
<1>11. \A l \in Logs : /\ at2[l] = "item" <=> at[l] = "item"
                       /\ at2[l] = "sealed" <=> at[l] = "sealed"
                       /\ \A k \in {"default", "key"} : at2[l] = k <=> at[l] = k
  BY <1>1 DEF QueueTags
<1>12. QueuesHave(at2, q2, its, bs, s)
  BY <1>5, <1>7, <1>9, <1>10, <1>11 DEF QueuesHave
<1> QED
  BY <1>12 DEF at2, q2

\* The batch of a thread is pushed to the ingress queue.
LEMMA LogPush ==
  ASSUME LogInv, NEW a \in Writers, pc[a] \notin LogPcs, Push(a),
         UNCHANGED <<sendB, inflightB, scratchB, items, wpc, wlist, task, sendq, inflight, next>>
  PROVE  LogInv'
<1>1. PICK at, by : Placed(at, by) /\ Counted(at, wpc, task, tlsB, ingressB, queueB, sendB, inflightB, scratchB)
  BY DEF LogInv
<1>2. PICK at2, e : at2 = Move(at, tls[a], "ingress") /\ e = [logs |-> tls[a], force |-> req[a].force]
  OBVIOUS
<1>3. /\ ingress' = Append(ingress, e) /\ tls' = [tls EXCEPT ![a] = {}] /\ e.logs = tls[a]
      /\ tlsB' = tlsB - Cardinality(tls[a])
      /\ ingressB' = ingressB + Cardinality(tls[a])
      /\ UNCHANGED <<queueB, builder, sealed, answered, lost>>
  BY <1>2 DEF Push, Size
<1>4. /\ tls[a] \in SUBSET Logs /\ Cardinality(tls[a]) \in Nat
      /\ \A l \in tls[a] : at[l] = "tls"
      /\ Cardinality(Tagged(at, {"tls", "append"}))
           = Cardinality(Tagged(at2, {"tls", "append"})) + Cardinality(tls[a])
      /\ \A T : "ingress" \notin T /\ "tls" \notin T => Tagged(at2, T) = Tagged(at, T)
      /\ Cardinality(Tagged(at2, {"ingress"})) = Cardinality(Tagged(at, {"ingress"})) + Cardinality(tls[a])
  <2>1. "ingress" \in Tags /\ "ingress" \notin {"tls", "append"}
    BY DEF Tags, QueueTags
  <2> QED
    BY <1>1, <1>2, <2>1, BatchCounts DEF Moves
<1>5. Counted(at2, wpc, task, tlsB', ingressB', queueB', sendB', inflightB', scratchB')
  <2>1. tlsB' = Cardinality(Tagged(at2, {"tls", "append"}))
    <3>1. Cardinality(Tagged(at2, {"tls", "append"})) \in Nat
      BY TaggedSize
    <3> QED
      BY <1>1, <1>3, <1>4, <3>1 DEF Counted
  <2>2. ingressB' = Cardinality(Tagged(at2, {"ingress"}))
    BY <1>1, <1>3, <1>4 DEF Counted
  <2> QED
    BY <1>1, <1>3, <1>4, <2>1, <2>2 DEF Counted, CountedTags
<1>6. \A l \in Logs : at2[l] = IF l \in tls[a] THEN "ingress" ELSE at[l]
  BY <1>2 DEF Move
<1>7. Leaves(at, at2, tls[a])
  BY <1>1, <1>2, <1>4, <1>6 DEF Leaves, Placed, Move, Tags, QueueTags
<1>8. QueuesHave(at2, ingress', items', builder', sealed')
  <2>1. \A l \in e.logs : at[l] \notin QueueTags
    BY <1>3, <1>4 DEF QueueTags
  <2> QED
    BY <1>1, <1>2, <1>3, <1>4, <2>1, QueuePush DEF Placed
<1>9. OnlyWriters({a}) /\ tls'[a] = {} /\ pc'[a] \in WriterPcs /\ pc'[a] \notin LogPcs
  <2>1. \/ pc' = [pc EXCEPT ![a] = "drain"] /\ req' = req
        \/ pc' = [pc EXCEPT ![a] = "idle"] /\ req' = [req EXCEPT ![a] = NoReq]
    BY DEF Push, Return
  <2> QED
    BY <1>3, <2>1 DEF LogInv, Shaped, OnlyWriters, WriterPcs, LogPcs
<1>10. \A l \in Logs : at2[l] = "done" => at[l] = "done"
  BY <1>6
<1> QED
  BY <1>1, <1>3, <1>5, <1>7, <1>8, <1>9, <1>10, BatchGoes

\* The ingress queue is looked at.
LEMMA LogPushes ==
  ASSUME LogInv, NEW a \in Writers, pc[a] \in {"flush", "reflush", "push"},
         Push(a) \/ PushWaits(a) \/ (\E timeout : PushFails(a, timeout)),
         UNCHANGED <<sendB, inflightB, scratchB, items, wpc, wlist, task, sendq, inflight, next>>
  PROVE  LogInv'
<1>1. pc[a] \notin LogPcs
  BY DEF LogPcs
<1>2. CASE Push(a)
  BY <1>1, <1>2, LogPush
<1>3. CASE \E timeout : PushFails(a, timeout)
  BY <1>3, LogFlushFails DEF PushFails
<1>4. CASE PushWaits(a)
  <2>1. pc' = [pc EXCEPT ![a] = "push"] /\ UNCHANGED <<tlsB, ingressB, queueB, ingress, tls, builder, sealed, req, answered, lost>>
    BY <1>4 DEF PushWaits
  <2>2. UNCHANGED LogVars
    BY <2>1 DEF LogVars
  <2>3. Shaped' /\ \A v \in Writers \ {a} : pc'[v] = pc[v] /\ req'[v] = req[v]
    BY <2>1 DEF LogInv, Shaped
  <2>4. pc'[a] \in WriterPcs \ LogPcs
    BY <2>1 DEF LogInv, Shaped, WriterPcs, LogPcs
  <2> QED
    BY <1>1, <2>2, <2>3, <2>4, LogStays
<1> QED
  BY <1>2, <1>3, <1>4

\* A writer that waited for a place in the ingress queue goes on.
LEMMA LogPushSpace ==
  ASSUME LogInv, NEW a \in Writers, PushSpace(a)
  PROVE  LogInv'
<1>1. /\ pc[a] \in {"flush", "reflush", "push"}
      /\ Push(a) \/ PushWaits(a) \/ (\E timeout : PushFails(a, timeout))
      /\ UNCHANGED <<sendB, inflightB, scratchB, items, wpc, wlist, task, sendq, inflight, next>>
  BY DEF PushSpace, sendSide, workerVars, senderVars
<1> QED
  BY <1>1, LogPushes

\* The calls that only take a writer from one step to another.
LEMMA LogCalls ==
  ASSUME LogInv, NEW a \in Writers,
         \/ \E kind : FlushCall(a, kind)
         \/ Close(a) \/ CloseDrained(a) \/ CloseTimeout(a) \/ CloseJoin(a)
  PROVE  LogInv'
<1>1. UNCHANGED LogVars
  BY DEF FlushCall, Close, CloseDrained, CloseTimeout, CloseJoin, LogVars, budgetVars, ingressSide, sendSide,
     queueVars, workerVars, senderVars, historyVars
<1>2. pc[a] \in {"idle", "drain", "join"}
  BY DEF FlushCall, Close, CloseDrained, CloseTimeout, CloseJoin
<1>3. /\ \E p \in {"idle", "flush", "drain", "join"} : pc' = [pc EXCEPT ![a] = p]
      /\ req' = req \/ \E r : req' = [req EXCEPT ![a] = r]
  BY DEF FlushCall, Close, CloseDrained, CloseTimeout, CloseJoin, Return
<1>4. Shaped' /\ \A v \in Writers \ {a} : pc'[v] = pc[v] /\ req'[v] = req[v]
  BY <1>1, <1>3 DEF LogInv, Shaped, LogVars
<1>5. pc[a] \notin LogPcs /\ pc'[a] \in WriterPcs \ LogPcs
  BY <1>2, <1>3 DEF LogInv, Shaped, LogPcs, WriterPcs
<1> QED
  BY <1>1, <1>4, <1>5, LogStays

\* The steps that have nothing to do with the places of logs.
LEMMA LogQuiet ==
  ASSUME LogInv, UNCHANGED <<LogVars, pc, req>>
  PROVE  LogInv'
BY DEF LogInv, Shaped, LogVars, Placed

-----------------------------------------------------------------------------
(* The merge of the ingress queue.                                         *)

\* The builder and the sealed list of a merge: no log is there twice.
MergeOk(x) ==
  /\ x.b \in SUBSET Logs /\ x.s \in Seq(SUBSET Logs) /\ Apart(Len(x.s), x.s)
  /\ \A l \in x.b : ~Within(l, Len(x.s), x.s)

\* The logs of a merge.
Has(x, l) == l \in x.b \/ Within(l, Len(x.s), x.s)

\* A batch is merged: its logs join the others.
LEMMA MergeOneHas ==
  ASSUME NEW x, MergeOk(x), NEW t, t.logs \in SUBSET Logs, \A l \in t.logs : ~Has(x, l)
  PROVE  /\ MergeOk(MergeOne(x, t))
         /\ \A l : Has(MergeOne(x, t), l) <=> Has(x, l) \/ l \in t.logs
<1>1. PICK b, s : b = x.b \cup t.logs /\ s = Append(x.s, b)
  OBVIOUS
<1>2. b \in SUBSET Logs /\ \A l \in b : ~Within(l, Len(x.s), x.s)
  BY <1>1 DEF MergeOk, Has
<1>3. x.s \in Seq(SUBSET Logs) /\ Apart(Len(x.s), x.s)
  BY DEF MergeOk
<1>4. /\ s \in Seq(SUBSET Logs) /\ Apart(Len(s), s)
      /\ \A l : Within(l, Len(s), s) <=> Within(l, Len(x.s), x.s) \/ l \in b
  <2>1. PICK xs : xs = x.s
    OBVIOUS
  <2> QED
    BY <1>1, <1>2, <1>3, <2>1, AddBatch
<1>5. \/ MergeOne(x, t).b = {} /\ MergeOne(x, t).s = s
      \/ MergeOne(x, t).b = b /\ MergeOne(x, t).s = x.s
  <2>1. CASE ShouldSeal(b, t.force)
    BY <1>1, <2>1 DEF MergeOne
  <2>2. CASE ~ShouldSeal(b, t.force)
    BY <1>1, <2>2 DEF MergeOne
  <2> QED
    BY <2>1, <2>2
<1>6. PICK y : y = MergeOne(x, t)
  OBVIOUS
<1>7. CASE y.b = {} /\ y.s = s
  <2>1. MergeOk(y)
    BY <1>4, <1>7 DEF MergeOk
  <2>2. \A l : Has(y, l) <=> Has(x, l) \/ l \in t.logs
    BY <1>1, <1>4, <1>7 DEF Has
  <2> QED
    BY <1>6, <2>1, <2>2
<1>8. CASE y.b = b /\ y.s = x.s
  <2>1. MergeOk(y)
    BY <1>2, <1>3, <1>8 DEF MergeOk
  <2>2. \A l : Has(y, l) <=> Has(x, l) \/ l \in t.logs
    BY <1>1, <1>8 DEF Has
  <2> QED
    BY <1>6, <2>1, <2>2
<1> QED
  BY <1>5, <1>6, <1>7, <1>8

\* The function that Merge defines by recursion, as far as n.
MergeUpTo(acc, failed, n, g) ==
  g = [i \in 0..n |-> IF i = 0 THEN acc
                      ELSE IF i \in failed THEN g[i - 1] ELSE MergeOne(g[i - 1], ingress[i])]

\* There is such a function: by the least n without one.
LEMMA MergeExists ==
  ASSUME NEW acc, NEW failed, NEW n \in Nat
  PROVE  \E g : MergeUpTo(acc, failed, n, g)
<1> DEFINE T == {k \in Nat : ~\E g : MergeUpTo(acc, failed, k, g)}
<1>1. SUFFICES ASSUME T # {}
               PROVE  FALSE
  OBVIOUS
<1>2. T \in SUBSET Nat
  OBVIOUS
<1> HIDE DEF T
<1>3. PICK k \in T : \A m \in T : k <= m
  BY <1>1, <1>2, LeastNat
<1>4. k \in Nat /\ \A g : ~MergeUpTo(acc, failed, k, g)
  BY <1>2, <1>3 DEF T
<1>5. k # 0
  <2> SUFFICES ASSUME k = 0
               PROVE  FALSE
    OBVIOUS
  <2> DEFINE g == [i \in 0..k |-> acc]
  <2>1. g = [i \in 0..k |-> g[i]]
    OBVIOUS
  <2>2. \A i \in 0..k : g[i] = IF i = 0 THEN acc
                      ELSE IF i \in failed THEN g[i - 1] ELSE MergeOne(g[i - 1], ingress[i])
    OBVIOUS
  <2> HIDE DEF g
  <2>3. MergeUpTo(acc, failed, k, g)
    BY <2>1, <2>2 DEF MergeUpTo
  <2> QED
    BY <1>4, <2>3
<1>6. k - 1 \in Nat /\ k - 1 \notin T
  BY <1>3, <1>4, <1>5
<1>7. PICK g : MergeUpTo(acc, failed, k - 1, g)
  BY <1>6 DEF T
<1>8. \A i \in 0..(k - 1) : g[i] = IF i = 0 THEN acc
                      ELSE IF i \in failed THEN g[i - 1] ELSE MergeOne(g[i - 1], ingress[i])
  BY <1>7, Zenon DEF MergeUpTo
<1> DEFINE h == [i \in 0..k |-> IF i = k THEN (IF k \in failed THEN g[k - 1] ELSE MergeOne(g[k - 1], ingress[k]))
                                ELSE g[i]]
<1>9. ASSUME NEW i \in 0..k
      PROVE  h[i] = IF i = 0 THEN acc
                    ELSE IF i \in failed THEN h[i - 1] ELSE MergeOne(h[i - 1], ingress[i])
  <2>1. CASE i = k
    <3>1. k - 1 \in 0..k /\ h[k - 1] = g[k - 1]
      BY <1>4, <1>5
    <3> QED
      BY <1>5, <2>1, <3>1
  <2>2. CASE i # k /\ i # 0
    <3>1. i \in 0..(k - 1) /\ i - 1 \in 0..k /\ i - 1 # k
      BY <1>4, <2>2
    <3>2. h[i] = g[i] /\ h[i - 1] = g[i - 1]
      BY <2>2, <3>1
    <3> QED
      BY <1>8, <2>2, <3>1, <3>2
  <2>3. CASE i # k /\ i = 0
    <3>1. i \in 0..(k - 1)
      BY <1>4, <2>3
    <3> QED
      BY <1>8, <2>3, <3>1
  <2> QED
    BY <2>1, <2>2, <2>3
<1>10. h = [i \in 0..k |-> h[i]]
  OBVIOUS
<1> HIDE DEF h
<1>11. MergeUpTo(acc, failed, k, h)
  BY <1>9, <1>10 DEF MergeUpTo
<1> QED
  BY <1>4, <1>11

\* What Merge computes is the last value of such a function.
LEMMA MergeChosen ==
  ASSUME NEW acc, NEW failed, NEW g, MergeUpTo(acc, failed, Len(ingress), g)
  PROVE  \E f : MergeUpTo(acc, failed, Len(ingress), f) /\ Merge(acc, failed) = f[Len(ingress)]
BY Zenon DEF Merge, MergeUpTo

\* Step by step.
LEMMA MergeSteps ==
  ASSUME NEW acc, NEW failed, Len(ingress) \in Nat
  PROVE  \E f : /\ f[0] = acc
                /\ Merge(acc, failed) = f[Len(ingress)]
                /\ \A i \in 1..Len(ingress) :
                     /\ i \in failed => f[i] = f[i - 1]
                     /\ i \notin failed => f[i] = MergeOne(f[i - 1], ingress[i])
<1>1. \E g : MergeUpTo(acc, failed, Len(ingress), g)
  BY MergeExists
<1>2. PICK f : MergeUpTo(acc, failed, Len(ingress), f) /\ Merge(acc, failed) = f[Len(ingress)]
  BY <1>1, MergeChosen
<1>3. \A i \in 0..Len(ingress) : f[i] = IF i = 0 THEN acc
                      ELSE IF i \in failed THEN f[i - 1] ELSE MergeOne(f[i - 1], ingress[i])
  BY <1>2, Zenon DEF MergeUpTo
<1>4. 0 \in 0..Len(ingress) /\ \A i \in 1..Len(ingress) : i \in 0..Len(ingress) /\ i # 0
  OBVIOUS
<1> QED
  BY <1>2, <1>3, <1>4

\* The logs of the merge are those that were there and those of the batches of
\* the ingress queue that have a key queue.
LEMMA MergeHas ==
  ASSUME NEW acc, MergeOk(acc), NEW failed, Len(ingress) \in Nat,
         \A i \in 1..Len(ingress) : ingress[i].logs \subseteq Logs,
         \A i, j \in 1..Len(ingress) : i # j => ingress[i].logs \cap ingress[j].logs = {},
         \A i \in 1..Len(ingress) : \A l \in ingress[i].logs : ~Has(acc, l)
  PROVE  /\ MergeOk(Merge(acc, failed))
         /\ \A l : Has(Merge(acc, failed), l) <=>
              Has(acc, l) \/ \E i \in 1..Len(ingress) : i \notin failed /\ l \in ingress[i].logs
<1>1. PICK f : /\ f[0] = acc
               /\ Merge(acc, failed) = f[Len(ingress)]
               /\ \A i \in 1..Len(ingress) :
                    /\ i \in failed => f[i] = f[i - 1]
                    /\ i \notin failed => f[i] = MergeOne(f[i - 1], ingress[i])
  BY MergeSteps
<1> DEFINE Good(k) == /\ MergeOk(f[k])
                      /\ \A l : Has(f[k], l) <=>
                           Has(acc, l) \/ \E i \in 1..k : i \notin failed /\ l \in ingress[i].logs
           T == {k \in 0..Len(ingress) : ~Good(k)}
<1>2. T = {}
  <2> SUFFICES ASSUME T # {}
               PROVE  FALSE
    OBVIOUS
  <2>1. T \in SUBSET Nat
    OBVIOUS
  <2> HIDE DEF T
  <2>2. PICK k \in T : \A m \in T : k <= m
    BY <2>1, LeastNat
  <2>3. k \in 0..Len(ingress) /\ ~Good(k)
    BY <2>2 DEF T
  <2>4. k # 0
    BY <1>1, <2>3
  <2>5. k - 1 \in 0..Len(ingress) /\ k - 1 \notin T /\ k \in 1..Len(ingress)
    BY <2>2, <2>3, <2>4
  <2>6. Good(k - 1)
    BY <2>5 DEF T
  <2>7. \A i \in 1..k : i = k \/ i \in 1..(k - 1)
    BY <2>5
  <2>8. \A i \in 1..(k - 1) : i \in 1..k /\ i \in 1..Len(ingress) /\ i # k
    BY <2>5
  <2>9. CASE k \in failed
    <3>1. f[k] = f[k - 1]
      BY <1>1, <2>5, <2>9
    <3> QED
      BY <2>3, <2>6, <2>7, <2>8, <2>9, <3>1
  <2>10. CASE k \notin failed
    <3>1. PICK x, t : x = f[k - 1] /\ t = ingress[k]
      OBVIOUS
    <3>2. f[k] = MergeOne(x, t) /\ MergeOk(x)
      BY <1>1, <2>5, <2>6, <2>10, <3>1
    <3>3. \A l : Has(x, l) <=>
            Has(acc, l) \/ \E i \in 1..(k - 1) : i \notin failed /\ l \in ingress[i].logs
      BY <2>6, <3>1
    <3>4. t.logs \in SUBSET Logs /\ \A l \in t.logs : ~Has(x, l)
      BY <2>5, <2>8, <3>1, <3>3
    <3>5. /\ MergeOk(f[k])
          /\ \A l : Has(f[k], l) <=> Has(x, l) \/ l \in t.logs
      BY <3>2, <3>4, MergeOneHas
    <3>6. k \in 1..k
      BY <2>5
    <3>7. \A l : (\E i \in 1..k : i \notin failed /\ l \in ingress[i].logs)
                 <=> l \in t.logs \/ \E i \in 1..(k - 1) : i \notin failed /\ l \in ingress[i].logs
      BY <2>7, <2>8, <2>10, <3>1, <3>6
    <3> QED
      BY <2>3, <3>3, <3>5, <3>7
  <2> QED
    BY <2>9, <2>10
<1>3. Good(Len(ingress))
  BY <1>2
<1> QED
  BY <1>1, <1>3

\* The sizes of batches without a log in common are the number of their logs.
LEMMA SizesOf ==
  ASSUME NEW f, NEW U, U = {l \in Logs : \E x \in DOMAIN f : l \in f[x]},
         \A x, y \in DOMAIN f : x # y => \A l \in Logs : ~(l \in f[x] /\ l \in f[y])
  PROVE  Sizes(f) = Cardinality(U)
<1> DEFINE P == {p \in (DOMAIN f) \X Logs : p[2] \in f[p[1]]}
           Of(l) == CHOOSE x \in DOMAIN f : l \in f[x]
           g == [l \in U |-> <<Of(l), l>>]
<1>1. \A l \in U : l \in Logs /\ Of(l) \in DOMAIN f /\ l \in f[Of(l)]
  OBVIOUS
<1> HIDE DEF Of
<1>2. \A l \in U : <<Of(l), l>> \in P /\ g[l] = <<Of(l), l>>
  BY <1>1
<1>3. g \in [U -> P]
  BY <1>2
<1>4. \A l, k \in U : g[l] = g[k] => l = k
  BY <1>2
<1>5. ASSUME NEW p \in P
      PROVE  \E l \in U : g[l] = p
  <2>1. PICK x \in DOMAIN f, l \in Logs : p = <<x, l>> /\ l \in f[x]
    OBVIOUS
  <2>2. l \in U
    BY <2>1
  <2>3. Of(l) = x
    BY <1>1, <2>1, <2>2
  <2> QED
    BY <1>2, <2>1, <2>2, <2>3
<1> HIDE DEF g, P
<1>6. g \in Bijection(U, P)
  BY <1>3, <1>4, <1>5 DEF Bijection, Injection, Surjection, IsInjective
<1>7. ExistsBijection(U, P)
  BY <1>6 DEF ExistsBijection
<1>8. U \in SUBSET Logs
  OBVIOUS
<1>9. Cardinality(P) = Cardinality(U)
  BY <1>7, <1>8, LogsFinite, FS_Bijection
<1> QED
  BY <1>9 DEF Sizes, P

\* The sizes of batches of the ingress queue.
LEMMA IngressSizesOf ==
  ASSUME NEW at, QueuesHave(at, ingress, items, builder, sealed), NEW S, S \subseteq 1..Len(ingress)
  PROVE  IngressSizes(S) = Cardinality({l \in Logs : \E i \in S : l \in ingress[i].logs})
<1>1. PICK f, U : f = [i \in S |-> ingress[i].logs] /\ U = {l \in Logs : \E x \in DOMAIN f : l \in f[x]}
  OBVIOUS
<1>2. \A x, y \in DOMAIN f : x # y => \A l \in Logs : ~(l \in f[x] /\ l \in f[y])
  BY <1>1 DEF QueuesHave
<1>3. Sizes(f) = Cardinality(U)
  BY <1>1, <1>2, SizesOf
<1>4. U = {l \in Logs : \E i \in S : l \in ingress[i].logs}
  BY <1>1
<1> QED
  BY <1>1, <1>3, <1>4 DEF IngressSizes

\* The bytes of the ingress queue.
LEMMA AllSizeIs ==
  ASSUME NEW at, QueuesHave(at, ingress, items, builder, sealed)
  PROVE  /\ DOMAIN ingress = 1..Len(ingress) /\ Len(ingress) \in Nat
         /\ AllSize = Cardinality(Tagged(at, {"ingress"}))
<1>1. DOMAIN ingress = 1..Len(ingress) /\ Len(ingress) \in Nat
  BY DEF QueuesHave
<1>2. IngressSizes(DOMAIN ingress) = Cardinality({l \in Logs : \E i \in DOMAIN ingress : l \in ingress[i].logs})
  BY <1>1, IngressSizesOf
<1>3. {l \in Logs : \E i \in DOMAIN ingress : l \in ingress[i].logs} = Tagged(at, {"ingress"})
  <2>1. \A l \in Logs : at[l] \in {"ingress"} <=> \E i \in DOMAIN ingress : l \in ingress[i].logs
    BY <1>1 DEF QueuesHave
  <2> QED
    BY <2>1 DEF Tagged
<1> QED
  BY <1>1, <1>2, <1>3 DEF AllSize

\* The batches of failed are left out of a merge.
Unkept(failed) == {l \in Logs : \E i \in failed : l \in ingress[i].logs}

\* The logs of M are not in the queues, those of F are in the ingress queue.
Outside(at, M) == \A l \in M : at[l] \notin QueueTags
Queued(at, F) == F \in SUBSET Logs /\ \A l \in F : at[l] = "ingress"

\* A merge at its beginning, with the logs of M, and at its end, without those of F.
Begun(at, M, x) ==
  MergeOk(x) /\ \A l \in Logs : Has(x, l) <=> at[l] \in {"default", "sealed"} \/ l \in M
Ended(at, M, F, x) ==
  /\ MergeOk(x)
  /\ \A l \in Logs : Has(x, l) <=> \/ at[l] \in {"default", "sealed"}
                                   \/ l \in M
                                   \/ at[l] = "ingress" /\ l \notin F

\* Where the logs are after a merge.
MergedAt(at, F, m) ==
  [l \in Logs |-> IF l \in F THEN "done"
                  ELSE IF l \in m.b THEN "default"
                  ELSE IF Within(l, Len(m.s), m.s) THEN "sealed" ELSE at[l]]
Merges(at, M, F, at2) ==
  \A l \in Logs :
    /\ l \in F => at2[l] = "done"
    /\ l \notin F /\ (at[l] \in {"default", "sealed", "ingress"} \/ l \in M) => at2[l] \in {"default", "sealed"}
    /\ at[l] \notin {"default", "sealed", "ingress"} /\ l \notin M => at2[l] = at[l]

\* What the queues have after a merge.
LEMMA QueueMerge ==
  ASSUME NEW at, NEW q, NEW its, NEW bs, NEW s, QueuesHave(at, q, its, bs, s),
         NEW M, Outside(at, M), NEW F, Queued(at, F), NEW m, Ended(at, M, F, m)
  PROVE  /\ QueuesHave(MergedAt(at, F, m), <<>>, its, [bs EXCEPT !["default"] = m.b], m.s)
         /\ Merges(at, M, F, MergedAt(at, F, m))
<1>0. PICK at2 : at2 = MergedAt(at, F, m)
  OBVIOUS
<1>1. m.b \in SUBSET Logs /\ m.s \in Seq(SUBSET Logs) /\ Apart(Len(m.s), m.s)
      /\ \A l \in m.b : ~Within(l, Len(m.s), m.s)
  BY DEF MergeOk, Ended
<1>2. \A l \in Logs : /\ l \in F => at2[l] = "done"
                      /\ l \notin F /\ l \in m.b => at2[l] = "default"
                      /\ l \notin F /\ l \notin m.b /\ Within(l, Len(m.s), m.s) => at2[l] = "sealed"
                      /\ l \notin F /\ l \notin m.b /\ ~Within(l, Len(m.s), m.s) => at2[l] = at[l]
  BY <1>0 DEF MergedAt
<1>3. \A l \in Logs : l \in m.b \/ Within(l, Len(m.s), m.s)
                      <=> \/ at[l] \in {"default", "sealed"}
                          \/ l \in M
                          \/ at[l] = "ingress" /\ l \notin F
  BY DEF Has, Ended
<1>33. \A l \in F : at[l] = "ingress" /\ l \notin M /\ l \in Logs
  BY DEF Outside, Queued, QueueTags
<1>4. Merges(at, M, F, at2)
  BY <1>2, <1>3, <1>33 DEF Merges
<1>5. PICK bs2 : bs2 = [bs EXCEPT !["default"] = m.b]
  OBVIOUS
<1>6. bs2 \in [{"default", "key"} -> SUBSET Logs] /\ bs2["default"] = m.b /\ bs2["key"] = bs["key"]
  BY <1>1, <1>5 DEF QueuesHave
<1>7. ASSUME NEW l \in Logs
      PROVE  /\ at2[l] = "default" <=> l \in bs2["default"]
             /\ at2[l] = "key" <=> l \in bs2["key"]
             /\ at2[l] = "sealed" <=> Within(l, Len(m.s), m.s)
             /\ at2[l] = "item" <=> at[l] = "item"
             /\ at2[l] # "ingress"
  <2>1. /\ at[l] = "key" <=> l \in bs["key"]
        /\ l \in M => at[l] \notin {"item", "key"}
    BY DEF QueuesHave, QueueTags, Outside
  <2>2. CASE l \in m.b /\ l \notin F
    BY <1>1, <1>2, <1>3, <1>6, <2>1, <2>2
  <2>3. CASE l \notin m.b /\ Within(l, Len(m.s), m.s) /\ l \notin F
    BY <1>2, <1>3, <1>6, <2>1, <2>3
  <2>4. CASE l \notin m.b /\ ~Within(l, Len(m.s), m.s) /\ l \notin F
    BY <1>2, <1>3, <1>6, <2>1, <2>4
  <2>5. CASE l \in F
    BY <1>2, <1>3, <1>33, <1>6, <2>1, <2>5
  <2> QED
    BY <2>2, <2>3, <2>4, <2>5
<1>8. QueuesHave(at2, <<>>, its, bs2, m.s)
  <2>1. \A l \in Logs, k \in {"default", "key"} : at2[l] = k <=> l \in bs2[k]
    BY <1>7
  <2>2. <<>> \in Seq({}) /\ 1..Len(<<>>) = {}
    OBVIOUS
  <2>3. /\ its \in Seq(Logs)
        /\ \A i, j \in 1..Len(its) : i # j => its[i] # its[j]
        /\ \A l \in Logs : at2[l] = "item" <=> \E i \in 1..Len(its) : l = its[i]
    BY <1>7 DEF QueuesHave
  <2> QED
    BY <1>1, <1>6, <1>7, <2>1, <2>2, <2>3 DEF QueuesHave
<1> QED
  BY <1>0, <1>4, <1>5, <1>8

\* A merge begins with the default builder and the sealed list.
LEMMA UnmergedHas ==
  ASSUME NEW at, QueuesHave(at, ingress, items, builder, sealed)
  PROVE  MergeOk(Unmerged) /\ \A l \in Logs : Has(Unmerged, l) <=> at[l] \in {"default", "sealed"}
<1>1. Unmerged.b = builder["default"] /\ Unmerged.s = sealed
  BY DEF Unmerged
<1>2. /\ builder["default"] \in SUBSET Logs /\ sealed \in Seq(SUBSET Logs) /\ Apart(Len(sealed), sealed)
      /\ \A l \in Logs : /\ at[l] = "default" <=> l \in builder["default"]
                         /\ at[l] = "sealed" <=> Within(l, Len(sealed), sealed)
  BY DEF QueuesHave
<1>3. PICK u : u = Unmerged
  OBVIOUS
<1>4. u.b = builder["default"] /\ u.s = sealed
  BY <1>1, <1>3
<1>5. MergeOk(u)
  BY <1>2, <1>4 DEF MergeOk
<1>6. \A l \in Logs : Has(u, l) <=> at[l] \in {"default", "sealed"}
  BY <1>2, <1>4 DEF Has
<1> QED
  BY <1>3, <1>5, <1>6

\* The ingress queue follows.
LEMMA MergeAll ==
  ASSUME NEW at, QueuesHave(at, ingress, items, builder, sealed),
         NEW M, Outside(at, M), NEW acc, Begun(at, M, acc),
         NEW failed, failed \subseteq 1..Len(ingress)
  PROVE  Queued(at, Unkept(failed)) /\ Ended(at, M, Unkept(failed), Merge(acc, failed))
<1>1. /\ Len(ingress) \in Nat
      /\ \A i \in 1..Len(ingress) : ingress[i].logs \subseteq Logs
      /\ \A i, j \in 1..Len(ingress) : i # j => ingress[i].logs \cap ingress[j].logs = {}
      /\ \A l \in Logs : at[l] = "ingress" <=> \E i \in 1..Len(ingress) : l \in ingress[i].logs
  BY DEF QueuesHave
<1>2. \A i \in 1..Len(ingress) : \A l \in ingress[i].logs : ~Has(acc, l)
  BY <1>1 DEF QueueTags, Begun, Outside
<1>3. MergeOk(acc)
  BY DEF Begun
<1>4. /\ MergeOk(Merge(acc, failed))
      /\ \A l : Has(Merge(acc, failed), l) <=>
           Has(acc, l) \/ \E i \in 1..Len(ingress) : i \notin failed /\ l \in ingress[i].logs
  BY <1>1, <1>2, <1>3, MergeHas
<1>5. ASSUME NEW l \in Logs
      PROVE  (\E i \in 1..Len(ingress) : i \notin failed /\ l \in ingress[i].logs)
             <=> at[l] = "ingress" /\ l \notin Unkept(failed)
  BY <1>1 DEF Unkept
<1>6. Queued(at, Unkept(failed))
  BY <1>1 DEF Unkept, Queued
<1>7. PICK m : m = Merge(acc, failed)
  OBVIOUS
<1>8. Ended(at, M, Unkept(failed), m)
  BY <1>4, <1>5, <1>7 DEF Ended, Begun
<1> QED
  BY <1>6, <1>7, <1>8

\* The logs of batches that stay in the ingress queue.
Rests(R, rest) ==
  /\ \E S : rest \in Seq(S)
  /\ \A i \in 1..Len(rest) : rest[i].logs \subseteq Logs
  /\ \A i, j \in 1..Len(rest) : i # j => rest[i].logs \cap rest[j].logs = {}
  /\ \A l \in Logs : l \in R <=> \E i \in 1..Len(rest) : l \in rest[i].logs

\* The batches behind the j-th stay.
LEMMA IngressRest ==
  ASSUME NEW at, QueuesHave(at, ingress, items, builder, sealed), NEW j \in 1..(Len(ingress) + 1)
  PROVE  Rests(Unkept((j + 1)..Len(ingress)), SubSeq(ingress, j + 1, Len(ingress)))
<1>1. PICK S : ingress \in Seq(S)
  BY DEF QueuesHave
<1>2. PICK n, rest : n = Len(ingress) /\ rest = SubSeq(ingress, j + 1, n)
  OBVIOUS
<1>3. n \in Nat /\ j \in 1..(n + 1) /\ DOMAIN ingress = 1..n
  BY <1>1, <1>2
<1>4. rest \in Seq(S) /\ Len(rest) = (IF j + 1 <= n THEN n - j ELSE 0)
  BY <1>1, <1>2, <1>3
<1>5. \A i \in 1..Len(rest) : rest[i] = ingress[i + j] /\ i + j \in (j + 1)..n /\ i + j \in 1..n
  BY <1>1, <1>2, <1>3, <1>4
<1>6. ASSUME NEW k \in (j + 1)..n
      PROVE  k - j \in 1..Len(rest) /\ rest[k - j] = ingress[k]
  <2>1. k - j \in 1..Len(rest) /\ (k - j) + j = k
    BY <1>3, <1>4
  <2> QED
    BY <1>5, <2>1
<1>7. /\ \A i \in 1..n : ingress[i].logs \subseteq Logs
      /\ \A i, k \in 1..n : i # k => ingress[i].logs \cap ingress[k].logs = {}
  BY <1>2 DEF QueuesHave
<1>8. \A i \in 1..Len(rest) : rest[i].logs \subseteq Logs
  BY <1>5, <1>7
<1>9. ASSUME NEW i \in 1..Len(rest), NEW k \in 1..Len(rest), i # k
      PROVE  rest[i].logs \cap rest[k].logs = {}
  <2>1. i + j # k + j
    BY <1>3, <1>4, <1>9
  <2> QED
    BY <1>5, <1>7, <2>1
<1>10. ASSUME NEW l \in Logs
       PROVE  l \in Unkept((j + 1)..n) <=> \E i \in 1..Len(rest) : l \in rest[i].logs
  BY <1>5, <1>6 DEF Unkept
<1> QED
  BY <1>2, <1>4, <1>8, <1>9, <1>10 DEF Rests

\* They are put back after a merge of the others.
LEMMA QueueRests ==
  ASSUME NEW at, NEW its, NEW bs, NEW s, QueuesHave(at, <<>>, its, bs, s),
         NEW R \in SUBSET Logs, NEW rest, Rests(R, rest), \A l \in R : at[l] = "done"
  PROVE  QueuesHave(Move(at, R, "ingress"), rest, its, bs, s)
<1>1. PICK at2 : at2 = Move(at, R, "ingress")
  OBVIOUS
<1>2. \A l \in Logs : at2[l] = IF l \in R THEN "ingress" ELSE at[l]
  BY <1>1 DEF Move
<1>3. \A l \in Logs : at[l] # "ingress"
  <2>1. 1..Len(<<>>) = {}
    OBVIOUS
  <2> QED
    BY <2>1 DEF QueuesHave
<1>4. \A l \in Logs : /\ at2[l] = "ingress" <=> l \in R
                      /\ at2[l] = "item" <=> at[l] = "item"
                      /\ at2[l] = "default" <=> at[l] = "default"
                      /\ at2[l] = "key" <=> at[l] = "key"
                      /\ at2[l] = "sealed" <=> at[l] = "sealed"
  BY <1>2, <1>3
<1>5. /\ \E S : rest \in Seq(S)
      /\ \A i \in 1..Len(rest) : rest[i].logs \subseteq Logs
      /\ \A i, j \in 1..Len(rest) : i # j => rest[i].logs \cap rest[j].logs = {}
      /\ \A l \in Logs : at2[l] = "ingress" <=> \E i \in 1..Len(rest) : l \in rest[i].logs
  BY <1>4 DEF Rests
<1>6. /\ its \in Seq(Logs)
      /\ \A i, j \in 1..Len(its) : i # j => its[i] # its[j]
      /\ \A l \in Logs : at2[l] = "item" <=> \E i \in 1..Len(its) : l = its[i]
      /\ bs \in [{"default", "key"} -> SUBSET Logs]
      /\ \A l \in Logs, k \in {"default", "key"} : at2[l] = k <=> l \in bs[k]
      /\ s \in Seq(SUBSET Logs) /\ Apart(Len(s), s)
      /\ \A l \in Logs : at2[l] = "sealed" <=> Within(l, Len(s), s)
  BY <1>4 DEF QueuesHave
<1> QED
  BY <1>1, <1>5, <1>6 DEF QueuesHave

\* Where the logs are after the drain of an export, which merges the batch M of
\* the thread and the batches K, frees the batch F and leaves R.
Drains(at, M, K, F, R, at2) ==
  /\ at2 \in [Logs -> Tags]
  /\ M \in SUBSET Logs /\ K \in SUBSET Logs /\ F \in SUBSET Logs /\ R \in SUBSET Logs
  /\ \A l \in Logs :
       /\ l \in M => at[l] = "tls" /\ at2[l] \in {"default", "sealed"}
       /\ l \in K => at[l] = "ingress" /\ l \notin F \cup R /\ at2[l] \in {"default", "sealed"}
       /\ l \in F => at[l] = "ingress" /\ l \notin K \cup R /\ at2[l] = "done"
       /\ l \in R => at[l] = "ingress" /\ l \notin K \cup F /\ at2[l] = "ingress"
       /\ at[l] = "ingress" => l \in K \cup F \cup R
       /\ at[l] \in {"default", "sealed"} => at2[l] \in {"default", "sealed"}
       /\ at[l] \notin {"ingress", "default", "sealed"} /\ l \notin M => at2[l] = at[l]

\* What the queues have after the drain.
LEMMA QueueDrain ==
  ASSUME NEW at, QueuesHave(at, ingress, items, builder, sealed), at \in [Logs -> Tags],
         NEW M \in SUBSET Logs, \A l \in M : at[l] = "tls",
         NEW acc, Begun(at, M, acc), NEW j \in 1..(Len(ingress) + 1),
         NEW m, m = Merge(acc, j..Len(ingress))
  PROVE  \E at2 : /\ QueuesHave(at2, SubSeq(ingress, j + 1, Len(ingress)), items,
                                [builder EXCEPT !["default"] = m.b], m.s)
                  /\ Drains(at, M, Unkept(1..(j - 1)), Unkept(DOMAIN ingress \cap {j}),
                            Unkept((j + 1)..Len(ingress)), at2)
<1>1. PICK n, G, K, F, R, rest :
        /\ n = Len(ingress) /\ rest = SubSeq(ingress, j + 1, n) /\ G = Unkept(j..n)
        /\ K = Unkept(1..(j - 1)) /\ F = Unkept(DOMAIN ingress \cap {j}) /\ R = Unkept((j + 1)..n)
  OBVIOUS
<1>2. n \in Nat /\ j \in 1..(n + 1) /\ j..n \subseteq 1..n /\ DOMAIN ingress = 1..n
  BY <1>1 DEF QueuesHave
<1>3. Outside(at, M)
  BY DEF Outside, QueueTags
<1>4. Queued(at, G) /\ Ended(at, M, G, m)
  BY <1>1, <1>2, <1>3, MergeAll
<1>5. PICK at1 : at1 = MergedAt(at, G, m)
  OBVIOUS
<1>6. /\ QueuesHave(at1, <<>>, items, [builder EXCEPT !["default"] = m.b], m.s)
      /\ Merges(at, M, G, at1)
  BY <1>3, <1>4, <1>5, QueueMerge
<1>7. /\ \A i, k \in 1..n : i # k => ingress[i].logs \cap ingress[k].logs = {}
      /\ \A l \in Logs : at[l] = "ingress" <=> \E i \in 1..n : l \in ingress[i].logs
  BY <1>1 DEF QueuesHave
<1>8. /\ \A i \in 1..(j - 1) : i \in 1..n /\ i # j /\ i \notin (j + 1)..n
      /\ \A i \in (j + 1)..n : i \in 1..n /\ i # j /\ i \in j..n
      /\ \A i \in 1..n : i \in 1..(j - 1) \/ i = j \/ i \in (j + 1)..n
      /\ \A i \in j..n : i \in 1..n /\ (i = j \/ i \in (j + 1)..n)
      /\ \A i \in 1..n : i = j => i \in j..n
  BY <1>2
<1>9. K \in SUBSET Logs /\ F \in SUBSET Logs /\ R \in SUBSET Logs
  BY <1>1 DEF Unkept
<1>10. \A l \in Logs : /\ l \in K <=> \E i \in 1..(j - 1) : l \in ingress[i].logs
                       /\ l \in F <=> j \in 1..n /\ l \in ingress[j].logs
                       /\ l \in R <=> \E i \in (j + 1)..n : l \in ingress[i].logs
                       /\ l \in G <=> \E i \in j..n : l \in ingress[i].logs
  BY <1>1, <1>2 DEF Unkept
<1>11. ASSUME NEW l \in Logs
       PROVE  /\ l \in K => at[l] = "ingress" /\ l \notin F \cup R
              /\ l \in F => at[l] = "ingress" /\ l \notin K \cup R
              /\ l \in R => at[l] = "ingress" /\ l \notin K \cup F
              /\ at[l] = "ingress" => l \in K \cup F \cup R
              /\ l \in G <=> l \in F \cup R
  <2>1. ASSUME l \in K
        PROVE  at[l] = "ingress" /\ l \notin F /\ l \notin R
    <3>1. PICK i \in 1..(j - 1) : l \in ingress[i].logs
      BY <1>10, <2>1
    <3>2. i \in 1..n /\ i # j /\ i \notin (j + 1)..n
      BY <1>8
    <3>3. at[l] = "ingress" /\ \A k \in 1..n : k # i => l \notin ingress[k].logs
      BY <1>7, <3>1, <3>2
    <3>4. \A k \in (j + 1)..n : k \in 1..n /\ k # i
      BY <1>8, <3>2
    <3> QED
      BY <1>10, <3>2, <3>3, <3>4
  <2>2. l \in F => at[l] = "ingress" /\ l \notin R
    BY <1>7, <1>8, <1>10
  <2>3. l \in R => at[l] = "ingress"
    BY <1>7, <1>8, <1>10
  <2>4. at[l] = "ingress" => l \in K \/ l \in F \/ l \in R
    BY <1>7, <1>8, <1>10
  <2>5. l \in G <=> l \in F \/ l \in R
    BY <1>8, <1>10
  <2> QED
    BY <2>1, <2>2, <2>3, <2>4, <2>5
<1>12. PICK at2 : at2 = Move(at1, R, "ingress")
  OBVIOUS
<1>13. \A l \in R : at1[l] = "done"
  BY <1>6, <1>9, <1>11 DEF Merges
<1>14. Rests(R, rest)
  BY <1>1, IngressRest
<1>15. QueuesHave(at2, rest, items, [builder EXCEPT !["default"] = m.b], m.s)
  BY <1>6, <1>9, <1>12, <1>13, <1>14, QueueRests
<1>16. \A l \in Logs : at2[l] = IF l \in R THEN "ingress" ELSE at1[l]
  BY <1>12 DEF Move
<1>17. at2 \in [Logs -> Tags]
  <2>1. at1 \in [Logs -> Tags]
    BY <1>5 DEF MergedAt, Tags, QueueTags
  <2> QED
    BY <1>12, <2>1 DEF Move, Tags, QueueTags
<1>18. ASSUME NEW l \in Logs
       PROVE  /\ l \in M => at[l] = "tls" /\ at2[l] \in {"default", "sealed"}
              /\ l \in K => at2[l] \in {"default", "sealed"}
              /\ l \in F => at2[l] = "done"
              /\ l \in R => at2[l] = "ingress"
              /\ at[l] \in {"default", "sealed"} => at2[l] \in {"default", "sealed"}
              /\ at[l] \notin {"ingress", "default", "sealed"} /\ l \notin M => at2[l] = at[l]
  <2>1. /\ l \in G => at1[l] = "done"
        /\ l \notin G /\ (at[l] \in {"default", "sealed", "ingress"} \/ l \in M) => at1[l] \in {"default", "sealed"}
        /\ at[l] \notin {"default", "sealed", "ingress"} /\ l \notin M => at1[l] = at[l]
    BY <1>6 DEF Merges
  <2>2. l \in M => at[l] = "tls"
    OBVIOUS
  <2> QED
    BY <1>11, <1>16, <2>1, <2>2
<1>19. Drains(at, M, K, F, R, at2)
  BY <1>9, <1>11, <1>17, <1>18 DEF Drains
<1> QED
  BY <1>1, <1>15, <1>19

\* What the drain does to the counts.
LEMMA DrainCounts ==
  ASSUME NEW at, NEW M, NEW K, NEW F, NEW R, NEW at2, Drains(at, M, K, F, R, at2)
  PROVE  /\ Cardinality(Tagged(at, {"tls", "append"}))
              = Cardinality(Tagged(at2, {"tls", "append"})) + Cardinality(M)
         /\ Cardinality(Tagged(at, {"ingress"}))
              = Cardinality(Tagged(at2, {"ingress"})) + Cardinality(K \cup F)
         /\ Cardinality(Tagged(at2, CountedTags))
              = Cardinality(Tagged(at, CountedTags)) + Cardinality(M) + Cardinality(K)
         /\ Tagged(at2, {"sendq"}) = Tagged(at, {"sendq"})
         /\ Tagged(at2, {"inflight"}) = Tagged(at, {"inflight"})
<1>1. M \in SUBSET Logs /\ K \in SUBSET Logs /\ K \cup F \in SUBSET Logs
  BY DEF Drains
<1>2. \A T : Tagged(at, T) \in SUBSET Logs /\ Tagged(at2, T) \in SUBSET Logs
  BY TaggedSize
<1>3. ASSUME NEW l \in Logs
      PROVE  /\ at[l] \in {"tls", "append"} <=> at2[l] \in {"tls", "append"} \/ l \in M
             /\ l \in M => at2[l] \notin {"tls", "append"}
             /\ at[l] = "ingress" <=> at2[l] = "ingress" \/ l \in K \cup F
             /\ l \in K \cup F => at2[l] # "ingress"
             /\ at2[l] \in CountedTags <=> at[l] \in CountedTags \/ l \in M \/ l \in K
             /\ l \in M \/ l \in K => at[l] \notin CountedTags
             /\ l \in M => l \notin K
             /\ at2[l] = "sendq" <=> at[l] = "sendq"
             /\ at2[l] = "inflight" <=> at[l] = "inflight"
  <2>1. /\ l \in M => at[l] = "tls" /\ at2[l] \in {"default", "sealed"}
        /\ l \in K => at[l] = "ingress" /\ l \notin F \cup R /\ at2[l] \in {"default", "sealed"}
        /\ l \in F => at[l] = "ingress" /\ l \notin K \cup R /\ at2[l] = "done"
        /\ l \in R => at[l] = "ingress" /\ l \notin K \cup F /\ at2[l] = "ingress"
        /\ at[l] = "ingress" => l \in K \cup F \cup R
        /\ at[l] \in {"default", "sealed"} => at2[l] \in {"default", "sealed"}
        /\ at[l] \notin {"ingress", "default", "sealed"} /\ l \notin M => at2[l] = at[l]
    BY DEF Drains
  <2> QED
    BY <2>1 DEF CountedTags
<1>4. /\ Tagged(at, {"tls", "append"}) = Tagged(at2, {"tls", "append"}) \cup M
      /\ Tagged(at2, {"tls", "append"}) \cap M = {}
  BY <1>1, <1>3 DEF Tagged
<1>5. /\ Tagged(at, {"ingress"}) = Tagged(at2, {"ingress"}) \cup (K \cup F)
      /\ Tagged(at2, {"ingress"}) \cap (K \cup F) = {}
  BY <1>1, <1>3 DEF Tagged
<1>6. PICK N : N = Tagged(at, CountedTags) \cup M
  OBVIOUS
<1>7. N \in SUBSET Logs /\ Tagged(at, CountedTags) \cap M = {}
  BY <1>1, <1>3, <1>6 DEF Tagged
<1>8. Tagged(at2, CountedTags) = N \cup K /\ N \cap K = {}
  BY <1>1, <1>3, <1>6 DEF Tagged
<1>9. Cardinality(N) = Cardinality(Tagged(at, CountedTags)) + Cardinality(M)
  BY <1>1, <1>2, <1>6, <1>7, SizeSplit
<1>10. Cardinality(Tagged(at2, CountedTags)) = Cardinality(N) + Cardinality(K)
  BY <1>1, <1>7, <1>8, SizeSplit
<1>11. Tagged(at2, {"sendq"}) = Tagged(at, {"sendq"}) /\ Tagged(at2, {"inflight"}) = Tagged(at, {"inflight"})
  BY <1>3 DEF Tagged
<1>12. Cardinality(Tagged(at, {"tls", "append"}))
         = Cardinality(Tagged(at2, {"tls", "append"})) + Cardinality(M)
  BY <1>1, <1>2, <1>4, SizeSplit
<1>13. Cardinality(Tagged(at, {"ingress"}))
         = Cardinality(Tagged(at2, {"ingress"})) + Cardinality(K \cup F)
  BY <1>1, <1>2, <1>5, SizeSplit
<1> QED
  BY <1>9, <1>10, <1>11, <1>12, <1>13

\* The drain signals and leaves the batches behind its end.
LEMMA DrainLeaves ==
  ASSUME NEW acc, NEW own, NEW j, ExportDrain(acc, own, j)
  PROVE  /\ \E n : Signal(n)
         /\ ingress' = SubSeq(ingress, j + 1, Len(ingress))
<1>1. PICK m : m = Merge(acc, j..Len(ingress))
  OBVIOUS
<1>2. /\ Signal(m.n + Cardinality(DOMAIN ingress \cap 1..j))
      /\ ingress' = SubSeq(ingress, j + 1, Len(ingress))
  BY <1>1, Zenon DEF ExportDrain
<1> QED
  BY <1>2

\* Where the drain may end.
LEMMA DrainEnd ==
  ASSUME NEW S, ingress \in Seq(S), NEW j \in DrainEnds
  PROVE  j \in 1..(Len(ingress) + 1) /\ Len(ingress) \in Nat /\ DOMAIN ingress = 1..Len(ingress)
BY DEF DrainEnds

\* The batch of a thread and the ingress queue are merged for an export.
LEMMA LogExports ==
  ASSUME LogInv, NEW a \in Writers, pc[a] \notin LogPcs,
         Shaped', \A v \in Writers \ {a} : pc'[v] = pc[v] /\ req'[v] = req[v],
         pc'[a] \in WriterPcs, pc'[a] \notin LogPcs,
         NEW acc, MergeOk(acc), \A l : Has(acc, l) <=> Has(Unmerged, l) \/ l \in tls[a],
         NEW j \in DrainEnds, ExportDrain(acc, Size(tls[a]), j),
         tls' = [tls EXCEPT ![a] = {}], tlsB' = tlsB - Size(tls[a]),
         UNCHANGED <<sendB, inflightB, scratchB, items, wpc, wlist, task, sendq, inflight, next, answered>>
  PROVE  LogInv'
<1>1. PICK at, by : Placed(at, by) /\ Counted(at, wpc, task, tlsB, ingressB, queueB, sendB, inflightB, scratchB)
  BY DEF LogInv
<1>2. QueuesHave(at, ingress, items, builder, sealed) /\ at \in [Logs -> Tags]
  BY <1>1 DEF Placed
<1>3. j \in 1..(Len(ingress) + 1) /\ Len(ingress) \in Nat /\ DOMAIN ingress = 1..Len(ingress)
  BY <1>2, DrainEnd DEF QueuesHave
<1>4. PICK n, m, M, K, F, R, P :
        /\ n = Len(ingress) /\ m = Merge(acc, j..n) /\ M = tls[a]
        /\ K = Unkept(1..(j - 1)) /\ F = Unkept(DOMAIN ingress \cap {j}) /\ R = Unkept((j + 1)..n)
        /\ P = DOMAIN ingress \cap 1..j
  OBVIOUS
<1>5. /\ builder' = [builder EXCEPT !["default"] = m.b] /\ sealed' = m.s
      /\ ingress' = SubSeq(ingress, j + 1, n)
      /\ ingressB' = Less(ingressB, IngressSizes(P))
      /\ queueB' = queueB + Size(M) + IngressSizes(1..(j - 1))
      /\ lost' = lost \cup (IF j \in DOMAIN ingress THEN ingress[j].logs ELSE {})
  <2>1. PICK own : own = Size(M)
    OBVIOUS
  <2>2. ExportDrain(acc, own, j) /\ m = Merge(acc, j..Len(ingress))
    BY <1>4, <2>1
  <2>3. /\ builder' = [builder EXCEPT !["default"] = m.b] /\ sealed' = m.s
        /\ ingress' = SubSeq(ingress, j + 1, Len(ingress))
        /\ ingressB' = Less(ingressB, IngressSizes(DOMAIN ingress \cap 1..j))
        /\ queueB' = queueB + own + IngressSizes(1..(j - 1))
        /\ lost' = lost \cup (IF j \in DOMAIN ingress THEN ingress[j].logs ELSE {})
    BY <2>2, Zenon DEF ExportDrain
  <2> QED
    BY <1>4, <2>1, <2>3
<1>6. M \in SUBSET Logs /\ \A l \in M : at[l] = "tls"
  <2>1. WriterHas(at, by, a, tls[a], pc[a], req[a])
    BY <1>1 DEF Placed
  <2> QED
    BY <1>4, <2>1 DEF WriterHas
<1>7. Begun(at, M, acc)
  BY <1>2, <1>4, UnmergedHas DEF Begun
<1>8. PICK at2 : /\ QueuesHave(at2, ingress', items', builder', sealed')
                 /\ Drains(at, M, K, F, R, at2)
  <2>1. \E at2 : /\ QueuesHave(at2, SubSeq(ingress, j + 1, Len(ingress)), items,
                                [builder EXCEPT !["default"] = m.b], m.s)
                 /\ Drains(at, M, Unkept(1..(j - 1)), Unkept(DOMAIN ingress \cap {j}),
                            Unkept((j + 1)..Len(ingress)), at2)
    BY <1>2, <1>3, <1>4, <1>6, <1>7, QueueDrain
  <2> QED
    BY <1>4, <1>5, <2>1
<1>9. IngressSizes(P) = Cardinality(K \cup F) /\ IngressSizes(1..(j - 1)) = Cardinality(K)
  <2>1. 1..(j - 1) \subseteq 1..Len(ingress) /\ P \subseteq 1..Len(ingress)
    BY <1>3, <1>4
  <2>2. IngressSizes(P) = Cardinality(Unkept(P)) /\ IngressSizes(1..(j - 1)) = Cardinality(Unkept(1..(j - 1)))
    BY <1>2, <2>1, IngressSizesOf DEF Unkept
  <2>3. \A i : i \in P <=> i \in 1..(j - 1) \/ i \in DOMAIN ingress \cap {j}
    BY <1>3, <1>4
  <2>4. Unkept(P) = K \cup F
    BY <1>4, <2>3 DEF Unkept
  <2> QED
    BY <1>4, <2>2, <2>4
<1>10. /\ Cardinality(Tagged(at, {"tls", "append"}))
            = Cardinality(Tagged(at2, {"tls", "append"})) + Cardinality(M)
       /\ Cardinality(Tagged(at, {"ingress"}))
            = Cardinality(Tagged(at2, {"ingress"})) + Cardinality(K \cup F)
       /\ Cardinality(Tagged(at2, CountedTags))
            = Cardinality(Tagged(at, CountedTags)) + Cardinality(M) + Cardinality(K)
       /\ Tagged(at2, {"sendq"}) = Tagged(at, {"sendq"})
       /\ Tagged(at2, {"inflight"}) = Tagged(at, {"inflight"})
  BY <1>8, DrainCounts
<1>11. /\ Cardinality(M) \in Nat /\ Cardinality(K) \in Nat /\ Cardinality(K \cup F) \in Nat
       /\ \A f, T : Cardinality(Tagged(f, T)) \in Nat
       /\ Cardinality(Carried(wpc, task, "release")) \in Nat
  <2>1. K \in SUBSET Logs /\ K \cup F \in SUBSET Logs
    BY <1>4 DEF Unkept
  <2> QED
    BY <1>6, <2>1, LogsFinite, TaggedSize, CarriedSize
<1>12. Counted(at2, wpc, task, tlsB', ingressB', queueB', sendB', inflightB', scratchB')
  <2>1. tlsB' = Cardinality(Tagged(at2, {"tls", "append"}))
    BY <1>1, <1>4, <1>10, <1>11 DEF Counted, Size
  <2>2. ingressB' = Cardinality(Tagged(at2, {"ingress"}))
    <3>1. ingressB = Cardinality(Tagged(at2, {"ingress"})) + IngressSizes(P)
      BY <1>1, <1>9, <1>10 DEF Counted
    <3>2. IngressSizes(P) \in Nat /\ Cardinality(Tagged(at2, {"ingress"})) \in Nat
      BY <1>9, <1>11
    <3> QED
      BY <1>5, <3>1, <3>2 DEF Less
  <2>3. queueB' = Cardinality(Tagged(at2, CountedTags)) + Cardinality(Carried(wpc, task, "release"))
    <3>1. queueB = Cardinality(Tagged(at, CountedTags)) + Cardinality(Carried(wpc, task, "release"))
      BY <1>1 DEF Counted
    <3>2. queueB' = queueB + Cardinality(M) + Cardinality(K)
      BY <1>5, <1>9 DEF Size
    <3>3. Cardinality(Tagged(at, CountedTags)) \in Nat
      BY <1>11
    <3> QED
      BY <1>10, <1>11, <3>1, <3>2, <3>3
  <2> QED
    BY <1>1, <1>10, <2>1, <2>2, <2>3 DEF Counted
<1>13. Leaves(at, at2, tls[a])
  <2>1. ASSUME NEW l \in Logs
        PROVE  /\ l \in M => at2[l] \in QueueTags
               /\ l \notin M /\ at2[l] # at[l] => at[l] \in QueueTags /\ at2[l] \in QueueTags \cup {"done"}
    BY <1>8 DEF Drains, QueueTags
  <2>2. at2 \in [Logs -> Tags]
    BY <1>8 DEF Drains
  <2> QED
    BY <1>4, <1>6, <2>1, <2>2 DEF Leaves
<1>14. OnlyWriters({a}) /\ tls'[a] = {}
  BY DEF LogInv, Shaped, OnlyWriters
<1>15. ASSUME NEW l \in Logs, at2[l] = "done"
       PROVE  at[l] = "done" \/ l \in answered' \cup lost'
  <2>1. l \in F \/ at[l] = "done"
    BY <1>8, <1>15 DEF Drains
  <2>2. ASSUME l \in F
        PROVE  l \in lost'
    BY <1>4, <1>5, <2>2 DEF Unkept
  <2> QED
    BY <2>1, <2>2
<1>16. answered \subseteq answered' /\ lost \subseteq lost'
  BY <1>5
<1> QED
  BY <1>1, <1>8, <1>12, <1>13, <1>14, <1>15, <1>16, BatchGoes

\* Export by a thread without a batch.
LEMMA LogExport ==
  ASSUME LogInv, NEW a \in Writers, Export(a)
  PROVE  LogInv'
<1>1. PICK at, by : Placed(at, by) /\ Counted(at, wpc, task, tlsB, ingressB, queueB, sendB, inflightB, scratchB)
  BY DEF LogInv
<1>2. PICK acc : acc = Unmerged
  OBVIOUS
<1>3. /\ pc[a] = "idle" /\ tls[a] = {}
      /\ \E j \in DrainEnds : ExportDrain(Unmerged, 0, j)
      /\ UNCHANGED <<tlsB, sendB, inflightB, scratchB, tls, pc, req, items, wpc, wlist, task,
                     sendq, inflight, next, answered>>
  BY DEF Export, sendSide, writerVars, workerVars, senderVars
<1>4. MergeOk(acc) /\ \A l : Has(acc, l) <=> Has(Unmerged, l) \/ l \in tls[a]
  BY <1>1, <1>2, <1>3, UnmergedHas DEF Placed
<1>5. Size(tls[a]) = 0 /\ tlsB \in Nat
  BY <1>1, <1>3, FS_EmptySet, TaggedSize DEF Size, Counted
<1>6. PICK j \in DrainEnds : ExportDrain(acc, Size(tls[a]), j)
  BY <1>2, <1>3, <1>5
<1>7. tlsB' = tlsB - Size(tls[a]) /\ tls' = [tls EXCEPT ![a] = {}]
  BY <1>3, <1>5 DEF LogInv, Shaped
<1>8. /\ Shaped' /\ \A v \in Writers \ {a} : pc'[v] = pc[v] /\ req'[v] = req[v]
      /\ pc[a] \notin LogPcs /\ pc'[a] \in WriterPcs /\ pc'[a] \notin LogPcs
  BY <1>3 DEF LogInv, Shaped, LogPcs, WriterPcs
<1> QED
  BY <1>3, <1>4, <1>6, <1>7, <1>8, LogExports

\* Export by a thread with one.
LEMMA LogExportMerge ==
  ASSUME LogInv, NEW a \in Writers, pc[a] \notin LogPcs, ExportMerge(a),
         UNCHANGED <<sendB, inflightB, scratchB, items, wpc, wlist, task, sendq, inflight, next>>
  PROVE  LogInv'
<1>1. PICK at, by : Placed(at, by) /\ Counted(at, wpc, task, tlsB, ingressB, queueB, sendB, inflightB, scratchB)
  BY DEF LogInv
<1>2. PICK u, t, acc : /\ u = Unmerged /\ t = [logs |-> tls[a], force |-> FALSE]
                       /\ acc = MergeOne(u, t)
  OBVIOUS
<1>3. /\ \E j \in DrainEnds : ExportDrain(acc, Size(tls[a]), j)
      /\ tls' = [tls EXCEPT ![a] = {}]
      /\ tlsB' = tlsB - Size(tls[a])
      /\ Return(a) /\ answered' = answered
  BY <1>2 DEF ExportMerge
<1>4. MergeOk(acc) /\ \A l : Has(acc, l) <=> Has(Unmerged, l) \/ l \in tls[a]
  <2>1. MergeOk(u) /\ \A l \in Logs : Has(u, l) <=> at[l] \in {"default", "sealed"}
    BY <1>1, <1>2, UnmergedHas DEF Placed
  <2>2. t.logs = tls[a] /\ t.logs \in SUBSET Logs
    BY <1>2 DEF LogInv, Shaped
  <2>3. \A l \in t.logs : at[l] = "tls"
    BY <1>1, <2>2 DEF Placed, WriterHas
  <2>4. \A l \in t.logs : ~Has(u, l)
    BY <2>1, <2>2, <2>3
  <2>5. MergeOk(MergeOne(u, t)) /\ \A l : Has(MergeOne(u, t), l) <=> Has(u, l) \/ l \in t.logs
    BY <2>1, <2>2, <2>4, MergeOneHas
  <2> QED
    BY <1>2, <2>2, <2>5
<1>5. /\ Shaped' /\ \A v \in Writers \ {a} : pc'[v] = pc[v] /\ req'[v] = req[v]
      /\ pc'[a] \in WriterPcs /\ pc'[a] \notin LogPcs
  BY <1>3 DEF LogInv, Shaped, LogPcs, WriterPcs, Return
<1>6. PICK j \in DrainEnds : ExportDrain(acc, Size(tls[a]), j)
  BY <1>3
<1> QED
  BY <1>3, <1>4, <1>5, <1>6, LogExports

\* The batch of a thread is flushed, if there is room for it.
LEMMA LogFlush ==
  ASSUME LogInv, NEW a \in Writers, FlushSpace(a)
  PROVE  LogInv'
<1>1. /\ pc[a] \in {"flush", "reflush", "push"} /\ pc[a] \notin LogPcs
      /\ UNCHANGED <<sendB, inflightB, scratchB, items, wpc, wlist, task, sendq, inflight, next>>
  BY DEF FlushSpace, sendSide, workerVars, senderVars, LogPcs
<1>2. CASE ExportMerge(a)
  BY <1>1, <1>2, LogExportMerge
<1>3. CASE Push(a) \/ PushWaits(a) \/ PushFails(a, FALSE)
  <2>1. Push(a) \/ PushWaits(a) \/ (\E timeout : PushFails(a, timeout))
    BY <1>3
  <2> QED
    BY <1>1, <2>1, LogPushes
<1>4. CASE FlushFails(a) \/ ExportRefused(a)
  BY <1>1, <1>4, LogFlushFails DEF ExportRefused
<1>5. CASE /\ pc' = [pc EXCEPT ![a] = "reflush"]
           /\ UNCHANGED <<tlsB, ingressB, queueB, ingress, tls, builder, sealed, req, answered, lost>>
  <2>1. UNCHANGED LogVars
    BY <1>1, <1>5 DEF LogVars
  <2>2. Shaped' /\ \A v \in Writers \ {a} : pc'[v] = pc[v] /\ req'[v] = req[v]
    BY <1>1, <1>5 DEF LogInv, Shaped
  <2>3. pc'[a] \in WriterPcs \ LogPcs
    BY <1>5 DEF LogInv, Shaped, WriterPcs, LogPcs
  <2> QED
    BY <1>1, <2>1, <2>2, <2>3, LogStays
<1> QED
  BY <1>2, <1>3, <1>4, <1>5 DEF FlushSpace

\* Every step of the application's threads.
LEMMA LogWriter ==
  ASSUME LogInv, NEW a \in Writers, Call(a) \/ WriterStep(a)
  PROVE  LogInv'
<1>1. CASE Call(a)
  BY <1>1, LogWrite, LogCircuitOpen, LogCalls, LogExport, LogSwitch DEF Call
<1>2. CASE WriterStep(a)
  BY <1>2, LogSpace, LogCopied, LogAppend, LogFlush, LogPushSpace, LogCalls DEF WriterStep
<1> QED
  BY <1>1, <1>2

-----------------------------------------------------------------------------
(* The workers and the senders.                                            *)

\* Only the workers of Y have changed, and no writer has.
OnlyWorkers(Y) ==
  /\ Shaped'
  /\ \A v \in Workers \ Y : wpc'[v] = wpc[v] /\ wlist'[v] = wlist[v] /\ task'[v] = task[v]
  /\ UNCHANGED <<tls, pc, req>>

\* The bytes that workers in the middle of a step account for.
BytePcs == {"release", "put", "compress"}

\* A worker moves logs or not: what the writers and the other workers have is the same.
LEMMA WorkerStepKeeps ==
  ASSUME NEW at, NEW by, Placed(at, by), NEW at2 \in [Logs -> Tags], NEW by2,
         NEW Y \in SUBSET Workers, OnlyWorkers(Y), Frame(at, by, at2, by2, {}, Y),
         \A v \in Y : WorkerHas(at2, by2, v, wpc'[v], wlist'[v], task'[v]),
         QueuesHave(at2, ingress', items', builder', sealed'),
         SendersHave(at2, sendq', inflight'),
         HistoryHas(at2, next', answered', lost'),
         Counted(at2, wpc', task', tlsB', ingressB', queueB', sendB', inflightB', scratchB')
  PROVE  LogInv'
<1>1. /\ \A l \in Logs : at2[l] \in WriterTags => by2[l] \in Writers
      /\ \A l \in Logs : at2[l] \in WorkerTags => by2[l] \in Workers
      /\ \A v \in Writers : WriterHas(at2, by2, v, tls[v], pc[v], req[v])
      /\ \A v \in Workers \ Y : WorkerHas(at2, by2, v, wpc[v], wlist[v], task[v])
  <2>1. PICK X : X = {}
    OBVIOUS
  <2>2. X \in SUBSET Writers /\ Frame(at, by, at2, by2, X, Y) /\ Writers \ X = Writers
    BY <2>1
  <2>3. /\ \A l \in Logs : at2[l] \in WriterTags => by2[l] \in Writers
        /\ \A l \in Logs : at2[l] \in WorkerTags => by2[l] \in Workers
        /\ \A v \in Writers \ X : WriterHas(at2, by2, v, tls[v], pc[v], req[v])
        /\ \A v \in Workers \ Y : WorkerHas(at2, by2, v, wpc[v], wlist[v], task[v])
    BY <2>2, FrameKeeps
  <2> QED
    BY <2>2, <2>3
<1>2. \A v \in Workers : WorkerHas(at2, by2, v, wpc'[v], wlist'[v], task'[v])
  BY <1>1 DEF OnlyWorkers
<1>3. Placed(at2, by2)'
  BY <1>1, <1>2 DEF Placed, OnlyWorkers
<1> QED
  BY <1>3 DEF LogInv, OnlyWorkers

\* The same for one worker that moves no log.
LEMMA WorkerOnlyTurns ==
  ASSUME NEW at, NEW by, Placed(at, by), NEW w \in Workers, OnlyWorkers({w}),
         WorkerHas(at, by, w, wpc'[w], wlist'[w], task'[w]),
         Counted(at, wpc', task', tlsB', ingressB', queueB', sendB', inflightB', scratchB'),
         UNCHANGED <<ingress, items, builder, sealed, sendq, inflight, next, answered, lost>>
  PROVE  LogInv'
<1>1. PICK Y : Y = {w}
  OBVIOUS
<1>2. /\ Y \in SUBSET Workers /\ OnlyWorkers(Y) /\ Frame(at, by, at, by, {}, Y)
      /\ \A v \in Y : WorkerHas(at, by, v, wpc'[v], wlist'[v], task'[v])
  BY <1>1 DEF Frame
<1>3. /\ at \in [Logs -> Tags]
      /\ QueuesHave(at, ingress', items', builder', sealed')
      /\ SendersHave(at, sendq', inflight')
      /\ HistoryHas(at, next', answered', lost')
  BY DEF Placed
<1> QED
  BY <1>2, <1>3, WorkerStepKeeps

\* A worker goes from one step to another, neither of which accounts for bytes:
\* the counters keep.
LEMMA CountedIdle ==
  ASSUME NEW at, Counted(at, wpc, task, tlsB, ingressB, queueB, sendB, inflightB, scratchB),
         Shaped, NEW w \in Workers, NEW q, wpc' = [wpc EXCEPT ![w] = q],
         wpc[w] \notin BytePcs, q \notin BytePcs, \A v \in Workers \ {w} : task'[v] = task[v]
  PROVE  Counted(at, wpc', task', tlsB, ingressB, queueB, sendB, inflightB, scratchB)
<1>1. /\ \A r \in BytePcs : Carried(wpc', task', r) = Carried(wpc, task, r)
      /\ Packing(wpc') = Packing(wpc)
  <2>1. PICK ps2, ts2 : ps2 = wpc' /\ ts2 = task'
    OBVIOUS
  <2>2. /\ \A v \in Workers : v # w => ps2[v] = wpc[v] /\ ts2[v] = task[v]
        /\ ps2[w] = q
    BY <2>1 DEF Shaped
  <2>3. ASSUME NEW r \in BytePcs
        PROVE  Carried(ps2, ts2, r) = Carried(wpc, task, r)
    <3>1. \A v \in Workers : wpc[v] = r \/ ps2[v] = r => ps2[v] = wpc[v] /\ ts2[v] = task[v]
      BY <2>2
    <3> QED
      BY <3>1, CarriedKeeps
  <2>4. Packing(ps2) = Packing(wpc)
    BY <2>2 DEF BytePcs, Packing
  <2> QED
    BY <2>1, <2>3, <2>4
<1> QED
  BY <1>1 DEF Counted, BytePcs

\* The steps of a worker that has no task in its hands and takes no log.
LEMMA LogWorkerIdle ==
  ASSUME LogInv, NEW w \in Workers, WorkerWait(w) \/ WorkerExit(w) \/ WorkerBatch(w)
  PROVE  LogInv'
<1>1. PICK at, by : Placed(at, by) /\ Counted(at, wpc, task, tlsB, ingressB, queueB, sendB, inflightB, scratchB)
  BY DEF LogInv
<1>2. /\ UNCHANGED <<tlsB, ingressB, queueB, sendB, inflightB, scratchB>>
      /\ UNCHANGED <<tls, pc, req>>
      /\ UNCHANGED <<ingress, items, builder, sealed, wlist, sendq, inflight, next, answered, lost>>
  BY DEF WorkerWait, WorkerExit, WorkerBatch, budgetVars, ingressSide, sendSide, writerVars,
     queueVars, workerVars, senderVars, historyVars
<1>3. WorkerHas(at, by, w, wpc[w], wlist[w], task[w]) /\ Shaped
  BY <1>1 DEF Placed, LogInv
<1>4. PICK q : /\ wpc' = [wpc EXCEPT ![w] = q] /\ wpc[w] \in {"loop", "timed", "items", "batches"}
               /\ \/ wpc[w] \in {"loop", "timed"} /\ q \in {"loop", "timed", "exited"} /\ task' = task
                  \/ q = "loop" /\ wlist[w] = <<>> /\ task' = task
                  \/ q = "prepare" /\ wlist[w] # <<>> /\ task' = [task EXCEPT ![w] = Head(wlist[w])]
                     /\ wpc[w] \in {"items", "batches"}
  <2>1. CASE WorkerWait(w)
    BY <1>3, <2>1 DEF WorkerWait, Shaped
  <2>3. CASE WorkerExit(w)
    BY <1>3, <2>3 DEF WorkerExit, Shaped
  <2>4. CASE WorkerBatch(w)
    BY <1>3, <2>4 DEF WorkerBatch, Shaped
  <2> QED
    BY <2>1, <2>3, <2>4
<1>5. wpc'[w] = q /\ OnlyWorkers({w}) /\ \A v \in Workers \ {w} : task'[v] = task[v]
  BY <1>2, <1>3, <1>4 DEF Shaped, OnlyWorkers
<1>6. Counted(at, wpc', task', tlsB', ingressB', queueB', sendB', inflightB', scratchB')
  <2>1. wpc[w] \notin BytePcs /\ q \notin BytePcs
    BY <1>4 DEF BytePcs
  <2>2. Counted(at, wpc', task', tlsB, ingressB, queueB, sendB, inflightB, scratchB)
    BY <1>1, <1>3, <1>4, <1>5, <2>1, CountedIdle
  <2> QED
    BY <1>2, <2>2
<1>7. WorkerHas(at, by, w, q, wlist[w], task'[w])
  <2>1. CASE q \in {"loop", "timed", "exited"}
    <3>1. task' = task /\ wlist[w] = <<>>
      BY <1>3, <1>4, <2>1 DEF WorkerHas
    <3>2. WorkerHas(at, by, w, q, wlist[w], task[w])
      BY <1>3, <1>4, <2>1, <3>1 DEF WorkerHas, TaskPcs
    <3> QED
      BY <3>1, <3>2
  <2>2. CASE q = "prepare"
    <3>1. wlist[w] # <<>> /\ task'[w] = Head(wlist[w]) /\ wpc[w] \in {"items", "batches"}
      BY <1>3, <1>4, <2>2 DEF Shaped
    <3>2. PICK t : t = task'[w]
      OBVIOUS
    <3>3. First(wlist[w], t) /\ t \in SUBSET Logs
      BY <1>3, <3>1, <3>2 DEF First, WorkerHas
    <3>4. WorkerHas(at, by, w, q, wlist[w], t)
      BY <1>3, <2>2, <3>1, <3>3 DEF WorkerHas, TaskPcs
    <3> QED
      BY <3>2, <3>4
  <2> QED
    BY <1>4, <2>1, <2>2
<1>8. WorkerHas(at, by, w, wpc'[w], wlist'[w], task'[w])
  BY <1>2, <1>5, <1>7
<1> QED
  BY <1>1, <1>2, <1>5, <1>6, <1>8, WorkerOnlyTurns

\* A worker with a task goes from one step to another: what the logs of the
\* tasks at a step are then.
LEMMA TaskTurn ==
  ASSUME NEW at, NEW by, Placed(at, by), Shaped, NEW w \in Workers, wpc[w] \in TaskPcs \cup {"release"},
         NEW q, q # wpc[w], wpc' = [wpc EXCEPT ![w] = q], task' = task, NEW r \in BytePcs
  PROVE  /\ Cardinality(task[w]) \in Nat
         /\ Cardinality(Carried(wpc, task, r)) \in Nat /\ Cardinality(Carried(wpc', task', r)) \in Nat
         /\ r # wpc[w] /\ r # q => Carried(wpc', task', r) = Carried(wpc, task, r)
         /\ r = q => Cardinality(Carried(wpc', task', r))
                       = Cardinality(Carried(wpc, task, r)) + Cardinality(task[w])
         /\ r = wpc[w] => Cardinality(Carried(wpc, task, r))
                       = Cardinality(Carried(wpc', task', r)) + Cardinality(task[w])
<1>1. task[w] \in SUBSET Logs
  BY DEF Placed, WorkerHas
<1>2. ASSUME NEW v \in Workers, v # w, wpc[v] = r
      PROVE  task[v] \cap task[w] = {}
  <2>1. wpc[v] \in TaskPcs \cup {"release"}
    BY <1>2 DEF BytePcs, TaskPcs
  <2> QED
    BY <1>2, <2>1, TasksApart
<1>5. PICK ps, ts : ps = wpc' /\ ts = task'
  OBVIOUS
<1>3. /\ r # wpc[w] /\ r # q => Carried(ps, task, r) = Carried(wpc, task, r)
      /\ r = q => Cardinality(Carried(ps, task, r)) = Cardinality(Carried(wpc, task, r)) + Cardinality(task[w])
      /\ r = wpc[w] =>
           Cardinality(Carried(wpc, task, r)) = Cardinality(Carried(ps, task, r)) + Cardinality(task[w])
  <2>1. Turns(wpc, ps, w, q)
    BY <1>5 DEF Shaped, Turns
  <2>2. Own(wpc, task, w, r)
    BY <1>1, <1>2 DEF Own
  <2> QED
    BY <1>1, <2>1, <2>2, CarriedMove
<1>4. Cardinality(task[w]) \in Nat
  BY <1>1, LogsFinite
<1>6. Cardinality(Carried(wpc, task, r)) \in Nat /\ Cardinality(Carried(ps, ts, r)) \in Nat
  BY CarriedSize
<1> QED
  BY <1>3, <1>4, <1>5, <1>6

\* The scratch memory that a worker gets or returns on its way from p to q.
Spends(p, q, t, c, c2) ==
  /\ q = "compress" => c2 = c + ScratchBytes(t)
  /\ p = "compress" => c2 = Less(c, ScratchBytes(t))
  /\ q # "compress" /\ p # "compress" => c2 = c

\* What scratch_bytes is then.
LEMMA ScratchTurn ==
  ASSUME NEW at, NEW by, Placed(at, by), Shaped, NEW w \in Workers, wpc[w] \in TaskPcs,
         NEW q, q # wpc[w], wpc' = [wpc EXCEPT ![w] = q], task' = task,
         NEW c, c = Cardinality(Carried(wpc, task, "compress"))
                    + Scratch * Cardinality(Packing(wpc)),
         NEW c2, Spends(wpc[w], q, task[w], c, c2)
  PROVE  c2 = Cardinality(Carried(wpc', task', "compress"))
              + Scratch * Cardinality(Packing(wpc'))
<1>1. PICK n, m, k, j, z :
        /\ n = Cardinality(Packing(wpc))
        /\ m = Cardinality(Packing(wpc'))
        /\ k = Cardinality(Carried(wpc, task, "compress"))
        /\ j = Cardinality(Carried(wpc', task', "compress"))
        /\ z = Cardinality(task[w])
  OBVIOUS
<1>2. /\ n \in Nat /\ m \in Nat
      /\ wpc[w] # "compress" /\ q = "compress" => m = n + 1
      /\ wpc[w] = "compress" /\ q # "compress" => n = m + 1
      /\ wpc[w] # "compress" /\ q # "compress" => m = n
  <2>1. PICK ps : ps = wpc'
    OBVIOUS
  <2>2. Turns(wpc, ps, w, q)
    BY <2>1 DEF Shaped, Turns
  <2> QED
    BY <1>1, <2>1, <2>2, Compressing
<1>3. /\ k \in Nat /\ j \in Nat /\ z \in Nat
      /\ wpc[w] # "compress" /\ q = "compress" => j = k + z
      /\ wpc[w] = "compress" /\ q # "compress" => k = j + z
      /\ wpc[w] # "compress" /\ q # "compress" => j = k
  <2>1. "compress" \in BytePcs /\ wpc[w] \in TaskPcs \cup {"release"}
    BY DEF BytePcs
  <2> QED
    BY <1>1, <2>1, TaskTurn
<1>4. Scratch \in Nat /\ ScratchBytes(task[w]) = z + Scratch
  BY <1>1, IngressAssumption DEF ScratchBytes, Size
<1>5. PICK x, y : x = Scratch * n /\ y = Scratch * m
  OBVIOUS
<1>6. /\ x \in Nat /\ y \in Nat
      /\ m = n + 1 => y = x + Scratch
      /\ n = m + 1 => x = y + Scratch
      /\ m = n => y = x
  BY <1>2, <1>4, <1>5
<1>7. c = k + x
  BY <1>1, <1>5
<1>8. c2 = j + y
  <2>1. CASE q = "compress"
    BY <1>2, <1>3, <1>4, <1>6, <1>7, <2>1 DEF Spends
  <2>2. CASE wpc[w] = "compress"
    BY <1>2, <1>3, <1>4, <1>6, <1>7, <2>2 DEF Less, Spends
  <2>3. CASE q # "compress" /\ wpc[w] # "compress"
    BY <1>2, <1>3, <1>4, <1>6, <1>7, <2>3 DEF Spends
  <2> QED
    BY <2>1, <2>2, <2>3
<1> QED
  BY <1>1, <1>5, <1>8

\* A worker goes on with its task: it gets or returns scratch memory, or
\* reserves the bytes of the task.
LEMMA LogTaskTurns ==
  ASSUME LogInv, NEW w \in Workers, wpc[w] \in TaskPcs, wpc[w] # "put",
         NEW q \in TaskPcs, q # wpc[w], wpc' = [wpc EXCEPT ![w] = q],
         q = "put" => sendB' = sendB + Size(task[w]), q # "put" => sendB' = sendB,
         q = "compress" => scratchB' = scratchB + ScratchBytes(task[w]),
         wpc[w] = "compress" => scratchB' = Less(scratchB, ScratchBytes(task[w])),
         q # "compress" /\ wpc[w] # "compress" => scratchB' = scratchB,
         UNCHANGED <<tlsB, ingressB, queueB, inflightB, tls, pc, req, ingress, items, builder, sealed,
                     wlist, task, sendq, inflight, next, answered, lost>>
  PROVE  LogInv'
<1>1. PICK at, by : Placed(at, by) /\ Counted(at, wpc, task, tlsB, ingressB, queueB, sendB, inflightB, scratchB)
  BY DEF LogInv
<1>2. WorkerHas(at, by, w, wpc[w], wlist[w], task[w]) /\ Shaped
  BY <1>1 DEF Placed, LogInv
<1>3. wpc'[w] = q /\ OnlyWorkers({w})
  BY <1>2 DEF Shaped, OnlyWorkers
<1>4. WorkerHas(at, by, w, q, wlist[w], task[w])
  BY <1>2 DEF WorkerHas, TaskPcs
<1>5. WorkerHas(at, by, w, wpc'[w], wlist'[w], task'[w])
  BY <1>3, <1>4
<1>6. wpc[w] \in TaskPcs \cup {"release"} /\ wpc[w] # "release" /\ q # "release" /\ task' = task
  BY DEF TaskPcs
<1>7. Carried(wpc', task', "release") = Carried(wpc, task, "release")
  <2>1. "release" \in BytePcs
    BY DEF BytePcs
  <2> QED
    BY <1>1, <1>2, <1>6, <2>1, TaskTurn
<1>8. sendB' = Cardinality(Tagged(at, {"sendq"})) + Cardinality(Carried(wpc', task', "put"))
  <2>1. "put" \in BytePcs
    BY DEF BytePcs
  <2>2. /\ Cardinality(task[w]) \in Nat /\ Cardinality(Carried(wpc, task, "put")) \in Nat
        /\ q = "put" => Cardinality(Carried(wpc', task', "put"))
                         = Cardinality(Carried(wpc, task, "put")) + Cardinality(task[w])
        /\ q # "put" => Carried(wpc', task', "put") = Carried(wpc, task, "put")
    BY <1>1, <1>2, <1>6, <2>1, TaskTurn
  <2>3. Cardinality(Tagged(at, {"sendq"})) \in Nat
    BY TaggedSize
  <2> QED
    BY <1>1, <2>2, <2>3 DEF Counted, Size
<1>9. scratchB' = Cardinality(Carried(wpc', task', "compress"))
                  + Scratch * Cardinality(Packing(wpc'))
  <2>1. scratchB = Cardinality(Carried(wpc, task, "compress"))
                   + Scratch * Cardinality(Packing(wpc))
    BY <1>1 DEF Counted
  <2>2. PICK c2 : c2 = scratchB'
    OBVIOUS
  <2>3. Spends(wpc[w], q, task[w], scratchB, c2)
    BY <2>2 DEF Spends
  <2> QED
    BY <1>1, <1>2, <1>6, <2>1, <2>2, <2>3, ScratchTurn
<1>10. Counted(at, wpc', task', tlsB', ingressB', queueB', sendB', inflightB', scratchB')
  BY <1>1, <1>7, <1>8, <1>9 DEF Counted
<1> QED
  BY <1>1, <1>3, <1>5, <1>10, WorkerOnlyTurns

\* The logs of a task go to d, which is with the senders or for good: what
\* the worker has then.
Hands(at, at2, t, d) == \A l \in Logs : at2[l] = IF l \in t THEN d ELSE at[l]

\* A batch stays at the head of the list until its bytes are released.
LEMMA TaskGoes ==
  ASSUME NEW at, NEW by, NEW w, NEW p \in TaskPcs, NEW s, NEW t, WorkerHas(at, by, w, p, s, t),
         NEW d \in {"done", "sendq"}, NEW at2, Hands(at, at2, t, d),
         NEW q, First(s, t) => q = "release", ~First(s, t) => q = "items"
  PROVE  WorkerHas(at2, by, w, q, s, t)
<1>1. /\ s \in Seq(SUBSET Logs) /\ Apart(Len(s), s) /\ t \in SUBSET Logs
      /\ \A l \in Logs : at[l] = "list" /\ by[l] = w <=> \E i \in 1..Len(s) : l \in s[i]
      /\ \A l \in Logs : at[l] = "task" /\ by[l] = w <=> ~First(s, t) /\ l \in t
  BY DEF WorkerHas, TaskPcs
<1>2. \A l \in Logs : at2[l] = IF l \in t THEN d ELSE at[l]
  BY DEF Hands
<1>3. CASE First(s, t)
  <2>1. q = "release" /\ 1 \in 1..Len(s) /\ t = s[1]
    BY <1>1, <1>3 DEF First
  <2>2. \A l \in t : l \in Logs /\ by[l] = w /\ at2[l] \in SenderTags \cup {"done"}
    BY <1>1, <1>2, <2>1 DEF SenderTags
  <2>3. ASSUME NEW l \in Logs
        PROVE  at2[l] = "list" /\ by[l] = w <=> \E i \in 1..Len(s) : l \in s[i] /\ i # 1
    <3>1. CASE l \in t
      <4>1. \A i \in 1..Len(s) : i # 1 => l \notin s[i]
        BY <1>1, <2>1, <3>1 DEF Apart
      <4> QED
        BY <1>2, <3>1, <4>1
    <3>2. CASE l \notin t
      BY <1>1, <1>2, <2>1, <3>2
    <3> QED
      BY <3>1, <3>2
  <2>4. \A l \in Logs : ~(at2[l] = "task" /\ by[l] = w)
    BY <1>1, <1>2, <1>3
  <2> QED
    BY <1>1, <1>3, <2>1, <2>2, <2>3, <2>4 DEF WorkerHas, TaskPcs
<1>4. CASE ~First(s, t)
  <2>1. q = "items" /\ \A l \in t : at[l] = "task"
    BY <1>1, <1>4
  <2>2. \A l \in Logs : ~(at2[l] = "task" /\ by[l] = w)
    BY <1>1, <1>2, <1>4
  <2>3. \A l \in Logs : at2[l] = "list" <=> at[l] = "list"
    BY <1>2, <2>1
  <2> QED
    BY <1>1, <2>1, <2>2, <2>3 DEF WorkerHas, TaskPcs
<1> QED
  BY <1>3, <1>4

\* The task of a worker is dropped, or the send queue takes it.
LEMMA LogTaskGoes ==
  ASSUME LogInv, NEW w \in Workers, wpc[w] \in TaskPcs,
         NEW d \in {"done", "sendq"}, wpc' = [wpc EXCEPT ![w] = AfterTask(w)],
         d = "sendq" => wpc[w] = "put" /\ sendq' = sendq \cup {task[w]},
         d = "done" => task[w] \subseteq answered' /\ sendq' = sendq,
         answered \subseteq answered',
         wpc[w] = "put" /\ d = "done" => sendB' = Less(sendB, Size(task[w])),
         wpc[w] # "put" \/ d = "sendq" => sendB' = sendB,
         wpc[w] = "compress" => scratchB' = Less(scratchB, ScratchBytes(task[w])),
         wpc[w] # "compress" => scratchB' = scratchB,
         UNCHANGED <<tlsB, ingressB, queueB, inflightB, tls, pc, req, ingress, items, builder, sealed,
                     wlist, task, inflight, next, lost>>
  PROVE  LogInv'
<1>1. PICK at, by : Placed(at, by) /\ Counted(at, wpc, task, tlsB, ingressB, queueB, sendB, inflightB, scratchB)
  BY DEF LogInv
<1>2. WorkerHas(at, by, w, wpc[w], wlist[w], task[w]) /\ Shaped /\ at \in [Logs -> Tags]
  BY <1>1 DEF Placed, LogInv
<1>3. PICK t, s, p, q, at2, k : /\ t = task[w] /\ s = wlist[w] /\ p = wpc[w] /\ q = AfterTask(w)
                                /\ at2 = Move(at, t, d) /\ k = IF First(s, t) THEN "list" ELSE "task"
  OBVIOUS
<1>4. /\ t \in SUBSET Logs /\ \A l \in t : by[l] = w /\ at[l] = k
  <2>1. WorkerHas(at, by, w, p, s, t) /\ p \in TaskPcs \cup {"release"} /\ p # "release"
    BY <1>2, <1>3 DEF TaskPcs
  <2>2. /\ t \in SUBSET Logs
        /\ \A l \in t : by[l] = w
        /\ First(s, t) => \A l \in t : at[l] = "list"
        /\ ~First(s, t) => \A l \in t : at[l] = "task"
    BY <2>1, TaskBy
  <2> QED
    BY <1>3, <2>2
<1>5. Hands(at, at2, t, d) /\ at2 \in [Logs -> Tags]
  BY <1>2, <1>3 DEF Hands, Move, Tags, SenderTags
<1>6. Moves(at, by, at2, by, t, k, d)
  BY <1>3, <1>4 DEF Moves, Tags, WorkerTags, SenderTags
<1>7. /\ First(s, t) => q = "release" /\ k = "list"
      /\ ~First(s, t) => q = "items" /\ k = "task"
  BY <1>3 DEF AfterTask, FromList, First
<1>8. WorkerHas(at2, by, w, q, s, t)
  <2>1. WorkerHas(at, by, w, p, s, t) /\ p \in TaskPcs
    BY <1>2, <1>3
  <2> QED
    BY <1>5, <1>7, <2>1, TaskGoes
<1>9. wpc'[w] = q /\ OnlyWorkers({w}) /\ wpc' = [wpc EXCEPT ![w] = q]
  BY <1>2, <1>3 DEF Shaped, OnlyWorkers
<1>10. PICK Y : Y = {w}
  OBVIOUS
<1>11. /\ Y \in SUBSET Workers /\ OnlyWorkers(Y)
       /\ \A v \in Y : WorkerHas(at2, by, v, wpc'[v], wlist'[v], task'[v])
  BY <1>3, <1>8, <1>9, <1>10
<1>12. Frame(at, by, at2, by, {}, Y)
  BY <1>4, <1>5, <1>7, <1>10 DEF Hands, Frame, WriterTags, WorkerTags, SenderTags
<1>13. QueuesHave(at2, ingress', items', builder', sealed')
  <2>1. \A l \in Logs, g \in QueueTags : at[l] = g <=> at2[l] = g
    BY <1>4, <1>5, <1>7 DEF Hands, QueueTags
  <2> QED
    BY <1>1, <2>1, QueuesKeep DEF Placed
<1>14. HistoryHas(at2, next', answered', lost')
  <2>1. \A l \in Logs : /\ at[l] = "new" <=> at2[l] = "new"
                        /\ at2[l] = "done" => at[l] = "done" \/ l \in answered' \cup lost'
    BY <1>3, <1>4, <1>5, <1>7 DEF Hands
  <2> QED
    BY <1>1, <2>1, HistoryKeeps DEF Placed
<1>15. SendersHave(at2, sendq', inflight')
  <2>1. CASE d = "done"
    <3>1. \A l \in Logs, g \in SenderTags : at[l] = g <=> at2[l] = g
      BY <1>4, <1>5, <1>7, <2>1 DEF Hands, SenderTags
    <3> QED
      BY <1>1, <2>1, <3>1, SendersKeep DEF Placed
  <2>2. CASE d = "sendq"
    <3>1. SendersHave(at, sendq, inflight) /\ sendq' = sendq \cup {t}
      BY <1>1, <1>3, <2>2 DEF Placed
    <3>2. \A b \in sendq : b \cap t = {}
      BY <1>4, <1>7, <3>1 DEF SendersHave
    <3>3. \A l \in Logs : at2[l] = "sendq" <=> l \in UNION (sendq \cup {t})
      BY <1>5, <2>2, <3>1 DEF SendersHave, Hands
    <3>4. \A l \in Logs : at2[l] = "inflight" <=> at[l] = "inflight"
      BY <1>4, <1>5, <1>7, <2>2 DEF Hands
    <3>5. \A b, c \in sendq \cup {t} : b # c => b \cap c = {}
      BY <3>1, <3>2 DEF SendersHave
    <3> QED
      BY <1>4, <3>1, <3>3, <3>4, <3>5 DEF SendersHave
  <2> QED
    BY <2>1, <2>2
<1>16. /\ Cardinality(t) \in Nat
       /\ \A T : (k \in T <=> d \in T) => Tagged(at2, T) = Tagged(at, T)
       /\ \A T : k \notin T /\ d \in T =>
            Cardinality(Tagged(at2, T)) = Cardinality(Tagged(at, T)) + Cardinality(t)
       /\ \A T : k \in T /\ d \notin T =>
            Cardinality(Tagged(at, T)) = Cardinality(Tagged(at2, T)) + Cardinality(t)
  BY <1>4, <1>6, LogsFinite, MoveCounts
<1>17. p \in TaskPcs \cup {"release"} /\ p # "release" /\ q # p /\ q # "put" /\ q # "compress" /\ task' = task
  BY <1>3, <1>7 DEF TaskPcs
<1>18. ASSUME NEW r \in BytePcs
       PROVE  /\ Cardinality(Carried(wpc, task, r)) \in Nat /\ Cardinality(Carried(wpc', task', r)) \in Nat
              /\ r # p /\ r # q => Carried(wpc', task', r) = Carried(wpc, task, r)
              /\ r = q => Cardinality(Carried(wpc', task', r))
                            = Cardinality(Carried(wpc, task, r)) + Cardinality(t)
              /\ r = p => Cardinality(Carried(wpc, task, r))
                            = Cardinality(Carried(wpc', task', r)) + Cardinality(t)
  <2>1. wpc[w] \in TaskPcs \cup {"release"} /\ q # wpc[w]
    BY <1>3, <1>17
  <2> QED
    BY <1>1, <1>2, <1>3, <1>9, <1>17, <2>1, TaskTurn
<1>19. queueB' = Cardinality(Tagged(at2, CountedTags)) + Cardinality(Carried(wpc', task', "release"))
  <2>1. "release" \in BytePcs /\ "list" \in CountedTags /\ "task" \notin CountedTags /\ d \notin CountedTags
    BY DEF BytePcs, CountedTags
  <2>2. queueB' = Cardinality(Tagged(at, CountedTags)) + Cardinality(Carried(wpc, task, "release"))
    BY <1>1 DEF Counted
  <2>3. Cardinality(Tagged(at, CountedTags)) \in Nat /\ Cardinality(Tagged(at2, CountedTags)) \in Nat
    BY TaggedSize
  <2>4. CASE First(s, t)
    <3>1. Cardinality(Tagged(at, CountedTags)) = Cardinality(Tagged(at2, CountedTags)) + Cardinality(t)
      BY <1>7, <1>16, <2>1, <2>4
    <3>2. Cardinality(Carried(wpc', task', "release")) = Cardinality(Carried(wpc, task, "release")) + Cardinality(t)
          /\ Cardinality(Carried(wpc, task, "release")) \in Nat
      BY <1>7, <1>18, <2>1, <2>4
    <3> QED
      BY <1>16, <2>2, <2>3, <3>1, <3>2
  <2>5. CASE ~First(s, t)
    <3>1. Tagged(at2, CountedTags) = Tagged(at, CountedTags)
      BY <1>7, <1>16, <2>1, <2>5
    <3>2. Carried(wpc', task', "release") = Carried(wpc, task, "release")
      BY <1>7, <1>17, <1>18, <2>1, <2>5
    <3> QED
      BY <2>2, <3>1, <3>2
  <2> QED
    BY <2>4, <2>5
<1>20. sendB' = Cardinality(Tagged(at2, {"sendq"})) + Cardinality(Carried(wpc', task', "put"))
  <2>1. "put" \in BytePcs
    BY DEF BytePcs
  <2>2. sendB = Cardinality(Tagged(at, {"sendq"})) + Cardinality(Carried(wpc, task, "put"))
    BY <1>1 DEF Counted
  <2>3. Cardinality(Tagged(at, {"sendq"})) \in Nat
    BY TaggedSize
  <2>4. k # "sendq" /\ Cardinality(t) \in Nat
    BY <1>7, <1>16
  <2>5. /\ d = "done" => Tagged(at2, {"sendq"}) = Tagged(at, {"sendq"})
        /\ d = "sendq" =>
             Cardinality(Tagged(at2, {"sendq"})) = Cardinality(Tagged(at, {"sendq"})) + Cardinality(t)
    BY <1>16, <2>4
  <2>6. /\ Cardinality(Carried(wpc', task', "put")) \in Nat
        /\ p = "put" => Cardinality(Carried(wpc, task, "put")) = Cardinality(Carried(wpc', task', "put")) + Cardinality(t)
        /\ p # "put" => Carried(wpc', task', "put") = Carried(wpc, task, "put")
    BY <1>17, <1>18, <2>1
  <2>7. CASE d = "done" /\ p = "put"
    BY <1>3, <2>2, <2>3, <2>4, <2>5, <2>6, <2>7 DEF Less, Size
  <2>8. CASE d = "done" /\ p # "put"
    BY <1>3, <2>2, <2>5, <2>6, <2>8
  <2>9. CASE d = "sendq"
    BY <1>3, <2>2, <2>3, <2>4, <2>5, <2>6, <2>9
  <2> QED
    BY <2>7, <2>8, <2>9
<1>21. scratchB' = Cardinality(Carried(wpc', task', "compress")) + Scratch * Cardinality(Packing(wpc'))
  <2>1. PICK c, c2 : c = scratchB /\ c2 = scratchB'
    OBVIOUS
  <2>2. c = Cardinality(Carried(wpc, task, "compress")) + Scratch * Cardinality(Packing(wpc))
    BY <1>1, <2>1 DEF Counted
  <2>3. q # wpc[w] /\ wpc[w] \in TaskPcs /\ wpc' = [wpc EXCEPT ![w] = q] /\ task' = task
    BY <1>3, <1>9, <1>17
  <2>4. Spends(wpc[w], q, task[w], c, c2)
    BY <1>17, <2>1 DEF Spends
  <2>5. c2 = Cardinality(Carried(wpc', task', "compress")) + Scratch * Cardinality(Packing(wpc'))
    BY <1>1, <1>2, <2>2, <2>3, <2>4, ScratchTurn
  <2> QED
    BY <2>1, <2>5
<1>22. Counted(at2, wpc', task', tlsB', ingressB', queueB', sendB', inflightB', scratchB')
  <2>1. \A T : T \cap {"list", "task", "done", "sendq"} = {} => Tagged(at2, T) = Tagged(at, T)
    BY <1>7, <1>16
  <2> QED
    BY <1>1, <1>19, <1>20, <1>21, <2>1 DEF Counted
<1> QED
  BY <1>1, <1>5, <1>11, <1>12, <1>13, <1>14, <1>15, <1>22, WorkerStepKeeps

\* The steps of a worker that has a task in its hands.
LEMMA LogTask ==
  ASSUME LogInv, NEW w \in Workers,
         WorkerPrepare(w) \/ WorkerCompress(w) \/ WorkerReserve(w) \/ WorkerPut(w)
  PROVE  LogInv'
<1>1. /\ UNCHANGED <<tlsB, ingressB, queueB, inflightB, tls, pc, req, ingress, items, builder, sealed,
                     wlist, task, inflight, next, lost>>
      /\ wpc[w] \in TaskPcs
  BY DEF WorkerPrepare, WorkerCompress, WorkerReserve, WorkerPut, ingressSide, writerVars, senderVars,
     queueVars, TaskPcs
<1>2. CASE UNCHANGED <<wpc, sendB, scratchB, sendq, answered>>
  <2>1. UNCHANGED <<LogVars, pc, req>>
    BY <1>1, <1>2 DEF LogVars
  <2> QED
    BY <2>1, LogQuiet
<1>3. ASSUME NEW q \in TaskPcs, wpc[w] # "put", q # wpc[w], wpc' = [wpc EXCEPT ![w] = q],
             q = "put" => sendB' = sendB + Size(task[w]), q # "put" => sendB' = sendB,
             Spends(wpc[w], q, task[w], scratchB, scratchB'), UNCHANGED <<sendq, answered>>
      PROVE  LogInv'
  BY <1>1, <1>3, LogTaskTurns DEF Spends
<1>4. ASSUME DropTask(w), sendq' = sendq,
             wpc[w] = "put" => sendB' = Less(sendB, Size(task[w])), wpc[w] # "put" => sendB' = sendB,
             wpc[w] = "compress" => scratchB' = Less(scratchB, ScratchBytes(task[w])),
             wpc[w] # "compress" => scratchB' = scratchB
      PROVE  LogInv'
  <2>1. /\ task[w] \subseteq answered' /\ answered \subseteq answered'
        /\ wpc' = [wpc EXCEPT ![w] = AfterTask(w)]
    BY <1>4 DEF DropTask
  <2>2. PICK d : d = "done"
    OBVIOUS
  <2>3. /\ d \in {"done", "sendq"}
        /\ d = "sendq" => wpc[w] = "put" /\ sendq' = sendq \cup {task[w]}
        /\ d = "done" => task[w] \subseteq answered' /\ sendq' = sendq
        /\ wpc[w] = "put" /\ d = "done" => sendB' = Less(sendB, Size(task[w]))
        /\ wpc[w] # "put" \/ d = "sendq" => sendB' = sendB
    BY <1>4, <2>1, <2>2
  <2> QED
    BY <1>1, <1>4, <2>1, <2>3, LogTaskGoes
<1>5. ASSUME WorkerNoSpace(w), wpc[w] \notin {"put", "compress"}, sendq' = sendq
      PROVE  LogInv'
  <2>1. UNCHANGED <<sendB, scratchB>> /\ (DropTask(w) \/ UNCHANGED <<wpc, answered>>)
    BY <1>5 DEF WorkerNoSpace
  <2>2. CASE DropTask(w)
    BY <1>4, <1>5, <2>1, <2>2
  <2>3. CASE UNCHANGED <<wpc, answered>>
    BY <1>2, <1>5, <2>1, <2>3
  <2> QED
    BY <2>1, <2>2, <2>3
<1>6. CASE WorkerPrepare(w)
  <2>1. wpc[w] = "prepare" /\ sendq' = sendq /\ "reserve" \in TaskPcs /\ "compress" \in TaskPcs
    BY <1>6 DEF WorkerPrepare, senderVars, TaskPcs
  <2>2. CASE wpc' = [wpc EXCEPT ![w] = "reserve"] /\ UNCHANGED <<scratchB, sendB, answered>>
    <3>1. Spends(wpc[w], "reserve", task[w], scratchB, scratchB')
      BY <2>1, <2>2 DEF Spends
    <3> QED
      BY <1>3, <2>1, <2>2, <3>1
  <2>3. CASE /\ scratchB' = scratchB + ScratchBytes(task[w])
             /\ wpc' = [wpc EXCEPT ![w] = "compress"] /\ UNCHANGED <<sendB, answered>>
    <3>1. Spends(wpc[w], "compress", task[w], scratchB, scratchB')
      BY <2>1, <2>3 DEF Spends
    <3> QED
      BY <1>3, <2>1, <2>3, <3>1
  <2>4. CASE WorkerNoSpace(w)
    BY <1>5, <2>1, <2>4
  <2> QED
    BY <1>6, <2>2, <2>3, <2>4 DEF WorkerPrepare
<1>7. CASE WorkerCompress(w)
  <2>1. /\ wpc[w] = "compress" /\ sendq' = sendq /\ sendB' = sendB /\ "reserve" \in TaskPcs
        /\ scratchB' = Less(scratchB, ScratchBytes(task[w]))
    BY <1>7 DEF WorkerCompress, senderVars, TaskPcs
  <2>2. CASE wpc' = [wpc EXCEPT ![w] = "reserve"] /\ answered' = answered
    <3>1. Spends(wpc[w], "reserve", task[w], scratchB, scratchB')
      BY <2>1 DEF Spends
    <3> QED
      BY <1>3, <2>1, <2>2, <3>1
  <2>3. CASE DropTask(w)
    BY <1>4, <2>1, <2>3
  <2> QED
    BY <1>7, <2>2, <2>3 DEF WorkerCompress
<1>8. CASE WorkerReserve(w)
  <2>1. wpc[w] = "reserve" /\ sendq' = sendq /\ "put" \in TaskPcs
    BY <1>8 DEF WorkerReserve, senderVars, TaskPcs
  <2>2. CASE /\ sendB' = sendB + Size(task[w])
             /\ wpc' = [wpc EXCEPT ![w] = "put"] /\ UNCHANGED <<scratchB, answered>>
    <3>1. Spends(wpc[w], "put", task[w], scratchB, scratchB')
      BY <2>1, <2>2 DEF Spends
    <3> QED
      BY <1>3, <2>1, <2>2, <3>1
  <2>3. CASE WorkerNoSpace(w)
    BY <1>5, <2>1, <2>3
  <2> QED
    BY <1>8, <2>2, <2>3 DEF WorkerReserve
<1>9. CASE WorkerPut(w)
  <2>1. wpc[w] = "put" /\ scratchB' = scratchB
    BY <1>9 DEF WorkerPut
  <2>2. CASE DropTask(w) /\ sendB' = Less(sendB, Size(task[w])) /\ sendq' = sendq
    BY <1>4, <2>1, <2>2
  <2>3. CASE /\ sendq' = sendq \cup {task[w]} /\ wpc' = [wpc EXCEPT ![w] = AfterTask(w)]
             /\ UNCHANGED <<sendB, answered>>
    <3>1. PICK d : d = "sendq"
      OBVIOUS
    <3>2. /\ d \in {"done", "sendq"}
          /\ d = "sendq" => wpc[w] = "put" /\ sendq' = sendq \cup {task[w]}
          /\ d = "done" => task[w] \subseteq answered' /\ sendq' = sendq
          /\ answered \subseteq answered'
          /\ wpc[w] = "put" /\ d = "done" => sendB' = Less(sendB, Size(task[w]))
          /\ wpc[w] # "put" \/ d = "sendq" => sendB' = sendB
          /\ wpc[w] = "compress" => scratchB' = Less(scratchB, ScratchBytes(task[w]))
          /\ wpc[w] # "compress" => scratchB' = scratchB
          /\ wpc' = [wpc EXCEPT ![w] = AfterTask(w)]
      BY <2>1, <2>3, <3>1
    <3> QED
      BY <1>1, <3>2, LogTaskGoes
  <2> QED
    BY <1>9, <2>2, <2>3 DEF WorkerPut
<1> QED
  BY <1>6, <1>7, <1>8, <1>9

\* The bytes of a batch that is off the worker's hands are released.
LEMMA LogRelease ==
  ASSUME LogInv, NEW w \in Workers, WorkerRelease(w)
  PROVE  LogInv'
<1>1. PICK at, by : Placed(at, by) /\ Counted(at, wpc, task, tlsB, ingressB, queueB, sendB, inflightB, scratchB)
  BY DEF LogInv
<1>2. /\ UNCHANGED <<tlsB, ingressB, sendB, inflightB, scratchB>>
      /\ UNCHANGED <<tls, pc, req, task>>
      /\ UNCHANGED <<ingress, items, builder, sealed, sendq, inflight, next, answered, lost>>
      /\ wpc[w] = "release" /\ queueB' = Less(queueB, Size(task[w]))
      /\ wlist' = [wlist EXCEPT ![w] = Tail(@)] /\ wpc' = [wpc EXCEPT ![w] = "batches"]
  BY DEF WorkerRelease, sendSide, writerVars, queueVars, senderVars, historyVars
<1>3. WorkerHas(at, by, w, "release", wlist[w], task[w]) /\ Shaped
  BY <1>1, <1>2 DEF Placed, LogInv
<1>4. /\ wpc'[w] = "batches" /\ wlist'[w] = Tail(wlist[w]) /\ task'[w] = task[w] /\ OnlyWorkers({w})
  BY <1>2, <1>3 DEF Shaped, OnlyWorkers
<1>5. PICK s, s2, t : s = wlist[w] /\ s2 = Tail(s) /\ t = task[w]
  OBVIOUS
<1>6. /\ s \in Seq(SUBSET Logs) /\ Apart(Len(s), s) /\ s # <<>>
      /\ \A l \in Logs : at[l] = "list" /\ by[l] = w <=> \E i \in 1..Len(s) : l \in s[i] /\ i # 1
      /\ \A l \in Logs : ~(at[l] = "task" /\ by[l] = w)
      /\ t \in SUBSET Logs
  BY <1>3, <1>5 DEF WorkerHas, First, TaskPcs
<1>7. /\ s2 \in Seq(SUBSET Logs) /\ Len(s) \in Nat /\ Len(s2) = Len(s) - 1
      /\ \A i \in 1..Len(s2) : s2[i] = s[i + 1]
  BY <1>5, <1>6
<1>8. WorkerHas(at, by, w, "batches", s2, t)
  <2>1. Apart(Len(s2), s2)
    <3> SUFFICES ASSUME NEW i \in 1..Len(s2), NEW j \in 1..Len(s2), i # j
                 PROVE  s2[i] \cap s2[j] = {}
      BY DEF Apart
    <3>1. i + 1 \in 1..Len(s) /\ j + 1 \in 1..Len(s) /\ i + 1 # j + 1
      BY <1>7
    <3> QED
      BY <1>6, <1>7, <3>1 DEF Apart
  <2>2. ASSUME NEW l \in Logs
        PROVE  at[l] = "list" /\ by[l] = w <=> \E i \in 1..Len(s2) : l \in s2[i]
    <3>1. ASSUME NEW i \in 1..Len(s), i # 1, l \in s[i]
          PROVE  \E j \in 1..Len(s2) : l \in s2[j]
      <4>1. i - 1 \in 1..Len(s2) /\ (i - 1) + 1 = i
        BY <1>7, <3>1
      <4> QED
        BY <1>7, <3>1, <4>1
    <3>2. ASSUME NEW j \in 1..Len(s2), l \in s2[j]
          PROVE  \E i \in 1..Len(s) : l \in s[i] /\ i # 1
      <4>1. j + 1 \in 1..Len(s) /\ j + 1 # 1
        BY <1>7, <3>2
      <4> QED
        BY <1>7, <3>2, <4>1
    <3> QED
      BY <1>6, <3>1, <3>2
  <2> QED
    BY <1>6, <1>7, <2>1, <2>2 DEF WorkerHas, TaskPcs
<1>9. WorkerHas(at, by, w, wpc'[w], wlist'[w], task'[w])
  BY <1>4, <1>5, <1>8
<1>10. PICK q : q = "batches"
  OBVIOUS
<1>11. wpc[w] \in TaskPcs \cup {"release"} /\ q # wpc[w] /\ wpc' = [wpc EXCEPT ![w] = q] /\ task' = task
       /\ q \notin BytePcs
  BY <1>2, <1>10 DEF BytePcs
<1>12. ASSUME NEW r \in BytePcs
       PROVE  /\ Cardinality(task[w]) \in Nat /\ Cardinality(Carried(wpc', task', r)) \in Nat
              /\ r # "release" => Carried(wpc', task', r) = Carried(wpc, task, r)
              /\ r = "release" => Cardinality(Carried(wpc, task, r))
                                  = Cardinality(Carried(wpc', task', r)) + Cardinality(task[w])
  <2>1. r # q
    BY <1>11
  <2> QED
    BY <1>1, <1>2, <1>3, <1>11, <2>1, TaskTurn
<1>13. Packing(wpc') = Packing(wpc)
  BY <1>2, <1>3 DEF Packing, Shaped
<1>14. queueB' = Cardinality(Tagged(at, CountedTags)) + Cardinality(Carried(wpc', task', "release"))
  <2>1. "release" \in BytePcs
    BY DEF BytePcs
  <2>2. Cardinality(Tagged(at, CountedTags)) \in Nat
    BY TaggedSize
  <2>3. queueB = Cardinality(Tagged(at, CountedTags)) + Cardinality(Carried(wpc, task, "release"))
    BY <1>1 DEF Counted
  <2>4. /\ Cardinality(task[w]) \in Nat /\ Cardinality(Carried(wpc', task', "release")) \in Nat
        /\ Cardinality(Carried(wpc, task, "release"))
             = Cardinality(Carried(wpc', task', "release")) + Cardinality(task[w])
    BY <1>12, <2>1
  <2> QED
    BY <1>2, <2>2, <2>3, <2>4 DEF Less, Size
<1>15. Counted(at, wpc', task', tlsB', ingressB', queueB', sendB', inflightB', scratchB')
  <2>1. /\ Carried(wpc', task', "put") = Carried(wpc, task, "put")
        /\ Carried(wpc', task', "compress") = Carried(wpc, task, "compress")
    BY <1>12 DEF BytePcs
  <2> QED
    BY <1>1, <1>2, <1>13, <1>14, <2>1 DEF Counted
<1> QED
  BY <1>1, <1>2, <1>4, <1>9, <1>15, WorkerOnlyTurns

\* A log leaves the queues, and no other log moves.
Takes(at, at2, x) == at2[x] \notin QueueTags /\ \A l \in Logs : l # x => at2[l] = at[l]

\* A raw item leaves the queue.
LEMMA QueueTakes ==
  ASSUME NEW at, NEW q, NEW its, NEW bs, NEW s, QueuesHave(at, q, its, bs, s), its # <<>>,
         NEW x, x = Head(its), NEW at2, Takes(at, at2, x)
  PROVE  x \in Logs /\ at[x] = "item" /\ QueuesHave(at2, q, Tail(its), bs, s)
<1>1. /\ its \in Seq(Logs)
      /\ \A i, j \in 1..Len(its) : i # j => its[i] # its[j]
      /\ \A l \in Logs : at[l] = "item" <=> \E i \in 1..Len(its) : l = its[i]
  BY DEF QueuesHave
<1>2. PICK its2 : its2 = Tail(its)
  OBVIOUS
<1>3. /\ its2 \in Seq(Logs) /\ Len(its) \in Nat /\ Len(its2) = Len(its) - 1 /\ 1 \in 1..Len(its) /\ x = its[1]
      /\ \A i \in 1..Len(its2) : its2[i] = its[i + 1]
  BY <1>1, <1>2
<1>4. x \in Logs /\ at[x] = "item"
  BY <1>1, <1>3
<1>5. ASSUME NEW i \in 1..Len(its2), NEW j \in 1..Len(its2), i # j
      PROVE  its2[i] # its2[j]
  <2>1. i + 1 \in 1..Len(its) /\ j + 1 \in 1..Len(its) /\ i + 1 # j + 1
    BY <1>3, <1>5
  <2> QED
    BY <1>1, <1>3, <2>1
<1>6. ASSUME NEW l \in Logs
      PROVE  at2[l] = "item" <=> \E i \in 1..Len(its2) : l = its2[i]
  <2>1. ASSUME NEW i \in 1..Len(its), i # 1, l = its[i]
        PROVE  \E j \in 1..Len(its2) : l = its2[j]
    <3>1. i - 1 \in 1..Len(its2) /\ (i - 1) + 1 = i
      BY <1>3, <2>1
    <3> QED
      BY <1>3, <2>1, <3>1
  <2>2. ASSUME NEW j \in 1..Len(its2), l = its2[j]
        PROVE  l # x /\ \E i \in 1..Len(its) : l = its[i]
    <3>1. j + 1 \in 1..Len(its) /\ j + 1 # 1
      BY <1>3, <2>2
    <3> QED
      BY <1>1, <1>3, <2>2, <3>1
  <2>3. CASE l = x
    BY <2>2, <2>3 DEF QueueTags, Takes
  <2>4. CASE l # x
    BY <1>1, <1>3, <2>1, <2>2, <2>4 DEF Takes
  <2> QED
    BY <2>3, <2>4
<1>7. ASSUME NEW l \in Logs
      PROVE  /\ at2[l] = "ingress" <=> at[l] = "ingress"
             /\ at2[l] = "sealed" <=> at[l] = "sealed"
             /\ \A k \in {"default", "key"} : at2[l] = k <=> at[l] = k
  BY <1>4 DEF QueueTags, Takes
<1>8. QueuesHave(at2, q, its2, bs, s)
  BY <1>3, <1>5, <1>6, <1>7 DEF QueuesHave
<1> QED
  BY <1>2, <1>4, <1>8

\* A worker takes a raw item.
LEMMA LogItem ==
  ASSUME LogInv, NEW w \in Workers, WorkerItem(w)
  PROVE  LogInv'
<1>1. PICK at, by : Placed(at, by) /\ Counted(at, wpc, task, tlsB, ingressB, queueB, sendB, inflightB, scratchB)
  BY DEF LogInv
<1>2. PICK x, M, at2, by2 : /\ x = Head(items) /\ M = {x}
                            /\ at2 = Move(at, M, "task") /\ by2 = Move(by, M, w)
  OBVIOUS
<1>3. /\ UNCHANGED <<tlsB, ingressB, sendB, inflightB, scratchB>>
      /\ UNCHANGED <<tls, pc, req, wlist>>
      /\ UNCHANGED <<ingress, builder, sealed, sendq, inflight, next, answered, lost>>
      /\ wpc[w] = "items" /\ queueB' = queueB - 1 /\ items # <<>> /\ items' = Tail(items)
      /\ task' = [task EXCEPT ![w] = M] /\ wpc' = [wpc EXCEPT ![w] = "prepare"]
  BY <1>2 DEF WorkerItem, sendSide, writerVars, senderVars, historyVars
<1>4. /\ WorkerHas(at, by, w, "items", wlist[w], task[w]) /\ Shaped /\ at \in [Logs -> Tags]
      /\ QueuesHave(at, ingress, items, builder, sealed)
  BY <1>1, <1>3 DEF Placed, LogInv
<1>5. items \in Seq(Logs) /\ x \in Logs
  BY <1>2, <1>3, <1>4 DEF QueuesHave
<1>6. \A l \in Logs : at2[l] = (IF l = x THEN "task" ELSE at[l]) /\ by2[l] = (IF l = x THEN w ELSE by[l])
  BY <1>2 DEF Move
<1>7. at[x] = "item" /\ QueuesHave(at2, ingress', items', builder', sealed')
  <2>1. Takes(at, at2, x)
    BY <1>5, <1>6 DEF QueueTags, Takes
  <2> QED
    BY <1>2, <1>3, <1>4, <2>1, QueueTakes
<1>8. /\ wpc'[w] = "prepare" /\ task'[w] = M /\ OnlyWorkers({w}) /\ \A v \in Workers \ {w} : task'[v] = task[v]
  BY <1>3, <1>4 DEF Shaped, OnlyWorkers
<1>9. PICK s : s = wlist[w]
  OBVIOUS
<1>10. /\ s \in Seq(SUBSET Logs) /\ Apart(Len(s), s)
       /\ \A l \in Logs : at[l] = "list" /\ by[l] = w <=> \E i \in 1..Len(s) : l \in s[i]
       /\ \A l \in Logs : ~(at[l] = "task" /\ by[l] = w)
  BY <1>4, <1>9 DEF WorkerHas, TaskPcs
<1>11. ~First(s, M)
  <2> SUFFICES ASSUME First(s, M)
               PROVE  FALSE
    OBVIOUS
  <2>1. 1 \in 1..Len(s) /\ x \in s[1]
    BY <1>2, <1>10 DEF First
  <2> QED
    BY <1>5, <1>7, <1>10, <2>1
<1>12. WorkerHas(at2, by2, w, "prepare", s, M)
  <2>1. M \in SUBSET Logs
    BY <1>2, <1>5
  <2>2. \A l \in Logs : at2[l] = "list" /\ by2[l] = w <=> \E i \in 1..Len(s) : l \in s[i]
    BY <1>6, <1>7, <1>10
  <2>3. \A l \in Logs : at2[l] = "task" /\ by2[l] = w <=> l \in M
    BY <1>2, <1>6, <1>10
  <2> QED
    BY <1>10, <1>11, <2>1, <2>2, <2>3 DEF WorkerHas, TaskPcs
<1>13. PICK Y : Y = {w}
  OBVIOUS
<1>14. /\ Y \in SUBSET Workers /\ OnlyWorkers(Y)
       /\ \A v \in Y : WorkerHas(at2, by2, v, wpc'[v], wlist'[v], task'[v])
  BY <1>3, <1>8, <1>9, <1>12, <1>13
<1>15. Frame(at, by, at2, by2, {}, Y)
  BY <1>6, <1>7, <1>13 DEF Frame, WriterTags, WorkerTags, SenderTags
<1>16. at2 \in [Logs -> Tags]
  BY <1>2, <1>4 DEF Move, Tags, WorkerTags
<1>17. SendersHave(at2, sendq', inflight')
  <2>1. \A l \in Logs, g \in SenderTags : at[l] = g <=> at2[l] = g
    BY <1>6, <1>7 DEF SenderTags
  <2> QED
    BY <1>1, <1>3, <2>1, SendersKeep DEF Placed
<1>18. HistoryHas(at2, next', answered', lost')
  <2>1. \A l \in Logs : /\ at[l] = "new" <=> at2[l] = "new"
                        /\ at2[l] = "done" => at[l] = "done" \/ l \in answered' \cup lost'
    BY <1>6, <1>7
  <2> QED
    BY <1>1, <1>3, <2>1, HistoryKeeps DEF Placed
<1>19. Counted(at2, wpc', task', tlsB', ingressB', queueB', sendB', inflightB', scratchB')
  <2>1. PICK q, p, t : q = "prepare" /\ p = "item" /\ t = "task"
    OBVIOUS
  <2>2. wpc[w] \notin BytePcs /\ q \notin BytePcs /\ wpc' = [wpc EXCEPT ![w] = q]
    BY <1>3, <2>1 DEF BytePcs
  <2>3. Counted(at, wpc', task', tlsB, ingressB, queueB, sendB, inflightB, scratchB)
    BY <1>1, <1>4, <1>8, <2>2, CountedIdle
  <2>4. Moves(at, by, at2, by2, M, p, t)
    BY <1>2, <1>5, <1>6, <1>7, <2>1 DEF Moves, Tags, QueueTags, WorkerTags
  <2>5. /\ \A T : (p \in T <=> t \in T) => Tagged(at2, T) = Tagged(at, T)
        /\ \A T : p \in T /\ t \notin T =>
             Cardinality(Tagged(at, T)) = Cardinality(Tagged(at2, T)) + Cardinality(M)
    BY <2>4, MoveCounts
  <2>6. Cardinality(M) = 1
    BY <1>2, FS_Singleton
  <2>7. Cardinality(Tagged(at, CountedTags)) = Cardinality(Tagged(at2, CountedTags)) + 1
        /\ Cardinality(Tagged(at2, CountedTags)) \in Nat
    <3>1. p \in CountedTags /\ t \notin CountedTags
      BY <2>1 DEF CountedTags
    <3> QED
      BY <2>5, <2>6, <3>1, TaggedSize
  <2>8. queueB' = Cardinality(Tagged(at2, CountedTags)) + Cardinality(Carried(wpc', task', "release"))
    <3>1. queueB = Cardinality(Tagged(at, CountedTags)) + Cardinality(Carried(wpc', task', "release"))
      BY <2>3 DEF Counted
    <3>2. PICK ps, ts : ps = wpc' /\ ts = task'
      OBVIOUS
    <3>3. Cardinality(Carried(ps, ts, "release")) \in Nat
      BY CarriedSize
    <3> QED
      BY <1>3, <2>7, <3>1, <3>2, <3>3
  <2> QED
    BY <1>3, <2>1, <2>3, <2>5, <2>8 DEF Counted
<1> QED
  BY <1>1, <1>7, <1>14, <1>15, <1>16, <1>17, <1>18, <1>19, WorkerStepKeeps

-----------------------------------------------------------------------------
(* A round of a worker: merge, seal, take.                                 *)

\* Logs go from the builders to the sealed list.
Sealing(at, at2) ==
  \A l \in Logs : at2[l] = at[l] \/ (at[l] \in {"default", "key"} /\ at2[l] = "sealed")

\* The builders without one that is sealed.
Unsealed(bs, bs2, k, which) ==
  /\ k \in which => bs2[k] = {}
  /\ k \notin which => bs2[k] = bs[k]
  /\ \A j \in {"default", "key"} : j # k => bs2[j] = bs[j]

\* A builder is sealed if it has a log and its time has come.
LEMMA QueueSeals ==
  ASSUME NEW at, NEW q, NEW its, NEW bs, NEW s, QueuesHave(at, q, its, bs, s),
         NEW k \in {"default", "key"}, NEW which
  PROVE  \E at2, bs2 : /\ QueuesHave(at2, q, its, bs2, Seal(k, which, bs, s))
                       /\ Unsealed(bs, bs2, k, which) /\ Sealing(at, at2)
<1>1. /\ bs \in [{"default", "key"} -> SUBSET Logs]
      /\ \A l \in Logs : at[l] = k <=> l \in bs[k]
  BY DEF QueuesHave
<1>2. CASE k \in which /\ bs[k] # {}
  <2>1. PICK at2, bs2 : at2 = Move(at, bs[k], "sealed") /\ bs2 = [bs EXCEPT ![k] = {}]
    OBVIOUS
  <2>2. QueuesHave(at2, q, its, bs2, Append(s, bs[k]))
    BY <2>1, QueueSeal
  <2>3. Seal(k, which, bs, s) = Append(s, bs[k])
    BY <1>2 DEF Seal
  <2>4. Unsealed(bs, bs2, k, which)
    BY <1>1, <1>2, <2>1 DEF Unsealed
  <2>5. Sealing(at, at2)
    BY <1>1, <2>1 DEF Sealing, Move
  <2> QED
    BY <2>2, <2>3, <2>4, <2>5
<1>3. CASE ~(k \in which /\ bs[k] # {})
  <2>1. Seal(k, which, bs, s) = s
    BY <1>3 DEF Seal
  <2>2. Unsealed(bs, bs, k, which) /\ Sealing(at, at)
    BY <1>3 DEF Unsealed, Sealing
  <2> QED
    BY <2>1, <2>2
<1> QED
  BY <1>2, <1>3

\* The logs of the sealed list are a worker's.
Seizes(at, by, at2, by2, w) ==
  \A l \in Logs : /\ at[l] = "sealed" => at2[l] = "list" /\ by2[l] = w
                  /\ at[l] # "sealed" => at2[l] = at[l] /\ by2[l] = by[l]

\* A worker takes the sealed list.
LEMMA QueueSeized ==
  ASSUME NEW at, NEW by, NEW at2, NEW by2, NEW w, NEW q, NEW its, NEW bs, NEW s,
         QueuesHave(at, q, its, bs, s), Seizes(at, by, at2, by2, w)
  PROVE  QueuesHave(at2, q, its, bs, <<>>)
<1>1. \A l \in Logs, g \in {"ingress", "item", "default", "key"} : at2[l] = g <=> at[l] = g
  BY DEF Seizes
<1>2. <<>> \in Seq(SUBSET Logs) /\ Apart(Len(<<>>), <<>>) /\ \A l \in Logs : ~Within(l, Len(<<>>), <<>>)
  BY DEF Apart, Within
<1>3. \A l \in Logs : at2[l] # "sealed"
  BY DEF Seizes
<1>4. PICK e : e = <<>>
  OBVIOUS
<1>5. QueuesHave(at2, q, its, bs, e)
  <2>1. e \in Seq(SUBSET Logs) /\ Apart(Len(e), e) /\ \A l \in Logs : ~Within(l, Len(e), e)
    BY <1>2, <1>4
  <2>2. \A l \in Logs : /\ at2[l] = "ingress" <=> at[l] = "ingress"
                        /\ at2[l] = "item" <=> at[l] = "item"
                        /\ \A k \in {"default", "key"} : at2[l] = k <=> at[l] = k
    BY <1>1
  <2> QED
    BY <1>3, <2>1, <2>2 DEF QueuesHave
<1> QED
  BY <1>4, <1>5

\* A worker has no log.
Without(at, by, w) == \A l \in Logs : at[l] \in WorkerTags => by[l] # w

\* What a worker that had no list has then.
LEMMA WorkerSeized ==
  ASSUME NEW at, NEW by, NEW at2, NEW by2, NEW w, NEW q, NEW its, NEW bs, NEW s,
         QueuesHave(at, q, its, bs, s), Seizes(at, by, at2, by2, w), NEW t \in SUBSET Logs,
         Without(at, by, w)
  PROVE  WorkerHas(at2, by2, w, "items", s, t)
<1>1. /\ s \in Seq(SUBSET Logs) /\ Apart(Len(s), s)
      /\ \A l \in Logs : at[l] = "sealed" <=> Within(l, Len(s), s)
  BY DEF QueuesHave
<1>2. \A l \in Logs : at2[l] = "list" /\ by2[l] = w <=> \E i \in 1..Len(s) : l \in s[i]
  BY <1>1 DEF Seizes, Within, WorkerTags, Without
<1>3. \A l \in Logs : ~(at2[l] = "task" /\ by2[l] = w)
  BY DEF Seizes, WorkerTags, Without
<1> QED
  BY <1>1, <1>2, <1>3 DEF WorkerHas, TaskPcs

\* Where the logs are after a round, with those of F answered.
Rounds(at, by, at2, by2, F, w) ==
  \A l \in Logs :
    \/ l \in F /\ at[l] = "ingress" /\ at2[l] = "done"
    \/ /\ l \notin F /\ at[l] \in {"ingress", "default", "key", "sealed"}
       /\ at2[l] \in {"default", "key", "list"} /\ (at2[l] = "list" => by2[l] = w)
    \/ /\ l \notin F /\ at[l] \notin {"ingress", "default", "key", "sealed"}
       /\ at2[l] = at[l] /\ by2[l] = by[l]

\* What a round makes of the builders and of the sealed list: the builders of
\* which are sealed.
RoundMakes(failed, m, built, which, bs, s) ==
  /\ m = Merge(Unmerged, failed)
  /\ built = [builder EXCEPT !["default"] = m.b]
  /\ bs = [k \in DOMAIN built |-> IF k \in which THEN {} ELSE built[k]]
  /\ s = Seal("key", which, built, Seal("default", which, built, m.s))

\* The queues, the builders and the worker after a round.
LEMMA RoundHas ==
  ASSUME NEW at, NEW by, NEW w, QueuesHave(at, ingress, items, builder, sealed),
         NEW failed, failed \subseteq 1..Len(ingress),
         NEW m, NEW built, NEW which, NEW bs, NEW s, RoundMakes(failed, m, built, which, bs, s),
         NEW t \in SUBSET Logs, Without(at, by, w)
  PROVE  \E at2, by2 : /\ QueuesHave(at2, <<>>, items, bs, <<>>) /\ at2 = [l \in Logs |-> at2[l]]
                       /\ WorkerHas(at2, by2, w, "items", s, t)
                       /\ Rounds(at, by, at2, by2, Unkept(failed), w)
<1>0. /\ m = Merge(Unmerged, failed)
      /\ built = [builder EXCEPT !["default"] = m.b]
      /\ bs = [k \in DOMAIN built |-> IF k \in which THEN {} ELSE built[k]]
      /\ s = Seal("key", which, built, Seal("default", which, built, m.s))
  BY DEF RoundMakes
<1>1. PICK M, F, acc, at0 : M = {} /\ F = Unkept(failed) /\ acc = Unmerged /\ at0 = MergedAt(at, F, m)
  OBVIOUS
<1>2. Outside(at, M) /\ Queued(at, F) /\ Ended(at, M, F, m)
  <2>1. Outside(at, M)
    BY <1>1 DEF Outside
  <2>2. Begun(at, M, acc)
    BY <1>1, UnmergedHas DEF Begun
  <2>3. m = Merge(acc, failed)
    BY <1>0, <1>1
  <2> QED
    BY <1>1, <2>1, <2>2, <2>3, MergeAll
<1>3. QueuesHave(at0, <<>>, items, built, m.s) /\ Merges(at, M, F, at0)
  BY <1>0, <1>1, <1>2, QueueMerge
<1>4. PICK e, k1, k2 : e = <<>> /\ k1 = "default" /\ k2 = "key"
  OBVIOUS
<1>5. PICK at1, bs1 : /\ QueuesHave(at1, e, items, bs1, Seal(k1, which, built, m.s))
                      /\ Unsealed(built, bs1, k1, which) /\ Sealing(at0, at1)
  BY <1>3, <1>4, QueueSeals
<1>6. PICK at3, bs3 : /\ QueuesHave(at3, e, items, bs3, Seal(k2, which, bs1, Seal(k1, which, built, m.s)))
                      /\ Unsealed(bs1, bs3, k2, which) /\ Sealing(at1, at3)
  BY <1>4, <1>5, QueueSeals
<1>7. Seal(k2, which, bs1, Seal(k1, which, built, m.s)) = s
  <2>1. bs1["key"] = built["key"]
    BY <1>4, <1>5 DEF Unsealed
  <2> QED
    BY <1>0, <1>4, <2>1 DEF Seal
<1>8. bs3 = bs
  <2>1. /\ bs3 \in [{"default", "key"} -> SUBSET Logs]
        /\ built \in [{"default", "key"} -> SUBSET Logs]
    BY <1>3, <1>6 DEF QueuesHave
  <2>2. DOMAIN bs = {"default", "key"} /\ \A k \in {"default", "key"} : bs[k] = IF k \in which THEN {} ELSE built[k]
    BY <1>0, <2>1
  <2>3. \A k \in {"default", "key"} : bs3[k] = bs[k]
    BY <1>4, <1>5, <1>6, <2>2 DEF Unsealed
  <2> QED
    BY <1>0, <2>1, <2>2, <2>3
<1>9. QueuesHave(at3, e, items, bs, s)
  BY <1>6, <1>7, <1>8
<1>10. PICK at2, by2 : /\ at2 = [l \in Logs |-> IF at3[l] = "sealed" THEN "list" ELSE at3[l]]
                       /\ by2 = [l \in Logs |-> IF at3[l] = "sealed" THEN w ELSE by[l]]
  OBVIOUS
<1>11. Seizes(at3, by, at2, by2, w)
  BY <1>10 DEF Seizes
<1>12. ASSUME NEW l \in Logs
       PROVE  /\ l \in F => at3[l] = "done" /\ at[l] = "ingress"
              /\ l \notin F /\ at[l] \in {"default", "sealed", "ingress"} => at3[l] \in {"default", "sealed"}
              /\ l \notin F /\ at[l] = "key" => at3[l] \in {"key", "sealed"}
              /\ l \notin F /\ at[l] \notin {"default", "key", "sealed", "ingress"} => at3[l] = at[l]
  <2>1. l \in F => at[l] = "ingress"
    BY <1>2 DEF Queued
  <2>2. /\ l \in F => at0[l] = "done"
        /\ l \notin F /\ at[l] \in {"default", "sealed", "ingress"} => at0[l] \in {"default", "sealed"}
        /\ at[l] \notin {"default", "sealed", "ingress"} => at0[l] = at[l]
    BY <1>1, <1>3 DEF Merges
  <2>3. at3[l] = at0[l] \/ (at0[l] \in {"default", "key"} /\ at3[l] = "sealed")
    BY <1>5, <1>6 DEF Sealing
  <2> QED
    BY <2>1, <2>2, <2>3
<1>13. Without(at3, by, w)
  BY <1>12 DEF Without, WorkerTags
<1>14. QueuesHave(at2, e, items, bs, <<>>) /\ at2 = [l \in Logs |-> at2[l]]
  BY <1>9, <1>10, <1>11, QueueSeized
<1>15. WorkerHas(at2, by2, w, "items", s, t)
  BY <1>9, <1>11, <1>13, WorkerSeized
<1>16. Rounds(at, by, at2, by2, F, w)
  <2> SUFFICES ASSUME NEW l \in Logs
               PROVE  \/ l \in F /\ at[l] = "ingress" /\ at2[l] = "done"
                      \/ /\ l \notin F /\ at[l] \in {"ingress", "default", "key", "sealed"}
                         /\ at2[l] \in {"default", "key", "list"} /\ (at2[l] = "list" => by2[l] = w)
                      \/ /\ l \notin F /\ at[l] \notin {"ingress", "default", "key", "sealed"}
                         /\ at2[l] = at[l] /\ by2[l] = by[l]
    BY DEF Rounds
  <2>1. /\ at3[l] = "sealed" => at2[l] = "list" /\ by2[l] = w
        /\ at3[l] # "sealed" => at2[l] = at3[l] /\ by2[l] = by[l]
    BY <1>11 DEF Seizes
  <2> QED
    BY <1>12, <2>1
<1> QED
  BY <1>1, <1>4, <1>14, <1>15, <1>16

\* The batches of the ingress queue that a round keeps.
Kept(at, F) == {l \in Logs : at[l] = "ingress" /\ l \notin F}

\* The counts after a round.
LEMMA RoundCounts ==
  ASSUME NEW at, NEW by, NEW at2, NEW by2, NEW F, NEW w, Rounds(at, by, at2, by2, F, w)
  PROVE  /\ Kept(at, F) \in SUBSET Logs
         /\ Cardinality(Tagged(at2, CountedTags)) = Cardinality(Tagged(at, CountedTags)) + Cardinality(Kept(at, F))
         /\ Tagged(at2, {"ingress"}) = {}
         /\ Tagged(at2, {"tls", "append"}) = Tagged(at, {"tls", "append"})
         /\ Tagged(at2, {"sendq"}) = Tagged(at, {"sendq"})
         /\ Tagged(at2, {"inflight"}) = Tagged(at, {"inflight"})
<1>1. PICK old, new, K : old = Tagged(at, CountedTags) /\ new = Tagged(at2, CountedTags) /\ K = Kept(at, F)
  OBVIOUS
<1>2. old \in SUBSET Logs /\ new \in SUBSET Logs /\ K \in SUBSET Logs
  BY <1>1 DEF Tagged, Kept
<1>3. ASSUME NEW l \in Logs
      PROVE  (l \in new <=> l \in old \/ l \in K) /\ ~(l \in old /\ l \in K)
  <2>1. /\ l \in old <=> at[l] \in CountedTags
        /\ l \in new <=> at2[l] \in CountedTags
        /\ l \in K <=> at[l] = "ingress" /\ l \notin F
    BY <1>1 DEF Tagged, Kept
  <2> QED
    BY <2>1 DEF Rounds, CountedTags
<1>4. new = old \cup K /\ old \cap K = {}
  BY <1>2, <1>3
<1>5. Cardinality(new) = Cardinality(old) + Cardinality(K)
  BY <1>2, <1>4, SizeSplit
<1>6. \A l \in Logs : at2[l] # "ingress" /\ \A g \in {"tls", "append", "sendq", "inflight"} : at2[l] = g <=> at[l] = g
  BY DEF Rounds
<1>7. /\ Tagged(at2, {"ingress"}) = {}
      /\ Tagged(at2, {"tls", "append"}) = Tagged(at, {"tls", "append"})
      /\ Tagged(at2, {"sendq"}) = Tagged(at, {"sendq"})
      /\ Tagged(at2, {"inflight"}) = Tagged(at, {"inflight"})
  BY <1>6 DEF Tagged
<1> QED
  BY <1>1, <1>2, <1>5, <1>7

\* One critical section of a worker.
LEMMA LogRound ==
  ASSUME LogInv, NEW w \in Workers, WorkerRound(w)
  PROVE  LogInv'
<1>1. PICK at, by : Placed(at, by) /\ Counted(at, wpc, task, tlsB, ingressB, queueB, sendB, inflightB, scratchB)
  BY DEF LogInv
<1>2. /\ WorkerHas(at, by, w, wpc[w], wlist[w], task[w]) /\ Shaped /\ at \in [Logs -> Tags]
      /\ QueuesHave(at, ingress, items, builder, sealed)
  BY <1>1 DEF Placed, LogInv
<1>3. DOMAIN ingress = 1..Len(ingress) /\ Len(ingress) \in Nat /\ AllSize = Cardinality(Tagged(at, {"ingress"}))
  BY <1>2, AllSizeIs
<1>4. /\ wpc[w] \in {"loop", "timed"} /\ wpc' = [wpc EXCEPT ![w] = "items"]
      /\ ingress' = <<>> /\ sealed' = <<>>
      /\ UNCHANGED <<tlsB, sendB, inflightB, scratchB, tls, pc, req, items, task, sendq, inflight, next, lost>>
  BY DEF WorkerRound, sendSide, writerVars, senderVars
<1>5. PICK failed, m, built, which, bs, s :
        /\ failed \in SUBSET (IF KeyLimit THEN DOMAIN ingress ELSE {})
        /\ RoundMakes(failed, m, built, which, bs, s)
        /\ builder' = bs /\ wlist' = [wlist EXCEPT ![w] = s]
        /\ ingressB' = Less(ingressB, AllSize)
        /\ queueB' = queueB + IngressSizes(DOMAIN ingress \ failed)
        /\ answered' = answered \cup UNION {ingress[i].logs : i \in failed}
  <2> DEFINE Made(failed) == Merge(Unmerged, failed)
             Built(failed) == [builder EXCEPT !["default"] = Made(failed).b]
             Which(failed) == IF flush \/ Stopped \/ Made(failed).s # sealed THEN DOMAIN Built(failed) ELSE due
             Bs(failed) == [k \in DOMAIN Built(failed) |-> IF k \in Which(failed) THEN {} ELSE Built(failed)[k]]
             Ss(failed) == Seal("key", Which(failed), Built(failed),
                                Seal("default", Which(failed), Built(failed), Made(failed).s))
  <2>1. PICK failed \in SUBSET (IF KeyLimit THEN DOMAIN ingress ELSE {}) :
          /\ builder' = Bs(failed) /\ wlist' = [wlist EXCEPT ![w] = Ss(failed)]
          /\ ingressB' = Less(ingressB, AllSize)
          /\ queueB' = queueB + IngressSizes(DOMAIN ingress \ failed)
          /\ answered' = answered \cup UNION {ingress[i].logs : i \in failed}
    BY Zenon DEF WorkerRound
  <2>2. RoundMakes(failed, Made(failed), Built(failed), Which(failed), Bs(failed), Ss(failed))
    BY DEF RoundMakes
  <2> HIDE DEF Made, Built, Which, Bs, Ss
  <2> QED
    BY <2>1, <2>2
<1>6. failed \subseteq 1..Len(ingress)
  BY <1>3, <1>5
<1>7. PICK F, K : F = Unkept(failed) /\ K = Kept(at, F)
  OBVIOUS
<1>8. /\ Without(at, by, w)
      /\ task[w] \in SUBSET Logs
  <2>1. wlist[w] = <<>> /\ wpc[w] \notin TaskPcs /\ 1..Len(wlist[w]) = {}
    BY <1>2, <1>4 DEF WorkerHas, TaskPcs
  <2> QED
    BY <1>2, <2>1 DEF WorkerHas, WorkerTags, Without
<1>9. PICK at2, by2 : /\ QueuesHave(at2, <<>>, items, bs, <<>>) /\ at2 = [l \in Logs |-> at2[l]]
                      /\ WorkerHas(at2, by2, w, "items", s, task[w])
                      /\ Rounds(at, by, at2, by2, F, w)
  BY <1>2, <1>5, <1>6, <1>7, <1>8, RoundHas
<1>10. QueuesHave(at2, ingress', items', builder', sealed')
  BY <1>4, <1>5, <1>9
<1>11. wpc'[w] = "items" /\ wlist'[w] = s /\ task'[w] = task[w] /\ OnlyWorkers({w})
  BY <1>2, <1>4, <1>5 DEF Shaped, OnlyWorkers
<1>12. PICK Y : Y = {w}
  OBVIOUS
<1>13. /\ Y \in SUBSET Workers /\ OnlyWorkers(Y)
       /\ \A v \in Y : WorkerHas(at2, by2, v, wpc'[v], wlist'[v], task'[v])
  BY <1>9, <1>11, <1>12
<1>14. Frame(at, by, at2, by2, {}, Y)
  BY <1>9, <1>12 DEF Rounds, Frame, WriterTags, WorkerTags, SenderTags
<1>15. SendersHave(at2, sendq', inflight')
  <2>1. \A l \in Logs, g \in SenderTags : at[l] = g <=> at2[l] = g
    BY <1>9 DEF Rounds, SenderTags
  <2> QED
    BY <1>1, <1>4, <2>1, SendersKeep DEF Placed
<1>16. HistoryHas(at2, next', answered', lost')
  <2>1. F \subseteq answered' /\ answered \subseteq answered'
    BY <1>5, <1>7 DEF Unkept
  <2>2. \A l \in Logs : /\ at[l] = "new" <=> at2[l] = "new"
                        /\ at2[l] = "done" => at[l] = "done" \/ l \in answered' \cup lost'
    BY <1>9, <2>1 DEF Rounds
  <2> QED
    BY <1>1, <1>4, <2>1, <2>2, HistoryKeeps DEF Placed
<1>17. /\ K \in SUBSET Logs
       /\ Cardinality(Tagged(at2, CountedTags)) = Cardinality(Tagged(at, CountedTags)) + Cardinality(K)
       /\ Tagged(at2, {"ingress"}) = {}
       /\ Tagged(at2, {"tls", "append"}) = Tagged(at, {"tls", "append"})
       /\ Tagged(at2, {"sendq"}) = Tagged(at, {"sendq"})
       /\ Tagged(at2, {"inflight"}) = Tagged(at, {"inflight"})
  BY <1>7, <1>9, RoundCounts
<1>18. IngressSizes(DOMAIN ingress \ failed) = Cardinality(K)
  <2>1. PICK S : S = DOMAIN ingress \ failed
    OBVIOUS
  <2>2. S \subseteq 1..Len(ingress)
    BY <1>3, <2>1
  <2>3. IngressSizes(S) = Cardinality({l \in Logs : \E i \in S : l \in ingress[i].logs})
    BY <1>2, <2>2, IngressSizesOf
  <2>4. ASSUME NEW l \in Logs
        PROVE  (\E i \in S : l \in ingress[i].logs) <=> at[l] = "ingress" /\ l \notin F
    BY <1>2, <1>3, <1>6, <1>7, <2>1 DEF QueuesHave, Unkept
  <2>5. {l \in Logs : \E i \in S : l \in ingress[i].logs} = K
    BY <1>7, <2>4 DEF Kept
  <2> QED
    BY <2>1, <2>3, <2>5
<1>19. Counted(at, wpc', task', tlsB, ingressB, queueB, sendB, inflightB, scratchB)
  <2>1. PICK q : q = "items"
    OBVIOUS
  <2>2. wpc[w] \notin BytePcs /\ q \notin BytePcs /\ wpc' = [wpc EXCEPT ![w] = q]
        /\ \A v \in Workers \ {w} : task'[v] = task[v]
    BY <1>4, <2>1 DEF BytePcs
  <2> QED
    BY <1>1, <1>2, <2>2, CountedIdle
<1>20. ingressB' = Cardinality(Tagged(at2, {"ingress"}))
  <2>1. ingressB = AllSize /\ AllSize \in Nat
    BY <1>1, <1>3, TaggedSize DEF Counted
  <2>2. ingressB' = 0
    BY <1>5, <2>1 DEF Less
  <2> QED
    BY <1>17, <2>2, FS_EmptySet
<1>21. queueB' = Cardinality(Tagged(at2, CountedTags)) + Cardinality(Carried(wpc', task', "release"))
  <2>1. queueB = Cardinality(Tagged(at, CountedTags)) + Cardinality(Carried(wpc', task', "release"))
    BY <1>19 DEF Counted
  <2>2. PICK ps, ts : ps = wpc' /\ ts = task'
    OBVIOUS
  <2>3. Cardinality(Carried(ps, ts, "release")) \in Nat /\ Cardinality(Tagged(at, CountedTags)) \in Nat
    BY CarriedSize, TaggedSize
  <2>4. Cardinality(K) \in Nat
    BY <1>17, LogsFinite
  <2> QED
    BY <1>5, <1>17, <1>18, <2>1, <2>2, <2>3, <2>4
<1>22. Counted(at2, wpc', task', tlsB', ingressB', queueB', sendB', inflightB', scratchB')
  BY <1>4, <1>17, <1>19, <1>20, <1>21 DEF Counted
<1>23. \A l \in Logs : at2[l] \in Tags
  BY <1>2, <1>9 DEF Rounds, Tags, QueueTags, WorkerTags
<1>24. at2 \in [Logs -> Tags]
  BY <1>9, <1>23
<1> QED
  BY <1>1, <1>10, <1>13, <1>14, <1>15, <1>16, <1>22, <1>24, WorkerStepKeeps

\* A task leaves a place of the senders.
LEMMA TaskLeaves ==
  ASSUME NEW q, q \subseteq SUBSET Logs, \A b, c \in q : b # c => b \cap c = {}, NEW x \in q
  PROVE  \A l \in Logs : l \in UNION (q \ {x}) <=> l \in UNION q /\ l \notin x
OBVIOUS

\* No worker has moved.
LEMMA SenderStepKeeps ==
  ASSUME NEW at, NEW by, Placed(at, by), Shaped, NEW at2, NEW M, NEW p \in SenderTags, NEW t \in {"inflight", "done"},
         Moves(at, by, at2, by, M, p, t), M \subseteq answered' \/ t # "done", answered \subseteq answered',
         SendersHave(at2, sendq', inflight'),
         Counted(at2, wpc, task, tlsB, ingressB, queueB, sendB', inflightB', scratchB),
         UNCHANGED <<tlsB, ingressB, queueB, scratchB, tls, pc, req, ingress, items, builder, sealed,
                     wpc, wlist, task, next, lost>>
  PROVE  LogInv'
<1>1. /\ M \in SUBSET Logs /\ \A l \in M : at[l] = p
      /\ \A l \in Logs : at2[l] = IF l \in M THEN t ELSE at[l]
      /\ at \in [Logs -> Tags] /\ at2 = Move(at, M, t)
  BY DEF Moves, Move, Placed
<1>2. at2 \in [Logs -> Tags]
  BY <1>1 DEF Move, Tags, SenderTags
<1>3. PICK Y : Y = {}
  OBVIOUS
<1>4. /\ Y \in SUBSET Workers /\ OnlyWorkers(Y)
      /\ \A v \in Y : WorkerHas(at2, by, v, wpc'[v], wlist'[v], task'[v])
  BY <1>3 DEF OnlyWorkers, Shaped
<1>5. Frame(at, by, at2, by, {}, Y)
  BY <1>1 DEF Frame, WriterTags, WorkerTags, SenderTags
<1>6. QueuesHave(at2, ingress', items', builder', sealed')
  <2>1. \A l \in Logs, g \in QueueTags : at[l] = g <=> at2[l] = g
    BY <1>1 DEF QueueTags, SenderTags
  <2> QED
    BY <2>1, QueuesKeep DEF Placed
<1>7. HistoryHas(at2, next', answered', lost')
  <2>1. \A l \in Logs : /\ at[l] = "new" <=> at2[l] = "new"
                        /\ at2[l] = "done" => at[l] = "done" \/ l \in answered' \cup lost'
    BY <1>1 DEF SenderTags
  <2> QED
    BY <2>1, HistoryKeeps DEF Placed
<1>8. Counted(at2, wpc', task', tlsB', ingressB', queueB', sendB', inflightB', scratchB')
  OBVIOUS
<1> QED
  BY <1>2, <1>4, <1>5, <1>6, <1>7, <1>8, WorkerStepKeeps

\* A sender takes a task.
LEMMA LogTake ==
  ASSUME LogInv, NEW b, SenderTake(b)
  PROVE  LogInv'
<1>1. PICK at, by : Placed(at, by) /\ Counted(at, wpc, task, tlsB, ingressB, queueB, sendB, inflightB, scratchB)
  BY DEF LogInv
<1>2. /\ b \in sendq /\ sendq' = sendq \ {b} /\ inflight' = inflight \cup {b}
      /\ sendB' = Less(sendB, Size(b)) /\ inflightB' = inflightB + Size(b)
      /\ UNCHANGED <<tlsB, ingressB, queueB, scratchB, tls, pc, req, ingress, items, builder, sealed,
                     wpc, wlist, task, next, answered, lost>>
  BY DEF SenderTake, ingressSide, writerVars, queueVars, workerVars, historyVars
<1>3. SendersHave(at, sendq, inflight) /\ Shaped
  BY <1>1 DEF Placed, LogInv
<1>4. /\ b \in SUBSET Logs /\ \A l \in b : at[l] = "sendq"
      /\ sendq \subseteq SUBSET Logs /\ inflight \subseteq SUBSET Logs
      /\ \A c, d \in sendq : c # d => c \cap d = {}
      /\ \A c, d \in inflight : c # d => c \cap d = {}
      /\ \A l \in Logs : at[l] = "sendq" <=> l \in UNION sendq
      /\ \A l \in Logs : at[l] = "inflight" <=> l \in UNION inflight
  BY <1>2, <1>3 DEF SendersHave
<1>5. PICK p, t, at2 : p = "sendq" /\ t = "inflight" /\ at2 = Move(at, b, t)
  OBVIOUS
<1>6. Moves(at, by, at2, by, b, p, t)
  BY <1>4, <1>5 DEF Moves, Tags, SenderTags
<1>7. \A l \in Logs : at2[l] = IF l \in b THEN "inflight" ELSE at[l]
  BY <1>5 DEF Move
<1>8. SendersHave(at2, sendq', inflight')
  <2>1. \A l \in Logs : l \in UNION (sendq \ {b}) <=> l \in UNION sendq /\ l \notin b
    BY <1>2, <1>4, TaskLeaves
  <2>2. \A l \in Logs : at2[l] = "sendq" <=> l \in UNION (sendq \ {b})
    BY <1>4, <1>7, <2>1
  <2>3. \A l \in Logs : at2[l] = "inflight" <=> l \in UNION (inflight \cup {b})
    BY <1>4, <1>7
  <2>4. \A c \in inflight : c \cap b = {}
    BY <1>4
  <2>5. \A c, d \in inflight \cup {b} : c # d => c \cap d = {}
    BY <1>4, <2>4
  <2>6. \A c, d \in sendq \ {b} : c # d => c \cap d = {}
    BY <1>4
  <2>7. PICK q2, f2 : q2 = sendq \ {b} /\ f2 = inflight \cup {b}
    OBVIOUS
  <2>8. SendersHave(at2, q2, f2)
    <3>1. q2 \subseteq SUBSET Logs /\ f2 \subseteq SUBSET Logs
      BY <1>4, <2>7
    <3> QED
      BY <2>2, <2>3, <2>5, <2>6, <2>7, <3>1 DEF SendersHave
  <2> QED
    BY <1>2, <2>7, <2>8
<1>9. Counted(at2, wpc, task, tlsB, ingressB, queueB, sendB', inflightB', scratchB)
  <2>1. /\ \A T : (p \in T <=> t \in T) => Tagged(at2, T) = Tagged(at, T)
        /\ \A T : p \notin T /\ t \in T =>
             Cardinality(Tagged(at2, T)) = Cardinality(Tagged(at, T)) + Cardinality(b)
        /\ \A T : p \in T /\ t \notin T =>
             Cardinality(Tagged(at, T)) = Cardinality(Tagged(at2, T)) + Cardinality(b)
    BY <1>6, MoveCounts
  <2>2. Cardinality(b) \in Nat
    BY <1>4, LogsFinite
  <2>3. sendB' = Cardinality(Tagged(at2, {"sendq"})) + Cardinality(Carried(wpc, task, "put"))
    <3>1. sendB = Cardinality(Tagged(at, {"sendq"})) + Cardinality(Carried(wpc, task, "put"))
      BY <1>1 DEF Counted
    <3>2. Cardinality(Tagged(at, {"sendq"})) = Cardinality(Tagged(at2, {"sendq"})) + Cardinality(b)
      BY <1>5, <2>1
    <3>3. Cardinality(Tagged(at2, {"sendq"})) \in Nat /\ Cardinality(Carried(wpc, task, "put")) \in Nat
      BY TaggedSize, CarriedSize
    <3> QED
      BY <1>2, <2>2, <3>1, <3>2, <3>3 DEF Less, Size
  <2>4. inflightB' = Cardinality(Tagged(at2, {"inflight"}))
    <3>1. inflightB = Cardinality(Tagged(at, {"inflight"}))
      BY <1>1 DEF Counted
    <3> QED
      BY <1>2, <1>5, <2>1, <3>1 DEF Size
  <2>5. \A T : T \cap {"sendq", "inflight"} = {} => Tagged(at2, T) = Tagged(at, T)
    BY <1>5, <2>1
  <2>6. /\ {"tls", "append"} \cap {"sendq", "inflight"} = {}
        /\ {"ingress"} \cap {"sendq", "inflight"} = {}
        /\ CountedTags \cap {"sendq", "inflight"} = {}
    BY DEF CountedTags
  <2> QED
    BY <1>1, <2>3, <2>4, <2>5, <2>6 DEF Counted
<1>10. p \in SenderTags /\ t \in {"inflight", "done"} /\ (b \subseteq answered' \/ t # "done")
       /\ answered \subseteq answered'
  BY <1>2, <1>5 DEF SenderTags
<1> QED
  BY <1>1, <1>2, <1>3, <1>6, <1>8, <1>9, <1>10, SenderStepKeeps

\* A sender is done with a task.
LEMMA LogDone ==
  ASSUME LogInv, NEW b, SenderDone(b)
  PROVE  LogInv'
<1>1. PICK at, by : Placed(at, by) /\ Counted(at, wpc, task, tlsB, ingressB, queueB, sendB, inflightB, scratchB)
  BY DEF LogInv
<1>2. /\ b \in inflight /\ sendq' = sendq /\ inflight' = inflight \ {b}
      /\ sendB' = sendB /\ inflightB' = Less(inflightB, Size(b)) /\ answered' = answered \cup b
      /\ UNCHANGED <<tlsB, ingressB, queueB, scratchB, tls, pc, req, ingress, items, builder, sealed,
                     wpc, wlist, task, next, lost>>
  BY DEF SenderDone, ingressSide, writerVars, queueVars, workerVars
<1>3. SendersHave(at, sendq, inflight) /\ Shaped
  BY <1>1 DEF Placed, LogInv
<1>4. /\ b \in SUBSET Logs /\ \A l \in b : at[l] = "inflight"
      /\ sendq \subseteq SUBSET Logs /\ inflight \subseteq SUBSET Logs
      /\ \A c, d \in sendq : c # d => c \cap d = {}
      /\ \A c, d \in inflight : c # d => c \cap d = {}
      /\ \A l \in Logs : at[l] = "sendq" <=> l \in UNION sendq
      /\ \A l \in Logs : at[l] = "inflight" <=> l \in UNION inflight
  BY <1>2, <1>3 DEF SendersHave
<1>5. PICK p, t, at2 : p = "inflight" /\ t = "done" /\ at2 = Move(at, b, t)
  OBVIOUS
<1>6. Moves(at, by, at2, by, b, p, t)
  BY <1>4, <1>5 DEF Moves, Tags, SenderTags
<1>7. \A l \in Logs : at2[l] = IF l \in b THEN "done" ELSE at[l]
  BY <1>5 DEF Move
<1>8. SendersHave(at2, sendq', inflight')
  <2>1. \A l \in Logs : l \in UNION (inflight \ {b}) <=> l \in UNION inflight /\ l \notin b
    BY <1>2, <1>4, TaskLeaves
  <2>2. \A l \in Logs : at2[l] = "inflight" <=> l \in UNION (inflight \ {b})
    BY <1>4, <1>7, <2>1
  <2>3. \A l \in Logs : at2[l] = "sendq" <=> l \in UNION sendq
    BY <1>4, <1>7
  <2>4. PICK f2 : f2 = inflight \ {b}
    OBVIOUS
  <2>5. f2 \subseteq SUBSET Logs /\ \A c, d \in f2 : c # d => c \cap d = {}
    BY <1>4, <2>4
  <2>6. SendersHave(at2, sendq, f2)
    BY <1>4, <2>2, <2>3, <2>4, <2>5 DEF SendersHave
  <2> QED
    BY <1>2, <2>4, <2>6
<1>9. Counted(at2, wpc, task, tlsB, ingressB, queueB, sendB', inflightB', scratchB)
  <2>1. /\ \A T : (p \in T <=> t \in T) => Tagged(at2, T) = Tagged(at, T)
        /\ \A T : p \in T /\ t \notin T =>
             Cardinality(Tagged(at, T)) = Cardinality(Tagged(at2, T)) + Cardinality(b)
    BY <1>6, MoveCounts
  <2>2. Cardinality(b) \in Nat
    BY <1>4, LogsFinite
  <2>3. inflightB' = Cardinality(Tagged(at2, {"inflight"}))
    <3>1. inflightB = Cardinality(Tagged(at, {"inflight"}))
      BY <1>1 DEF Counted
    <3>2. Cardinality(Tagged(at, {"inflight"})) = Cardinality(Tagged(at2, {"inflight"})) + Cardinality(b)
      BY <1>5, <2>1
    <3>3. Cardinality(Tagged(at2, {"inflight"})) \in Nat
      BY TaggedSize
    <3> QED
      BY <1>2, <2>2, <3>1, <3>2, <3>3 DEF Less, Size
  <2>4. \A T : T \cap {"inflight", "done"} = {} => Tagged(at2, T) = Tagged(at, T)
    BY <1>5, <2>1
  <2>5. /\ {"tls", "append"} \cap {"inflight", "done"} = {}
        /\ {"ingress"} \cap {"inflight", "done"} = {}
        /\ {"sendq"} \cap {"inflight", "done"} = {}
        /\ CountedTags \cap {"inflight", "done"} = {}
    BY DEF CountedTags
  <2> QED
    BY <1>1, <1>2, <2>3, <2>4, <2>5 DEF Counted
<1>10. p \in SenderTags /\ t \in {"inflight", "done"} /\ (b \subseteq answered' \/ t # "done")
       /\ answered \subseteq answered'
  BY <1>2, <1>5 DEF SenderTags
<1> QED
  BY <1>1, <1>2, <1>3, <1>6, <1>8, <1>9, <1>10, SenderStepKeeps

\* The first state.
LEMMA LogInit == IngressInit => LogInv
<1> SUFFICES ASSUME IngressInit
             PROVE  LogInv
  OBVIOUS
<1>1. PICK at, by : at = [l \in Logs |-> "new"] /\ by = [l \in Logs |-> 0]
  OBVIOUS
<1>2. Shaped
  BY DEF IngressInit, Shaped
<1>3. \A l \in Logs : at[l] = "new"
  BY <1>1
<1>4. at \in [Logs -> Tags]
  BY <1>1 DEF Tags
<1>5. \A a \in Writers : WriterHas(at, by, a, tls[a], pc[a], req[a])
  <2> SUFFICES ASSUME NEW a \in Writers
               PROVE  WriterHas(at, by, a, tls[a], pc[a], req[a])
    OBVIOUS
  <2>1. tls[a] = {} /\ pc[a] = "idle"
    BY DEF IngressInit
  <2> QED
    BY <1>3, <2>1 DEF WriterHas, WriterPcs, LogPcs
<1>6. \A w \in Workers : WorkerHas(at, by, w, wpc[w], wlist[w], task[w])
  <2> SUFFICES ASSUME NEW w \in Workers
               PROVE  WorkerHas(at, by, w, wpc[w], wlist[w], task[w])
    OBVIOUS
  <2>1. wpc[w] = "loop" /\ wlist[w] = <<>> /\ task[w] = {}
    BY DEF IngressInit
  <2>2. wlist[w] \in Seq(SUBSET Logs) /\ 1..Len(wlist[w]) = {}
    BY <2>1
  <2>3. Apart(Len(wlist[w]), wlist[w])
    BY <2>2 DEF Apart
  <2> QED
    BY <1>3, <2>1, <2>2, <2>3 DEF WorkerHas, TaskPcs
<1>7. QueuesHave(at, ingress, items, builder, sealed)
  <2>1. ingress = <<>> /\ items = <<>> /\ sealed = <<>> /\ builder = [k \in {"default", "key"} |-> {}]
    BY DEF IngressInit
  <2>2. /\ ingress \in Seq({}) /\ items \in Seq(Logs) /\ sealed \in Seq(SUBSET Logs)
        /\ 1..Len(ingress) = {} /\ 1..Len(items) = {} /\ 1..Len(sealed) = {}
        /\ builder \in [{"default", "key"} -> SUBSET Logs]
        /\ \A k \in {"default", "key"} : builder[k] = {}
    BY <2>1
  <2>3. Apart(Len(sealed), sealed) /\ \A l \in Logs : ~Within(l, Len(sealed), sealed)
    BY <2>2 DEF Apart, Within
  <2> HIDE <2>1
  <2> QED
    BY <1>3, <2>2, <2>3 DEF QueuesHave
<1>8. SendersHave(at, sendq, inflight)
  BY <1>3 DEF SendersHave, IngressInit
<1>9. HistoryHas(at, next, answered, lost)
  BY <1>3 DEF HistoryHas, IngressInit, Logs
<1>10. Placed(at, by)
  BY <1>3, <1>4, <1>5, <1>6, <1>7, <1>8, <1>9 DEF Placed, WriterTags, WorkerTags
<1>11. Counted(at, wpc, task, tlsB, ingressB, queueB, sendB, inflightB, scratchB)
  <2>1. ASSUME NEW T, "new" \notin T
        PROVE  Cardinality(Tagged(at, T)) = 0
    <3>1. Tagged(at, T) = {}
      BY <1>3, <2>1 DEF Tagged
    <3> QED
      BY <3>1, FS_EmptySet
  <2>2. ASSUME NEW r \in BytePcs
        PROVE  Cardinality(Carried(wpc, task, r)) = 0
    <3>1. Carried(wpc, task, r) = {}
      BY DEF Carried, IngressInit
    <3> QED
      BY <3>1, FS_EmptySet
  <2>3. Cardinality(Packing(wpc)) = 0
    <3>1. Packing(wpc) = {}
      BY DEF Packing, IngressInit
    <3> QED
      BY <3>1, FS_EmptySet
  <2>4. tlsB = 0 /\ ingressB = 0 /\ queueB = 0 /\ sendB = 0 /\ inflightB = 0 /\ scratchB = 0
    BY DEF IngressInit, BudgetInit
  <2>5. Scratch * 0 = 0
    BY IngressAssumption
  <2> QED
    BY <2>1, <2>2, <2>3, <2>4, <2>5 DEF Counted, BytePcs, CountedTags
<1> QED
  BY <1>2, <1>10, <1>11 DEF LogInv

\* Every step keeps every log in one place.
LEMMA LogStep == LogInv /\ [IngressNext]_ingressVars => LogInv'
<1> SUFFICES ASSUME LogInv, [IngressNext]_ingressVars
             PROVE  LogInv'
  OBVIOUS
<1>1. ASSUME NEW a \in Writers, Call(a) \/ WriterStep(a)
      PROVE  LogInv'
  BY <1>1, LogWriter
<1>2. ASSUME NEW w \in Workers, WorkerStep(w)
      PROVE  LogInv'
  <2>1. CASE WorkerTimer(w)
    <3>1. UNCHANGED <<LogVars, pc, req>>
      BY <2>1 DEF WorkerTimer, LogVars, budgetVars, ingressSide, sendSide, writerVars, queueVars,
         workerVars, senderVars, historyVars
    <3> QED
      BY <3>1, LogQuiet
  <2> QED
    BY <1>2, <2>1, LogWorkerIdle, LogTask, LogRelease, LogItem, LogRound DEF WorkerStep
<1>3. CASE SenderStep
  BY <1>3, LogTake, LogDone DEF SenderStep
<1>4. CASE ImportItem
  BY <1>4, LogImport
<1>5. CASE \/ Flush
           \/ \E k \in DOMAIN builder : IntervalOver(k)
           \/ \E th \in Writers \cup Workers : Deadline(th)
           \/ UNCHANGED ingressVars
  <2>1. UNCHANGED <<LogVars, pc, req>>
    BY <1>5 DEF Flush, IntervalOver, Deadline, ingressVars, LogVars, budgetVars, ingressSide, sendSide,
       writerVars, queueVars, workerVars, senderVars, historyVars
  <2> QED
    BY <2>1, LogQuiet
<1> QED
  BY <1>1, <1>2, <1>3, <1>4, <1>5 DEF IngressNext

-----------------------------------------------------------------------------
(* What the placement says of the counters and of the logs.                *)

\* The logs at places of two kinds.
LEMMA TagsSplit ==
  ASSUME NEW at, NEW T, NEW S, T \cap S = {}, NEW R, R = T \cup S
  PROVE  Cardinality(Tagged(at, R)) = Cardinality(Tagged(at, T)) + Cardinality(Tagged(at, S))
<1>1. Tagged(at, T) \in SUBSET Logs /\ Tagged(at, S) \in SUBSET Logs
  BY DEF Tagged
<1>2. Tagged(at, R) = Tagged(at, T) \cup Tagged(at, S) /\ Tagged(at, T) \cap Tagged(at, S) = {}
  BY DEF Tagged
<1> QED
  BY <1>1, <1>2, SizeSplit

\* A batch of a family has the logs that have its mark, and no log has two marks.
Family(f, D, U) ==
  /\ DOMAIN f = D
  /\ U = {l \in Logs : \E x \in D : l \in f[x]}
  /\ \A x, y \in D : x # y => \A l \in Logs : ~(l \in f[x] /\ l \in f[y])

\* Their sizes.
LEMMA FamilySizes ==
  ASSUME NEW f, NEW D, NEW U, Family(f, D, U)
  PROVE  Sizes(f) = Cardinality(U)
BY SizesOf DEF Family

\* The logs that writers have in their hands.
LEMMA WritingSizes ==
  ASSUME NEW at, NEW by, Placed(at, by), NEW p \in LogPcs
  PROVE  Sizes([a \in Writers |-> IF pc[a] = p THEN {req[a].log} ELSE {}]) = Cardinality(Tagged(at, {p}))
<1>1. PICK f, U : f = [a \in Writers |-> IF pc[a] = p THEN {req[a].log} ELSE {}] /\ U = Tagged(at, {p})
  OBVIOUS
<1>2. \A a \in Writers, l \in Logs : l \in f[a] <=> at[l] = p /\ by[l] = a
  <2> SUFFICES ASSUME NEW a \in Writers, NEW l \in Logs
               PROVE  l \in f[a] <=> at[l] = p /\ by[l] = a
    OBVIOUS
  <2>1. pc[a] = p /\ req[a].log = l <=> at[l] = p /\ by[l] = a
    BY DEF Placed, WriterHas
  <2> QED
    BY <1>1, <2>1
<1>3. \A l \in Logs : at[l] = p => by[l] \in Writers
  BY DEF Placed, WriterTags, LogPcs
<1>4. U = {l \in Logs : \E a \in Writers : l \in f[a]}
  BY <1>1, <1>2, <1>3 DEF Tagged
<1>5. DOMAIN f = Writers
  BY <1>1
<1>6. Family(f, Writers, U)
  BY <1>2, <1>4, <1>5 DEF Family
<1> QED
  BY <1>1, <1>6, FamilySizes

\* The thread-local batches.
LEMMA TlsSizes ==
  ASSUME NEW at, NEW by, Placed(at, by), Shaped
  PROVE  Sizes(tls) = Cardinality(Tagged(at, {"tls"}))
<1>1. \A a \in Writers, l \in Logs : l \in tls[a] <=> at[l] = "tls" /\ by[l] = a
  BY DEF Placed, WriterHas
<1>2. \A l \in Logs : at[l] = "tls" => by[l] \in Writers
  BY DEF Placed, WriterTags
<1>3. Tagged(at, {"tls"}) = {l \in Logs : \E a \in Writers : l \in tls[a]}
  BY <1>1, <1>2 DEF Tagged
<1>4. DOMAIN tls = Writers
  BY DEF Shaped
<1>5. Family(tls, Writers, Tagged(at, {"tls"}))
  BY <1>1, <1>3, <1>4 DEF Family
<1> QED
  BY <1>5, FamilySizes

\* The raw items, the builders and the sealed list.
LEMMA QueueSizes ==
  ASSUME NEW at, QueuesHave(at, ingress, items, builder, sealed)
  PROVE  /\ Len(items) = Cardinality(Tagged(at, {"item"}))
         /\ Sizes(builder) = Cardinality(Tagged(at, {"default", "key"}))
         /\ Sizes(sealed) = Cardinality(Tagged(at, {"sealed"}))
<1>1. Len(items) = Cardinality(Tagged(at, {"item"}))
  <2>1. PICK N, D, U : N = Len(items) /\ D = 1..N /\ U = Tagged(at, {"item"})
    OBVIOUS
  <2>2. /\ items \in Seq(Logs) /\ N \in Nat /\ items \in [D -> Logs]
        /\ \A i, j \in D : i # j => items[i] # items[j]
        /\ \A l \in Logs : at[l] = "item" <=> \E i \in D : l = items[i]
    BY <2>1 DEF QueuesHave
  <2>3. U \in SUBSET Logs /\ \A l \in Logs : l \in U <=> \E i \in D : l = items[i]
    BY <2>1, <2>2 DEF Tagged
  <2>4. items \in [D -> U]
    BY <2>2, <2>3
  <2>5. items \in Bijection(D, U)
    BY <2>2, <2>3, <2>4 DEF Bijection, Injection, Surjection, IsInjective
  <2>6. ExistsBijection(D, U)
    BY <2>5 DEF ExistsBijection
  <2>7. IsFiniteSet(D) /\ Cardinality(D) = N
    <3>1. N \in Int /\ 1 \in Int
      BY <2>2
    <3>2. IsFiniteSet(1..N) /\ Cardinality(1..N) = IF 1 > N THEN 0 ELSE N - 1 + 1
      BY <3>1, FS_Interval
    <3> QED
      BY <2>1, <2>2, <3>2
  <2> QED
    BY <2>1, <2>6, <2>7, FS_Bijection
<1>2. Sizes(builder) = Cardinality(Tagged(at, {"default", "key"}))
  <2>1. PICK U, D : U = Tagged(at, {"default", "key"}) /\ D = {"default", "key"}
    OBVIOUS
  <2>2. DOMAIN builder = D /\ \A l \in Logs, k \in D : at[l] = k <=> l \in builder[k]
    BY <2>1 DEF QueuesHave
  <2>3. U = {l \in Logs : \E k \in D : l \in builder[k]}
    BY <2>1, <2>2 DEF Tagged
  <2>4. Family(builder, D, U)
    BY <2>2, <2>3 DEF Family
  <2> QED
    BY <2>1, <2>4, FamilySizes
<1>3. Sizes(sealed) = Cardinality(Tagged(at, {"sealed"}))
  <2>1. PICK U, D : U = Tagged(at, {"sealed"}) /\ D = 1..Len(sealed)
    OBVIOUS
  <2>2. /\ DOMAIN sealed = D /\ \A l \in Logs : at[l] = "sealed" <=> \E i \in D : l \in sealed[i]
        /\ \A i, j \in D : i # j => sealed[i] \cap sealed[j] = {}
    BY <2>1 DEF QueuesHave, Within, Apart
  <2>3. U = {l \in Logs : \E k \in D : l \in sealed[k]}
    BY <2>1, <2>2 DEF Tagged
  <2>4. Family(sealed, D, U)
    BY <2>2, <2>3 DEF Family
  <2> QED
    BY <2>1, <2>4, FamilySizes
<1> QED
  BY <1>1, <1>2, <1>3

\* The tasks in the send queue, and those in flight.
LEMMA SenderSizes ==
  ASSUME NEW at, SendersHave(at, sendq, inflight)
  PROVE  /\ Sizes([b \in sendq |-> b]) = Cardinality(Tagged(at, {"sendq"}))
         /\ Sizes([b \in inflight |-> b]) = Cardinality(Tagged(at, {"inflight"}))
<1>1. ASSUME NEW q, \A b, c \in q : b # c => b \cap c = {}, NEW g, \A l \in Logs : at[l] = g <=> l \in UNION q
      PROVE  Sizes([b \in q |-> b]) = Cardinality(Tagged(at, {g}))
  <2>1. PICK f, U : f = [b \in q |-> b] /\ U = Tagged(at, {g})
    OBVIOUS
  <2>2. DOMAIN f = q /\ \A b \in q : f[b] = b
    BY <2>1
  <2>3. U = {l \in Logs : \E b \in q : l \in f[b]}
    BY <1>1, <2>1, <2>2 DEF Tagged
  <2>4. Family(f, q, U)
    BY <1>1, <2>2, <2>3 DEF Family
  <2> QED
    BY <2>1, <2>4, FamilySizes
<1> QED
  BY <1>1 DEF SendersHave

\* The tasks of the workers at a step.
LEMMA TaskSizes ==
  ASSUME NEW at, NEW by, Placed(at, by), NEW p \in TaskPcs
  PROVE  Sizes([w \in Workers |-> IF wpc[w] = p THEN task[w] ELSE {}]) = Cardinality(Carried(wpc, task, p))
<1>1. PICK f, U : f = [w \in Workers |-> IF wpc[w] = p THEN task[w] ELSE {}] /\ U = Carried(wpc, task, p)
  OBVIOUS
<1>2. DOMAIN f = Workers /\ \A w \in Workers, l \in Logs : l \in f[w] <=> wpc[w] = p /\ l \in task[w]
  BY <1>1
<1>3. U = {l \in Logs : \E w \in Workers : l \in f[w]}
  BY <1>1, <1>2 DEF Carried
<1>4. ASSUME NEW v \in Workers, NEW w \in Workers, v # w, NEW l \in Logs, l \in f[v], l \in f[w]
      PROVE  FALSE
  <2>1. /\ l \in task[v] /\ l \in task[w]
        /\ wpc[v] \in TaskPcs \cup {"release"} /\ wpc[w] \in TaskPcs \cup {"release"}
    BY <1>2, <1>4
  <2>2. task[v] \cap task[w] = {}
    BY <1>4, <2>1, TasksApart
  <2> QED
    BY <2>1, <2>2
<1>5. Family(f, Workers, U)
  BY <1>2, <1>3, <1>4 DEF Family
<1> QED
  BY <1>1, <1>5, FamilySizes

\* The logs of the batches that a worker has taken are its own.
LEMMA ListBy ==
  ASSUME NEW at, NEW by, NEW w, NEW p, NEW s, NEW t, WorkerHas(at, by, w, p, s, t)
  PROVE  /\ DOMAIN s = 1..Len(s)
         /\ \A i \in 1..Len(s) : \A l \in s[i] : /\ l \in Logs /\ by[l] = w
                                                 /\ at[l] = "list" \/ (p = "release" /\ l \in t)
         /\ p = "release" => 1 \in 1..Len(s) /\ t = s[1]
<1>1. /\ s \in Seq(SUBSET Logs)
      /\ p = "release" => First(s, t)
      /\ p = "release" => \A l \in t : by[l] = w
      /\ \A l \in Logs : at[l] = "list" /\ by[l] = w <=>
                         \E i \in 1..Len(s) : l \in s[i] /\ (i = 1 => p # "release")
  BY DEF WorkerHas
<1>2. DOMAIN s = 1..Len(s)
  BY <1>1
<1>3. p = "release" => 1 \in 1..Len(s) /\ t = s[1]
  BY <1>1 DEF First
<1>4. ASSUME NEW i \in 1..Len(s), NEW l \in s[i]
      PROVE  l \in Logs /\ by[l] = w /\ (at[l] = "list" \/ (p = "release" /\ l \in t))
  <2>1. l \in Logs
    BY <1>1
  <2>2. CASE i = 1 /\ p = "release"
    BY <1>1, <1>3, <2>1, <2>2
  <2>3. CASE ~(i = 1 /\ p = "release")
    BY <1>1, <2>1, <2>3
  <2> QED
    BY <2>1, <2>2, <2>3
<1> QED
  BY <1>2, <1>3, <1>4

\* The batches that the workers have taken: one that is handed on and not yet
\* released is among them.
LEMMA ListSizes ==
  ASSUME NEW at, NEW by, Placed(at, by)
  PROVE  Sizes([p \in UNION {{w} \X (DOMAIN wlist[w]) : w \in Workers} |-> wlist[p[1]][p[2]]])
           = Cardinality(Tagged(at, {"list"})) + Cardinality(Carried(wpc, task, "release"))
<1>1. PICK D, f, L, R, U : /\ D = UNION {{w} \X (DOMAIN wlist[w]) : w \in Workers}
                           /\ f = [p \in D |-> wlist[p[1]][p[2]]]
                           /\ L = Tagged(at, {"list"}) /\ R = Carried(wpc, task, "release") /\ U = L \cup R
  OBVIOUS
<1>2. \A w \in Workers : WorkerHas(at, by, w, wpc[w], wlist[w], task[w])
  BY DEF Placed
<1>3. \A w \in Workers :
        /\ DOMAIN wlist[w] = 1..Len(wlist[w])
        /\ \A i \in 1..Len(wlist[w]) : \A l \in wlist[w][i] :
             l \in Logs /\ by[l] = w /\ (at[l] = "list" \/ (wpc[w] = "release" /\ l \in task[w]))
        /\ wpc[w] = "release" => 1 \in 1..Len(wlist[w]) /\ task[w] = wlist[w][1]
  BY <1>2, ListBy
<1>4. \A p \in D : \E w \in Workers : \E i \in 1..Len(wlist[w]) : p = <<w, i>> /\ f[p] = wlist[w][i]
  <2> SUFFICES ASSUME NEW p \in D
               PROVE  \E w \in Workers : \E i \in 1..Len(wlist[w]) : p = <<w, i>> /\ f[p] = wlist[w][i]
    OBVIOUS
  <2>1. PICK w \in Workers : p \in {w} \X (DOMAIN wlist[w])
    BY <1>1
  <2>2. PICK i \in 1..Len(wlist[w]) : p = <<w, i>>
    BY <1>3, <2>1
  <2>3. f[p] = wlist[p[1]][p[2]] /\ p[1] = w /\ p[2] = i
    BY <1>1, <2>2
  <2> QED
    BY <2>2, <2>3
<1>5. \A w \in Workers : \A i \in 1..Len(wlist[w]) : <<w, i>> \in D /\ f[<<w, i>>] = wlist[w][i]
  BY <1>1, <1>3
<1>6. ASSUME NEW l \in Logs
      PROVE  l \in U <=> \E p \in D : l \in f[p]
  <2>1. ASSUME NEW p \in D, l \in f[p]
        PROVE  l \in U
    <3>1. PICK w \in Workers : \E i \in 1..Len(wlist[w]) : p = <<w, i>> /\ f[p] = wlist[w][i]
      BY <1>4
    <3>2. at[l] = "list" \/ (wpc[w] = "release" /\ l \in task[w])
      BY <1>3, <2>1, <3>1
    <3> QED
      BY <1>1, <3>2 DEF Tagged, Carried
  <2>2. CASE l \in L
    <3>1. at[l] = "list" /\ by[l] \in Workers
      BY <1>1, <2>2 DEF Tagged, Placed, WorkerTags
    <3>2. PICK w \in Workers : w = by[l]
      BY <3>1
    <3>3. PICK i \in 1..Len(wlist[w]) : l \in wlist[w][i]
      BY <1>2, <3>1, <3>2 DEF WorkerHas
    <3> QED
      <4>1. <<w, i>> \in D /\ l \in f[<<w, i>>]
        BY <1>5, <3>3
      <4> QED
        BY <1>1, <2>2, <4>1
  <2>3. CASE l \in R
    <3>1. PICK w \in Workers : wpc[w] = "release" /\ l \in task[w]
      BY <1>1, <2>3 DEF Carried
    <3>2. 1 \in 1..Len(wlist[w]) /\ l \in wlist[w][1]
      BY <1>3, <3>1
    <3> QED
      <4>1. <<w, 1>> \in D /\ l \in f[<<w, 1>>]
        BY <1>5, <3>2
      <4> QED
        BY <1>1, <2>3, <4>1
  <2> QED
    BY <1>1, <2>1, <2>2, <2>3
<1>7. ASSUME NEW p \in D, NEW q \in D, p # q, NEW l \in Logs, l \in f[p], l \in f[q]
      PROVE  FALSE
  <2>11. PICK w \in Workers : \E i \in 1..Len(wlist[w]) : p = <<w, i>> /\ f[p] = wlist[w][i]
    BY <1>4
  <2>12. PICK v \in Workers : \E j \in 1..Len(wlist[v]) : q = <<v, j>> /\ f[q] = wlist[v][j]
    BY <1>4
  <2>1. PICK i \in 1..Len(wlist[w]) : p = <<w, i>> /\ f[p] = wlist[w][i]
    BY <2>11
  <2>2. PICK j \in 1..Len(wlist[v]) : q = <<v, j>> /\ f[q] = wlist[v][j]
    BY <2>12
  <2>3. by[l] = w /\ by[l] = v
    BY <1>3, <1>7, <2>1, <2>2
  <2>4. i # j
    BY <1>7, <2>1, <2>2, <2>3
  <2>5. wlist[w][i] \cap wlist[w][j] = {}
    BY <1>2, <2>1, <2>2, <2>3, <2>4 DEF WorkerHas, Apart
  <2> QED
    BY <1>7, <2>1, <2>2, <2>3, <2>5
<1>8. L \in SUBSET Logs /\ R \in SUBSET Logs
  BY <1>1 DEF Tagged, Carried
<1>9. U = {l \in Logs : \E p \in D : l \in f[p]} /\ DOMAIN f = D
  BY <1>1, <1>6, <1>8
<1>10. Sizes(f) = Cardinality(U)
  <2>1. Family(f, D, U)
    BY <1>7, <1>9 DEF Family
  <2> QED
    BY <2>1, FamilySizes
<1>11. L \cap R = {}
  <2>1. ASSUME NEW l \in R
        PROVE  l \notin L
    <3>1. PICK w \in Workers : wpc[w] = "release" /\ l \in task[w]
      BY <1>1 DEF Carried
    <3>2. at[l] \in SenderTags \cup {"done"}
      BY <1>2, <3>1 DEF WorkerHas
    <3> QED
      BY <1>1, <3>2 DEF Tagged, SenderTags
  <2> QED
    BY <2>1
<1>12. Cardinality(U) = Cardinality(L) + Cardinality(R)
  BY <1>1, <1>8, <1>11, SizeSplit
<1> QED
  BY <1>1, <1>10, <1>12

\* The counters are exact where every log is in its place.
LEMMA CountersFollow == LogInv => CountersExact
<1> SUFFICES ASSUME LogInv
             PROVE  CountersExact
  OBVIOUS
<1>1. PICK at, by : Placed(at, by) /\ Counted(at, wpc, task, tlsB, ingressB, queueB, sendB, inflightB, scratchB)
  BY DEF LogInv
<1>2. Shaped /\ QueuesHave(at, ingress, items, builder, sealed) /\ SendersHave(at, sendq, inflight)
  BY <1>1 DEF LogInv, Placed
<1>3. tlsB = Sizes(tls) + Sizes([a \in Writers |-> IF pc[a] = "append" THEN {req[a].log} ELSE {}])
  <2>1. Sizes([a \in Writers |-> IF pc[a] = "append" THEN {req[a].log} ELSE {}]) = Cardinality(Tagged(at, {"append"}))
    BY <1>1, WritingSizes DEF LogPcs
  <2>2. PICK T, S, R : T = {"tls"} /\ S = {"append"} /\ R = {"tls", "append"}
    OBVIOUS
  <2>3. T \cap S = {} /\ R = T \cup S
    BY <2>2
  <2>4. Cardinality(Tagged(at, R)) = Cardinality(Tagged(at, T)) + Cardinality(Tagged(at, S))
    BY <2>3, TagsSplit
  <2> QED
    BY <1>1, <1>2, <2>1, <2>2, <2>4, TlsSizes DEF Counted
<1>4. ingressB = AllSize
  BY <1>1, <1>2, AllSizeIs DEF Counted
<1>5. PICK Lists : Lists = [p \in UNION {{w} \X (DOMAIN wlist[w]) : w \in Workers} |-> wlist[p[1]][p[2]]]
  OBVIOUS
<1>6. PICK Copies : Copies = [a \in Writers |-> IF pc[a] = "copy" THEN {req[a].log} ELSE {}]
  OBVIOUS
<1>7. queueB = Len(items) + Sizes(builder) + Sizes(sealed) + Sizes(Lists) + Sizes(Copies)
  <2>1. PICK n1, n2, n3, n4, n5, c : /\ n1 = Cardinality(Tagged(at, {"item"}))
                                     /\ n2 = Cardinality(Tagged(at, {"default", "key"}))
                                     /\ n3 = Cardinality(Tagged(at, {"sealed"}))
                                     /\ n4 = Cardinality(Tagged(at, {"list"}))
                                     /\ n5 = Cardinality(Tagged(at, {"copy"}))
                                     /\ c = Cardinality(Carried(wpc, task, "release"))
    OBVIOUS
  <2>2. Len(items) = n1 /\ Sizes(builder) = n2 /\ Sizes(sealed) = n3
    BY <1>2, <2>1, QueueSizes
  <2>3. Sizes(Lists) = n4 + c
    BY <1>1, <1>5, <2>1, ListSizes
  <2>4. Sizes(Copies) = n5
    BY <1>1, <1>6, <2>1, WritingSizes DEF LogPcs
  <2>5. n1 \in Nat /\ n2 \in Nat /\ n3 \in Nat /\ n4 \in Nat /\ n5 \in Nat /\ c \in Nat
    BY <2>1, TaggedSize, CarriedSize
  <2>6. Cardinality(Tagged(at, CountedTags)) = n1 + n2 + n3 + n4 + n5
    <3>1. PICK T1, T2, T3, T4, T5, T12, T123, T1234 :
            /\ T1 = {"item"} /\ T2 = {"default", "key"} /\ T3 = {"sealed"} /\ T4 = {"list"} /\ T5 = {"copy"}
            /\ T12 = {"item", "default", "key"} /\ T123 = {"item", "default", "key", "sealed"}
            /\ T1234 = {"item", "default", "key", "sealed", "list"}
      OBVIOUS
    <3>2. T1 \cap T2 = {} /\ T12 = T1 \cup T2
      BY <3>1
    <3>3. T12 \cap T3 = {} /\ T123 = T12 \cup T3
      BY <3>1
    <3>4. T123 \cap T4 = {} /\ T1234 = T123 \cup T4
      BY <3>1
    <3>5. T1234 \cap T5 = {} /\ CountedTags = T1234 \cup T5
      BY <3>1 DEF CountedTags
    <3>6. Cardinality(Tagged(at, T12)) = Cardinality(Tagged(at, T1)) + Cardinality(Tagged(at, T2))
      BY <3>2, TagsSplit
    <3>7. Cardinality(Tagged(at, T123)) = Cardinality(Tagged(at, T12)) + Cardinality(Tagged(at, T3))
      BY <3>3, TagsSplit
    <3>8. Cardinality(Tagged(at, T1234)) = Cardinality(Tagged(at, T123)) + Cardinality(Tagged(at, T4))
      BY <3>4, TagsSplit
    <3>9. Cardinality(Tagged(at, CountedTags)) = Cardinality(Tagged(at, T1234)) + Cardinality(Tagged(at, T5))
      BY <3>5, TagsSplit
    <3> QED
      BY <2>1, <3>1, <3>6, <3>7, <3>8, <3>9
  <2>7. queueB = n1 + n2 + n3 + n4 + n5 + c
    BY <1>1, <2>1, <2>6 DEF Counted
  <2> QED
    BY <2>2, <2>3, <2>4, <2>5, <2>7
<1>8. sendB = Sizes([b \in sendq |-> b]) + Sizes([w \in Workers |-> IF wpc[w] = "put" THEN task[w] ELSE {}])
  <2>1. Sizes([w \in Workers |-> IF wpc[w] = "put" THEN task[w] ELSE {}]) = Cardinality(Carried(wpc, task, "put"))
    BY <1>1, TaskSizes DEF TaskPcs
  <2> QED
    BY <1>1, <1>2, <2>1, SenderSizes DEF Counted
<1>9. inflightB = Sizes([b \in inflight |-> b])
  BY <1>1, <1>2, SenderSizes DEF Counted
<1>10. scratchB = Sizes([w \in Workers |-> IF wpc[w] = "compress" THEN task[w] ELSE {}])
                  + Scratch * Cardinality({w \in Workers : wpc[w] = "compress"})
  <2>1. Sizes([w \in Workers |-> IF wpc[w] = "compress" THEN task[w] ELSE {}])
          = Cardinality(Carried(wpc, task, "compress"))
    BY <1>1, TaskSizes DEF TaskPcs
  <2> QED
    BY <1>1, <2>1 DEF Counted, Packing
<1> QED
  BY <1>3, <1>4, <1>5, <1>6, <1>7, <1>8, <1>9, <1>10, Zenon DEF CountersExact

-----------------------------------------------------------------------------
(* The threads.                                                            *)

WorkerPcs == TaskPcs \cup {"loop", "timed", "items", "batches", "release", "exited"}

\* Where the threads are, who waits, and the bounds that the guards keep.
ThreadInv ==
  /\ pc \in [Writers -> WriterPcs]
  /\ wpc \in [Workers -> WorkerPcs]
  /\ waiting \cup late \subseteq Writers \cup Workers
  /\ Len(ingress) <= IngressCap
  /\ next \in 1..(MaxLogs + 1)
  /\ imported \in BOOLEAN

\* A signal puts no thread to sleep.
LEMMA SignalWakes ==
  ASSUME NEW n, Signal(n)
  PROVE  waiting' \subseteq waiting
BY DEF Signal, Wakes

\* A thread that has no room sleeps: it is the only one that may have begun to wait.
LEMMA SleepWaits ==
  ASSUME NEW th, Sleep(th)
  PROVE  waiting' \subseteq waiting \cup {th}
BY DEF Sleep, Wakes

\* Those that give up wake others.
LEMMA GiveUpWakes ==
  ASSUME NEW th, GiveUp(th) \/ Closed
  PROVE  waiting' \subseteq waiting
BY SignalWakes DEF GiveUp, Closed, NoSignal

\* A step of a writer, as far as the threads go.
WriterGoesOn(a) ==
  /\ pc' = pc \/ \E p \in WriterPcs : pc' = [pc EXCEPT ![a] = p]
  /\ wpc' = wpc
  /\ waiting' \subseteq waiting \cup {a} /\ late' \subseteq late
  /\ \/ ingress' = ingress
     \/ ~IngressFull /\ \E t : ingress' = Append(ingress, t)
     \/ \E j \in DrainEnds : ingress' = SubSeq(ingress, j + 1, Len(ingress))
  /\ next' = next \/ (next <= MaxLogs /\ next' = next + 1)
  /\ imported' = imported

\* A call of the application does no more than that.
LEMMA CallGoesOn ==
  ASSUME NEW a \in Writers, Call(a)
  PROVE  WriterGoesOn(a)
<1> USE DEF WriterGoesOn, WriterPcs, writerVars, queueVars, workerVars, condVars, historyVars, budgetVars,
       ingressSide, sendSide
<1>1. CASE \E kind \in Kinds, force \in Flushes : Write(a, kind, force)
  BY <1>1 DEF Write
<1>2. CASE CircuitOpen(a)
  BY <1>2 DEF CircuitOpen
<1>3. CASE \E kind : FlushCall(a, kind)
  BY <1>3 DEF FlushCall
<1>4. CASE Export(a)
  <2>0. PICK acc, own : acc = Unmerged /\ own = 0
    OBVIOUS
  <2>1. PICK j \in DrainEnds : ExportDrain(acc, own, j)
    BY <1>4, <2>0 DEF Export
  <2>2. (\E n : Signal(n)) /\ ingress' = SubSeq(ingress, j + 1, Len(ingress))
    BY <2>1, DrainLeaves
  <2>3. waiting' \subseteq waiting
    BY <2>2, SignalWakes
  <2>4. UNCHANGED <<pc, wpc, late, next, imported>>
    BY <1>4 DEF Export
  <2> QED
    BY <2>2, <2>3, <2>4
<1>5. CASE SwitchProducer(a)
  BY <1>5 DEF SwitchProducer
<1>6. CASE Close(a)
  BY <1>6 DEF Close, Broadcast
<1>7. CASE CloseTimeout(a)
  BY <1>7 DEF CloseTimeout, Return
<1> QED
  BY <1>1, <1>2, <1>3, <1>4, <1>5, <1>6, <1>7 DEF Call

\* Neither does a push.
LEMMA PushGoesOn ==
  ASSUME NEW a \in Writers, Push(a) \/ PushWaits(a) \/ (\E timeout : PushFails(a, timeout)),
         UNCHANGED <<wpc, next, imported>>
  PROVE  WriterGoesOn(a)
<1>1. CASE Push(a)
  <2>1. waiting' \subseteq waiting
    BY <1>1, SignalWakes DEF Push, Broadcast
  <2>2. /\ ~IngressFull /\ \E t : ingress' = Append(ingress, t)
        /\ late' \subseteq late /\ \E p \in {"drain", "idle"} : pc' = [pc EXCEPT ![a] = p]
    BY <1>1 DEF Push, Return
  <2> QED
    BY <2>1, <2>2 DEF WriterGoesOn, WriterPcs
<1>2. CASE PushWaits(a)
  BY <1>2 DEF PushWaits, WriterGoesOn, WriterPcs
<1>3. CASE \E timeout : PushFails(a, timeout)
  BY <1>3 DEF PushFails, FlushFails, Return, NoSignal, WriterGoesOn, WriterPcs
<1> QED
  BY <1>1, <1>2, <1>3

\* Nor any other step of a writer.
LEMMA WriterGoesAhead ==
  ASSUME NEW a \in Writers, WriterStep(a)
  PROVE  WriterGoesOn(a)
<1> USE DEF writerVars, queueVars, workerVars, condVars, historyVars, budgetVars, ingressSide, sendSide
<1>1. CASE WriteSpace(a)
  <2>1. UNCHANGED <<wpc, ingress, next, imported>>
    BY <1>1 DEF WriteSpace
  <2>2. CASE Refuse(a) /\ ((Closed) \/ GiveUp(a))
    <3>1. waiting' \subseteq waiting
      BY <2>2, GiveUpWakes
    <3> QED
      BY <2>1, <2>2, <3>1 DEF Refuse, Return, WriterGoesOn, WriterPcs
  <2>3. CASE Admit(a)
    <3>1. waiting' \subseteq waiting
      <4>1. waiting' = waiting \/ Signal(1) \/ Broadcast
        BY <2>3 DEF Admit, NoSignal
      <4> QED
        BY <4>1, SignalWakes DEF Broadcast
    <3>2. late' \subseteq late /\ \E p \in {"append", "copy", "idle"} : pc' = [pc EXCEPT ![a] = p]
      BY <2>3 DEF Admit, Return
    <3> QED
      BY <2>1, <3>1, <3>2 DEF WriterGoesOn, WriterPcs
  <2>4. CASE Sleep(a) /\ UNCHANGED <<pc, late>>
    BY <2>1, <2>4, SleepWaits DEF WriterGoesOn
  <2> QED
    BY <1>1, <2>2, <2>3, <2>4 DEF WriteSpace
<1>2. CASE RawCopied(a)
  <2>1. waiting' \subseteq waiting
    <3>1. waiting' = waiting \/ Signal(1) \/ Broadcast
      BY <1>2 DEF RawCopied, NoSignal
    <3> QED
      BY <3>1, SignalWakes DEF Broadcast
  <2>2. UNCHANGED <<wpc, ingress, next, imported>> /\ Return(a)
    BY <1>2 DEF RawCopied
  <2> QED
    BY <2>1, <2>2 DEF Return, WriterGoesOn, WriterPcs
<1>3. CASE TlsAppend(a)
  <2>1. UNCHANGED <<wpc, ingress, next, imported, waiting>>
    BY <1>3 DEF TlsAppend
  <2>2. late' \subseteq late /\ \E p \in {"flush", "idle"} : pc' = [pc EXCEPT ![a] = p]
    BY <1>3 DEF TlsAppend, Return
  <2> QED
    BY <2>1, <2>2 DEF WriterGoesOn, WriterPcs
<1>4. CASE FlushSpace(a)
  <2>1. UNCHANGED <<wpc, next, imported>>
    BY <1>4 DEF FlushSpace
  <2>2. CASE ExportMerge(a)
    <3>0. PICK acc, own : acc = MergeOne(Unmerged, [logs |-> tls[a], force |-> FALSE]) /\ own = Size(tls[a])
      OBVIOUS
    <3>1. PICK j \in DrainEnds : ExportDrain(acc, own, j)
      BY <2>2, <3>0 DEF ExportMerge
    <3>2. (\E n : Signal(n)) /\ ingress' = SubSeq(ingress, j + 1, Len(ingress))
      BY <3>1, DrainLeaves
    <3>3. waiting' \subseteq waiting
      BY <3>2, SignalWakes
    <3>4. Return(a)
      BY <2>2 DEF ExportMerge
    <3> QED
      BY <2>1, <3>2, <3>3, <3>4 DEF Return, WriterGoesOn, WriterPcs
  <2>3. CASE Push(a) \/ PushWaits(a) \/ PushFails(a, FALSE)
    BY <2>1, <2>3, PushGoesOn
  <2>4. CASE FlushFails(a) /\ ((Closed) \/ GiveUp(a))
    <3>1. waiting' \subseteq waiting
      BY <2>4, GiveUpWakes
    <3> QED
      BY <2>1, <2>4, <3>1 DEF FlushFails, Return, WriterGoesOn, WriterPcs
  <2>5. CASE Sleep(a) /\ pc' = [pc EXCEPT ![a] = "reflush"] /\ UNCHANGED <<late, ingress>>
    BY <2>1, <2>5, SleepWaits DEF WriterGoesOn, WriterPcs
  <2>6. CASE ExportRefused(a)
    BY <2>1, <2>6 DEF ExportRefused, FlushFails, Return, NoSignal, WriterGoesOn, WriterPcs
  <2> QED
    BY <1>4, <2>2, <2>3, <2>4, <2>5, <2>6 DEF FlushSpace
<1>5. CASE PushSpace(a)
  <2>1. UNCHANGED <<wpc, next, imported>>
    BY <1>5 DEF PushSpace
  <2> QED
    BY <1>5, <2>1, PushGoesOn DEF PushSpace
<1>6. CASE CloseDrained(a)
  BY <1>6 DEF CloseDrained, Broadcast, WriterGoesOn, WriterPcs
<1>7. CASE CloseJoin(a)
  BY <1>7 DEF CloseJoin, Return, WriterGoesOn, WriterPcs
<1> QED
  BY <1>1, <1>2, <1>3, <1>4, <1>5, <1>6, <1>7 DEF WriterStep

\* A step of a worker, as far as the threads go.
WorkerGoesOn(w) ==
  /\ wpc' = wpc \/ \E p \in WorkerPcs : wpc' = [wpc EXCEPT ![w] = p]
  /\ waiting' \subseteq waiting \cup {w} /\ late' \subseteq late
  /\ ingress' = ingress \/ ingress' = <<>>
  /\ UNCHANGED <<pc, next, imported>>

\* A worker without room.
LEMMA NoSpaceGoesOn ==
  ASSUME NEW w \in Workers, WorkerNoSpace(w), UNCHANGED <<pc, next, imported, ingress>>
  PROVE  WorkerGoesOn(w)
<1>1. CASE DropTask(w) /\ ((Closed) \/ GiveUp(w))
  <2>1. waiting' \subseteq waiting
    BY <1>1, GiveUpWakes
  <2> QED
    BY <1>1, <2>1 DEF DropTask, AfterTask, WorkerGoesOn, WorkerPcs
<1>2. CASE Sleep(w) /\ UNCHANGED <<wpc, late>>
  BY <1>2, SleepWaits DEF WorkerGoesOn
<1> QED
  BY <1>1, <1>2 DEF WorkerNoSpace

\* A worker does no more than that.
LEMMA WorkerGoesAhead ==
  ASSUME NEW w \in Workers, WorkerStep(w)
  PROVE  WorkerGoesOn(w)
<1> USE DEF writerVars, queueVars, workerVars, condVars, historyVars, budgetVars, ingressSide, sendSide
<1>1. UNCHANGED <<pc, next, imported>> /\ (ingress' = ingress \/ ingress' = <<>>)
  BY DEF WorkerStep, WorkerWait, WorkerTimer, WorkerExit, WorkerRound, WorkerItem, WorkerBatch,
     WorkerPrepare, WorkerCompress, WorkerReserve, WorkerPut, WorkerRelease
<1>2. CASE \/ WorkerWait(w) \/ WorkerTimer(w) \/ WorkerExit(w) \/ WorkerBatch(w)
  BY <1>1, <1>2 DEF WorkerWait, WorkerTimer, WorkerExit, WorkerBatch, WorkerGoesOn, WorkerPcs, TaskPcs
<1>3. CASE WorkerRound(w) \/ WorkerItem(w) \/ WorkerRelease(w)
  <2>1. \E n : Signal(n)
    BY <1>3 DEF WorkerRound, WorkerItem, WorkerRelease
  <2>2. waiting' \subseteq waiting
    BY <2>1, SignalWakes
  <2>3. late' = late /\ \E p \in {"items", "prepare", "batches"} : wpc' = [wpc EXCEPT ![w] = p]
    BY <1>3 DEF WorkerRound, WorkerItem, WorkerRelease
  <2> QED
    BY <1>1, <2>2, <2>3 DEF WorkerGoesOn, WorkerPcs, TaskPcs
<1>4. CASE WorkerPrepare(w) \/ WorkerReserve(w)
  <2>1. ingress' = ingress
    BY <1>4 DEF WorkerPrepare, WorkerReserve
  <2>2. CASE WorkerNoSpace(w)
    BY <1>1, <2>1, <2>2, NoSpaceGoesOn
  <2>3. CASE ~WorkerNoSpace(w)
    BY <1>1, <1>4, <2>3 DEF WorkerPrepare, WorkerReserve, NoSignal, WorkerGoesOn, WorkerPcs, TaskPcs
  <2> QED
    BY <2>2, <2>3
<1>5. CASE WorkerCompress(w)
  BY <1>1, <1>5 DEF WorkerCompress, Broadcast, DropTask, AfterTask, WorkerGoesOn, WorkerPcs, TaskPcs
<1>6. CASE WorkerPut(w)
  BY <1>1, <1>6 DEF WorkerPut, Broadcast, NoSignal, DropTask, AfterTask, WorkerGoesOn, WorkerPcs, TaskPcs
<1> QED
  BY <1>2, <1>3, <1>4, <1>5, <1>6 DEF WorkerStep

\* Every step keeps the threads where threads are.
LEMMA ThreadStep == LogInv /\ ThreadInv /\ [IngressNext]_ingressVars => ThreadInv'
<1> SUFFICES ASSUME LogInv, ThreadInv, [IngressNext]_ingressVars
             PROVE  ThreadInv'
  OBVIOUS
<1>0. MaxLogs \in Nat /\ IngressCap \in Nat
  BY IngressAssumption
<1>1. Len(ingress) \in Nat /\ \A t : Len(Append(ingress, t)) = Len(ingress) + 1
  <2>1. PICK S : ingress \in Seq(S)
    BY DEF LogInv, Placed, QueuesHave
  <2>2. ASSUME NEW t
        PROVE  Len(Append(ingress, t)) = Len(ingress) + 1
    <3>1. ingress \in Seq(S \cup {t})
      BY <2>1, SeqMonotonic
    <3> QED
      BY <3>1
  <2> QED
    BY <2>1, <2>2
<1>2. Len(<<>>) = 0
  OBVIOUS
<1>3. ASSUME NEW a \in Writers, WriterGoesOn(a)
      PROVE  ThreadInv'
  <2>0. ASSUME NEW j \in DrainEnds
        PROVE  Len(SubSeq(ingress, j + 1, Len(ingress))) <= Len(ingress)
    <3>1. PICK S : ingress \in Seq(S)
      BY DEF LogInv, Placed, QueuesHave
    <3>2. j \in 1..(Len(ingress) + 1) /\ Len(ingress) \in Nat
      BY <3>1, DrainEnd
    <3> QED
      BY <3>1, <3>2
  <2>1. Len(ingress') <= IngressCap
    <3>1. CASE ingress' = ingress
      BY <3>1 DEF ThreadInv
    <3>2. CASE ~IngressFull /\ \E t : ingress' = Append(ingress, t)
      BY <1>0, <1>1, <3>2 DEF ThreadInv, IngressFull
    <3>3. CASE \E j \in DrainEnds : ingress' = SubSeq(ingress, j + 1, Len(ingress))
      <4>1. Len(ingress') <= Len(ingress) /\ Len(ingress') \in Nat
        <5>1. PICK S : ingress \in Seq(S)
          BY DEF LogInv, Placed, QueuesHave
        <5>2. PICK j \in DrainEnds : ingress' = SubSeq(ingress, j + 1, Len(ingress))
          BY <3>3
        <5>3. j \in 1..(Len(ingress) + 1)
          BY <5>1, DrainEnd
        <5>4. ingress' \in Seq(S)
          BY <5>1, <5>2, <5>3
        <5> QED
          BY <2>0, <5>2, <5>4
      <4> QED
        BY <1>0, <1>1, <4>1 DEF ThreadInv
    <3> QED
      BY <1>3, <3>1, <3>2, <3>3 DEF WriterGoesOn
  <2>2. next' \in 1..(MaxLogs + 1)
    BY <1>0, <1>3 DEF WriterGoesOn, ThreadInv
  <2> QED
    BY <1>3, <2>1, <2>2 DEF WriterGoesOn, ThreadInv
<1>4. ASSUME NEW w \in Workers, WorkerGoesOn(w)
      PROVE  ThreadInv'
  <2>1. Len(ingress') <= IngressCap
    BY <1>0, <1>1, <1>2, <1>4 DEF WorkerGoesOn, ThreadInv
  <2> QED
    BY <1>4, <2>1 DEF WorkerGoesOn, ThreadInv
<1> USE DEF writerVars, queueVars, workerVars, condVars, historyVars, budgetVars, ingressSide, sendSide
<1>5. CASE ImportItem
  <2>1. waiting' \subseteq waiting
    BY <1>5, SignalWakes DEF ImportItem, NoSignal
  <2>2. next' \in 1..(MaxLogs + 1)
    BY <1>0, <1>5 DEF ImportItem, ThreadInv
  <2>3. UNCHANGED <<pc, wpc, late, ingress>> /\ imported' = TRUE
    BY <1>5 DEF ImportItem, Import
  <2> QED
    BY <2>1, <2>2, <2>3 DEF ThreadInv
<1>6. CASE SenderStep \/ Flush \/ (\E k \in DOMAIN builder : IntervalOver(k)) \/ UNCHANGED ingressVars
  <2>1. UNCHANGED <<pc, wpc, late, ingress, next, imported>> /\ waiting' \subseteq waiting
    BY <1>6 DEF SenderStep, SenderTake, SenderDone, Flush, IntervalOver, ingressVars, Broadcast
  <2> QED
    BY <2>1 DEF ThreadInv
<1>7. CASE \E th \in Writers \cup Workers : Deadline(th)
  BY <1>7 DEF Deadline, ThreadInv
<1> QED
  BY <1>3, <1>4, <1>5, <1>6, <1>7, CallGoesOn, WriterGoesAhead, WorkerGoesAhead DEF IngressNext

\* The counters are natural numbers.
LEMMA CountersNat == LogInv => {tlsB, ingressB, queueB, sendB, inflightB, scratchB} \subseteq Nat
<1> SUFFICES ASSUME LogInv
             PROVE  {tlsB, ingressB, queueB, sendB, inflightB, scratchB} \subseteq Nat
  OBVIOUS
<1>1. PICK at, by : Placed(at, by) /\ Counted(at, wpc, task, tlsB, ingressB, queueB, sendB, inflightB, scratchB)
  BY DEF LogInv
<1>2. tlsB \in Nat /\ ingressB \in Nat /\ queueB \in Nat /\ sendB \in Nat /\ inflightB \in Nat
  BY <1>1, TaggedSize, CarriedSize DEF Counted
<1>3. scratchB \in Nat
  <2>1. IsFiniteSet(Packing(wpc))
    BY IngressAssumption, FS_Subset DEF Packing
  <2>2. PICK n, c : n = Cardinality(Packing(wpc)) /\ c = Cardinality(Carried(wpc, task, "compress"))
    OBVIOUS
  <2>3. n \in Nat /\ c \in Nat /\ Scratch \in Nat
    BY <2>1, <2>2, FS_CardinalityType, CarriedSize, IngressAssumption
  <2>4. Scratch * n \in Nat
    BY <2>3
  <2>5. scratchB = c + Scratch * n
    BY <1>1, <2>2 DEF Counted
  <2> QED
    BY <2>3, <2>4, <2>5
<1> QED
  BY <1>2, <1>3

\* A log that has been written is where the placement says.
LEMMA WrittenIsSomewhere ==
  ASSUME LogInv, NEW l \in Logs, l < next
  PROVE  l \in answered \cup lost \cup UNION Places
<1>1. PICK at, by : Placed(at, by)
  BY DEF LogInv
<1>2. at[l] \in Tags /\ at[l] # "new"
  <2>1. next \in Nat /\ (at[l] = "new" <=> l >= next) /\ l \in Nat
    BY <1>1 DEF Placed, HistoryHas, Logs
  <2> QED
    BY <1>1, <2>1 DEF Placed
<1>3. ASSUME NEW P \in Places, l \in P
      PROVE  l \in answered \cup lost \cup UNION Places
  BY <1>3
<1>4. CASE at[l] \in LogPcs
  <2>1. PICK P : P = {req[a].log : a \in {v \in Writers : pc[v] \in {"space", "copy", "append"}}}
    OBVIOUS
  <2>2. PICK a \in Writers : by[l] = a
    BY <1>1, <1>4 DEF Placed, LogPcs, WriterTags
  <2>3. pc[a] \in LogPcs /\ req[a].log = l
    BY <1>1, <1>4, <2>2 DEF Placed, WriterHas
  <2>4. P \in Places /\ l \in P
    BY <2>1, <2>3 DEF Places, LogPcs
  <2> QED
    BY <1>3, <2>4
<1>5. CASE at[l] = "tls"
  <2>1. PICK P : P = UNION {tls[a] : a \in Writers}
    OBVIOUS
  <2>2. PICK a \in Writers : by[l] = a
    BY <1>1, <1>5 DEF Placed, WriterTags
  <2>3. l \in tls[a]
    BY <1>1, <1>5, <2>2 DEF Placed, WriterHas
  <2>4. P \in Places /\ l \in P
    BY <2>1, <2>3 DEF Places
  <2> QED
    BY <1>3, <2>4
<1>6. CASE at[l] = "ingress"
  <2>1. PICK P : P = UNION {ingress[i].logs : i \in DOMAIN ingress}
    OBVIOUS
  <2>2. PICK i \in DOMAIN ingress : l \in ingress[i].logs
    BY <1>1, <1>6 DEF Placed, QueuesHave
  <2>3. P \in Places /\ l \in P
    BY <2>1, <2>2 DEF Places
  <2> QED
    BY <1>3, <2>3
<1>7. CASE at[l] = "item"
  <2>1. l \in ToSet(items)
    BY <1>1, <1>7 DEF Placed, QueuesHave, ToSet
  <2> QED
    BY <1>3, <2>1 DEF Places
<1>8. CASE at[l] \in {"default", "key"}
  <2>1. l \in builder["default"] \/ l \in builder["key"]
    BY <1>1, <1>8 DEF Placed, QueuesHave
  <2>2. builder["default"] \in Places /\ builder["key"] \in Places
    BY DEF Places
  <2> QED
    BY <1>3, <2>1, <2>2
<1>9. CASE at[l] = "sealed"
  <2>1. PICK i \in 1..Len(sealed) : l \in sealed[i]
    BY <1>1, <1>9 DEF Placed, QueuesHave, Within
  <2>2. sealed[i] \in ToSet(sealed)
    BY <1>1 DEF Placed, QueuesHave, ToSet
  <2>3. l \in UNION ToSet(sealed) /\ UNION ToSet(sealed) \in Places
    BY <2>1, <2>2 DEF Places
  <2> QED
    BY <1>3, <2>3
<1>10. CASE at[l] = "list"
  <2>1. PICK P : P = UNION {UNION ToSet(wlist[w]) : w \in Workers}
    OBVIOUS
  <2>2. PICK w \in Workers : by[l] = w
    BY <1>1, <1>10 DEF Placed, WorkerTags
  <2>3. PICK i \in 1..Len(wlist[w]) : l \in wlist[w][i]
    BY <1>1, <1>10, <2>2 DEF Placed, WorkerHas
  <2>4. wlist[w][i] \in ToSet(wlist[w])
    BY <1>1 DEF Placed, WorkerHas, ToSet
  <2>5. l \in UNION ToSet(wlist[w])
    BY <2>3, <2>4
  <2>6. P \in Places /\ l \in P
    BY <2>1, <2>5 DEF Places
  <2> QED
    BY <1>3, <2>6
<1>11. CASE at[l] = "task"
  <2>1. PICK P : P = UNION {task[w] : w \in {v \in Workers : wpc[v] \in {"prepare", "compress", "reserve", "put"}
                                                              /\ ~FromList(v)}}
    OBVIOUS
  <2>2. PICK w \in Workers : by[l] = w
    BY <1>1, <1>11 DEF Placed, WorkerTags
  <2>3. wpc[w] \in TaskPcs /\ ~First(wlist[w], task[w]) /\ l \in task[w]
    BY <1>1, <1>11, <2>2 DEF Placed, WorkerHas
  <2>4. w \in {v \in Workers : wpc[v] \in {"prepare", "compress", "reserve", "put"} /\ ~FromList(v)}
    BY <2>3 DEF TaskPcs, First, FromList
  <2>5. P \in Places /\ l \in P
    BY <2>1, <2>3, <2>4 DEF Places
  <2> QED
    BY <1>3, <2>5
<1>12. CASE at[l] \in SenderTags
  <2>1. l \in UNION sendq \/ l \in UNION inflight
    BY <1>1, <1>12 DEF Placed, SendersHave, SenderTags
  <2>2. UNION sendq \in Places /\ UNION inflight \in Places
    BY DEF Places
  <2> QED
    BY <1>3, <2>1, <2>2
<1>13. CASE at[l] = "done"
  BY <1>1, <1>13 DEF Placed, HistoryHas
<1> QED
  BY <1>2, <1>4, <1>5, <1>6, <1>7, <1>8, <1>9, <1>10, <1>11, <1>12, <1>13
  DEF Tags, WriterTags, QueueTags, WorkerTags, LogPcs

\* The types follow from the placement and from where the threads are.
LEMMA IngressTypes == LogInv /\ ThreadInv => IngressTypeOK
<1> SUFFICES ASSUME LogInv, ThreadInv
             PROVE  IngressTypeOK
  OBVIOUS
<1>1. BudgetTypeOK
  BY CountersNat DEF ThreadInv, BudgetTypeOK
<1>2. tls \in [Writers -> SUBSET Logs]
  BY DEF LogInv, Shaped
<1>3. ToSet(items) \subseteq Logs
  <2>1. items \in Seq(Logs)
    BY DEF LogInv, Placed, QueuesHave
  <2> QED
    BY <2>1 DEF ToSet
<1> QED
  BY <1>1, <1>2, <1>3 DEF ThreadInv, IngressTypeOK, WriterPcs, WorkerPcs, TaskPcs

\* Both hold in the first state.
LEMMA ThreadInit == IngressInit => ThreadInv
<1> SUFFICES ASSUME IngressInit
             PROVE  ThreadInv
  OBVIOUS
<1>1. MaxLogs \in Nat /\ IngressCap \in Nat
  BY IngressAssumption
<1>2. Len(ingress) = 0 /\ imported = FALSE
  BY DEF IngressInit, BudgetInit
<1>3. next \in 1..(MaxLogs + 1) /\ Len(ingress) <= IngressCap
  BY <1>1, <1>2 DEF IngressInit
<1> QED
  BY <1>2, <1>3 DEF IngressInit, ThreadInv, WriterPcs, WorkerPcs

\* Every log has its place at all times, and every thread is somewhere.
LEMMA PlacesHold == IngressSpec => [](LogInv /\ ThreadInv)
<1>1. IngressInit => LogInv /\ ThreadInv
  BY LogInit, ThreadInit
<1>2. LogInv /\ ThreadInv /\ [IngressNext]_ingressVars => (LogInv /\ ThreadInv)'
  BY LogStep, ThreadStep
<1> QED
  BY <1>1, <1>2, PTL DEF IngressSpec

\* Every counter of the budget is exactly the size of what it stands for, on
\* every way that a log can take: no path releases too little, twice, or
\* before the bytes are gone.
THEOREM CountersStayExact == IngressSpec => []CountersExact
BY PlacesHold, CountersFollow, PTL

\* Every log that was written is in one of the places of the producer, was
\* answered, or was dropped in a batch that the code frees without a callback:
\* the batch of a thread that cannot be flushed or turns to another producer,
\* or the batch with which an export fails at the key limit.
THEOREM EveryLogAccounted == IngressSpec => []Accounted
<1>1. LogInv /\ ThreadInv => Accounted
  <2> SUFFICES ASSUME LogInv, ThreadInv
               PROVE  Accounted
    OBVIOUS
  <2>1. IngressTypeOK
    BY IngressTypes
  <2>2. ASSUME NEW l \in 1..(next - 1)
        PROVE  l \in answered \cup lost \cup UNION Places
    <3>1. MaxLogs \in Nat
      BY IngressAssumption
    <3>2. l \in Logs /\ l < next
      BY <3>1 DEF ThreadInv, Logs
    <3> QED
      BY <3>2, WrittenIsSomewhere
  <2> QED
    BY <2>1, <2>2 DEF Accounted
<1> QED
  BY <1>1, PlacesHold, PTL

-----------------------------------------------------------------------------
(* The producer keeps to the budget.                                       *)

\* The counters and the bytes that move are natural numbers.
CountersTyped == {tlsB, ingressB, queueB, sendB, inflightB, scratchB} \subseteq Nat

\* A release takes no counter below 0.
LEMMA LessType ==
  ASSUME NEW c \in Nat, NEW n \in Nat
  PROVE  Less(c, n) \in Nat /\ Less(c, n) \leq c
BY DEF Less

\* What moves between the counters has a size.
LEMMA SizesTyped ==
  ASSUME LogInv
  PROVE  /\ \A a \in Writers : Size(tls[a]) \in Nat
         /\ \A w \in Workers : Size(task[w]) \in Nat /\ ScratchBytes(task[w]) \in Nat
<1>1. PICK at, by : Placed(at, by)
  BY DEF LogInv
<1>2. ASSUME NEW a \in Writers
      PROVE  Size(tls[a]) \in Nat
  <2>1. tls[a] \in SUBSET Logs
    BY DEF LogInv, Shaped
  <2> QED
    BY <2>1, LogsFinite DEF Size
<1>3. ASSUME NEW w \in Workers
      PROVE  Size(task[w]) \in Nat /\ ScratchBytes(task[w]) \in Nat
  <2>1. task[w] \in SUBSET Logs
    BY <1>1 DEF Placed, WorkerHas
  <2>2. Cardinality(task[w]) \in Nat /\ Scratch \in Nat
    BY <2>1, LogsFinite, IngressAssumption
  <2> QED
    BY <2>2 DEF Size, ScratchBytes
<1> QED
  BY <1>2, <1>3

\* A merge counts no batch of the ingress queue that ingress_queue_bytes does not.
LEMMA IngressSizesBound ==
  ASSUME LogInv, NEW S, S \subseteq DOMAIN ingress
  PROVE  AllSize = ingressB /\ IngressSizes(S) \in Nat /\ IngressSizes(S) \leq AllSize
<1>1. PICK at, by : Placed(at, by) /\ Counted(at, wpc, task, tlsB, ingressB, queueB, sendB, inflightB, scratchB)
  BY DEF LogInv
<1>2. QueuesHave(at, ingress, items, builder, sealed)
  BY <1>1 DEF Placed
<1>3. DOMAIN ingress = 1..Len(ingress) /\ AllSize = Cardinality(Tagged(at, {"ingress"}))
  BY <1>2, AllSizeIs
<1>4. PICK U : U = {l \in Logs : \E i \in S : l \in ingress[i].logs}
  OBVIOUS
<1>5. IngressSizes(S) = Cardinality(U)
  BY <1>2, <1>3, <1>4, IngressSizesOf
<1>6. U \in SUBSET Tagged(at, {"ingress"}) /\ U \in SUBSET Logs
  BY <1>2, <1>3, <1>4 DEF Tagged, QueuesHave
<1>7. IsFiniteSet(Tagged(at, {"ingress"}))
  BY TaggedSize, LogsFinite
<1>8. Cardinality(U) \in Nat /\ Cardinality(U) \leq Cardinality(Tagged(at, {"ingress"}))
  BY <1>6, <1>7, FS_Subset, LogsFinite
<1> QED
  BY <1>1, <1>3, <1>5, <1>8 DEF Counted

\* Fewer batches have no more bytes.
LEMMA IngressSizesGrow ==
  ASSUME LogInv, NEW T, T \subseteq DOMAIN ingress, NEW S, S \subseteq T
  PROVE  IngressSizes(S) \in Nat /\ IngressSizes(T) \in Nat /\ IngressSizes(S) \leq IngressSizes(T)
<1>1. PICK at, by : Placed(at, by)
  BY DEF LogInv
<1>2. QueuesHave(at, ingress, items, builder, sealed)
  BY <1>1 DEF Placed
<1>3. T \subseteq 1..Len(ingress) /\ S \subseteq 1..Len(ingress)
  BY <1>2, AllSizeIs
<1>4. PICK U, V : /\ U = {l \in Logs : \E i \in S : l \in ingress[i].logs}
                  /\ V = {l \in Logs : \E i \in T : l \in ingress[i].logs}
  OBVIOUS
<1>5. IngressSizes(S) = Cardinality(U) /\ IngressSizes(T) = Cardinality(V)
  BY <1>2, <1>3, <1>4, IngressSizesOf
<1>6. U \in SUBSET V /\ U \in SUBSET Logs /\ V \in SUBSET Logs
  BY <1>4
<1>7. IsFiniteSet(V) /\ Cardinality(U) \in Nat /\ Cardinality(V) \in Nat
  BY <1>6, LogsFinite
<1>8. Cardinality(U) \leq Cardinality(V)
  BY <1>6, <1>7, FS_Subset
<1> QED
  BY <1>5, <1>7, <1>8

\* The drain of an export takes n bytes from the ingress queue and gives k of
\* them to the builders.
LEMMA DrainMoves ==
  ASSUME LogInv, CountersTyped, NEW acc, NEW own, NEW j \in DrainEnds, ExportDrain(acc, own, j)
  PROVE  \E n, k \in Nat : /\ k \leq n /\ n \leq ingressB
                           /\ ingressB' = ingressB - n /\ queueB' = queueB + own + k
<1>1. PICK S : ingress \in Seq(S)
  BY DEF LogInv, Placed, QueuesHave
<1>2. j \in 1..(Len(ingress) + 1) /\ Len(ingress) \in Nat /\ DOMAIN ingress = 1..Len(ingress)
  BY <1>1, DrainEnd
<1>3. PICK P, K : P = DOMAIN ingress \cap 1..j /\ K = 1..(j - 1)
  OBVIOUS
<1>4. P \subseteq DOMAIN ingress /\ K \subseteq P
  BY <1>2, <1>3
<1>5. /\ AllSize = ingressB /\ IngressSizes(P) \leq AllSize
      /\ IngressSizes(K) \in Nat /\ IngressSizes(P) \in Nat /\ IngressSizes(K) \leq IngressSizes(P)
  BY <1>4, IngressSizesBound, IngressSizesGrow
<1>6. ingressB' = Less(ingressB, IngressSizes(P)) /\ queueB' = queueB + own + IngressSizes(K)
  BY <1>3, Zenon DEF ExportDrain
<1>7. PICK n, k : n = IngressSizes(P) /\ k = IngressSizes(K)
  OBVIOUS
<1>8. n \in Nat /\ k \in Nat /\ k \leq n /\ n \leq ingressB
  BY <1>5, <1>7
<1>9. ingressB' = Less(ingressB, n) /\ queueB' = queueB + own + k
  BY <1>6, <1>7
<1>10. ingressB' = ingressB - n
  BY <1>8, <1>9 DEF Less, CountersTyped
<1> QED
  BY <1>8, <1>9, <1>10

\* A task in the send queue is counted there.
LEMMA TaskCounted ==
  ASSUME LogInv, NEW b \in sendq
  PROVE  Size(b) \in Nat /\ Size(b) \leq sendB
<1>1. PICK at, by : Placed(at, by) /\ Counted(at, wpc, task, tlsB, ingressB, queueB, sendB, inflightB, scratchB)
  BY DEF LogInv
<1>2. b \in SUBSET Logs /\ b \in SUBSET Tagged(at, {"sendq"})
  BY <1>1 DEF Placed, SendersHave, Tagged
<1>3. IsFiniteSet(Tagged(at, {"sendq"})) /\ Cardinality(Tagged(at, {"sendq"})) \in Nat
  BY TaggedSize, LogsFinite
<1>4. Cardinality(b) \in Nat /\ Cardinality(b) \leq Cardinality(Tagged(at, {"sendq"}))
  BY <1>2, <1>3, FS_Subset, LogsFinite
<1>5. Cardinality(Carried(wpc, task, "put")) \in Nat
  BY CarriedSize
<1> QED
  BY <1>1, <1>3, <1>4, <1>5 DEF Counted, Size

\* Logs move on on the side of the writers.
MovesOn ==
  /\ tlsB' \leq tlsB
  /\ tlsB' + ingressB' \leq tlsB + ingressB
  /\ tlsB' + ingressB' + queueB' \leq tlsB + ingressB + queueB
  /\ UNCHANGED <<sendB, inflightB, scratchB, imported>>

\* A step of the budget, or none.
BudgetGoes == [BudgetNext]_budgetVars

\* Such a move is one that the budget allows.
LEMMA MovesForward ==
  ASSUME CountersTyped', MovesOn
  PROVE  BudgetGoes
<1>1. Forward
  BY DEF Forward, MovesOn, CountersTyped, sendSide
<1> QED
  BY <1>1 DEF BudgetNext, BudgetGoes

\* A writer is admitted.
LEMMA AdmitsLog ==
  ASSUME CountersTyped, imported \in BOOLEAN, HasSpaceForLog(1),
         \/ tlsB' = tlsB + 1 /\ UNCHANGED queueB
         \/ queueB' = queueB + 1 /\ UNCHANGED tlsB,
         UNCHANGED <<ingressB, sendB, inflightB, scratchB, imported>>
  PROVE  BudgetGoes
<1>1. BudgetTypeOK
  BY DEF BudgetTypeOK, CountersTyped
<1>2. IngressBytes \in Nat /\ SendSideBytes \in Nat
  BY <1>1, SumsExact
<1>3. 1 \in 0..MaxBuffer
  BY <1>2, BudgetAssumption DEF HasSpaceForLog, Fits
<1>4. AdmitLog(1)
  BY DEF AdmitLog, sendSide
<1> QED
  BY <1>3, <1>4 DEF BudgetNext, BudgetGoes

\* A worker is.
LEMMA AdmitsSend ==
  ASSUME CountersTyped, imported \in BOOLEAN, NEW n \in Nat, HasSpaceForSend(n),
         \/ sendB' = sendB + n /\ UNCHANGED scratchB
         \/ scratchB' = scratchB + n /\ UNCHANGED sendB,
         UNCHANGED <<tlsB, ingressB, queueB, inflightB, imported>>
  PROVE  BudgetGoes
<1>1. BudgetTypeOK
  BY DEF BudgetTypeOK, CountersTyped
<1>2. BufferedBytes \in Nat
  BY <1>1, SumsExact
<1>3. n \in 0..MaxBuffer
  BY <1>2, BudgetAssumption DEF HasSpaceForSend, Fits
<1>4. AdmitSend(n)
  BY DEF AdmitSend, ingressSide
<1> QED
  BY <1>3, <1>4 DEF BudgetNext, BudgetGoes

\* Memory of the send side moves on or is released.
LEMMA SendsForward ==
  ASSUME CountersTyped', sendB' \leq sendB, scratchB' \leq scratchB, sendB' + inflightB' \leq sendB + inflightB,
         UNCHANGED <<tlsB, ingressB, queueB, imported>>
  PROVE  BudgetGoes
<1>1. SendForward
  BY DEF SendForward, CountersTyped, ingressSide
<1> QED
  BY <1>1 DEF BudgetNext, BudgetGoes

\* Nothing moves.
LEMMA BudgetStays ==
  ASSUME UNCHANGED <<tlsB, ingressB, queueB, sendB, inflightB, scratchB, imported>>
  PROVE  BudgetGoes
BY DEF budgetVars, ingressSide, sendSide, BudgetGoes

\* The counters after a step are natural numbers.
LEMMA CountersTypedNext == LogInv' => CountersTyped'
<1>1. LogInv => CountersTyped
  BY CountersNat DEF CountersTyped
<1> QED
  BY <1>1, PTL

\* The steps of WriteSpace.
LEMMA SpaceInBudget ==
  ASSUME CountersTyped, imported \in BOOLEAN, NEW a \in Writers, WriteSpace(a)
  PROVE  BudgetGoes
<1>1. UNCHANGED <<ingressB, sendB, inflightB, scratchB, imported>>
  BY DEF WriteSpace, sendSide
<1>2. CASE HasSpaceForLog(1) /\ Admit(a)
  <2>1. \/ tlsB' = tlsB + 1 /\ UNCHANGED queueB
        \/ queueB' = queueB + 1 /\ UNCHANGED tlsB
        \/ UNCHANGED <<tlsB, queueB>>
    BY <1>2, Zenon DEF Admit
  <2> QED
    BY <1>1, <1>2, <2>1, AdmitsLog, BudgetStays
<1>3. CASE UNCHANGED <<tlsB, queueB>>
  BY <1>1, <1>3, BudgetStays
<1>4. (HasSpaceForLog(1) /\ Admit(a)) \/ UNCHANGED <<tlsB, queueB>>
  BY Zenon DEF WriteSpace, Refuse
<1> QED
  BY <1>2, <1>3, <1>4

\* What a flush does to the counters.
LEMMA FlushMoves ==
  ASSUME LogInv, CountersTyped, NEW a \in Writers,
         ExportMerge(a) \/ Push(a) \/ PushWaits(a) \/ FlushFails(a),
         UNCHANGED <<sendB, inflightB, scratchB, imported>>
  PROVE  MovesOn
<1>1. Size(tls[a]) \in Nat
  BY SizesTyped
<1>3. CASE ExportMerge(a)
  <2>1. PICK acc, own : acc = MergeOne(Unmerged, [logs |-> tls[a], force |-> FALSE]) /\ own = Size(tls[a])
    OBVIOUS
  <2>2. (\E j \in DrainEnds : ExportDrain(acc, own, j)) /\ tlsB' = tlsB - own
    BY <1>3, <2>1, Zenon DEF ExportMerge
  <2>3. PICK n, k \in Nat : /\ k \leq n /\ n \leq ingressB
                            /\ ingressB' = ingressB - n /\ queueB' = queueB + own + k
    BY <2>2, DrainMoves
  <2>4. own \in Nat
    BY <1>1, <2>1
  <2> QED
    BY <2>2, <2>3, <2>4 DEF MovesOn, CountersTyped
<1>4. CASE Push(a)
  <2>1. tlsB' = tlsB - Size(tls[a]) /\ ingressB' = ingressB + Size(tls[a]) /\ queueB' = queueB
    BY <1>4, Zenon DEF Push
  <2> QED
    BY <1>1, <2>1 DEF MovesOn, CountersTyped
<1>5. CASE PushWaits(a)
  BY <1>5 DEF PushWaits, MovesOn, CountersTyped
<1>6. CASE FlushFails(a)
  <2>1. UNCHANGED <<ingressB, queueB>> /\ (tlsB' = tlsB - Size(tls[a]) \/ UNCHANGED tlsB)
    BY <1>6, Zenon DEF FlushFails
  <2> QED
    BY <1>1, <2>1 DEF MovesOn, CountersTyped
<1> QED
  BY <1>3, <1>4, <1>5, <1>6

\* A thread of the application keeps to the budget.
LEMMA WriterInBudget ==
  ASSUME LogInv, CountersTyped, CountersTyped', imported \in BOOLEAN,
         NEW a \in Writers, Call(a) \/ WriterStep(a)
  PROVE  BudgetGoes
<1>1. CASE UNCHANGED budgetVars
  BY <1>1 DEF BudgetGoes
<1>2. CASE WriteSpace(a)
  BY <1>2, SpaceInBudget
<1>3. CASE RawCopied(a)
  <2>1. UNCHANGED <<tlsB, ingressB, sendB, inflightB, scratchB, imported>>
    BY <1>3 DEF RawCopied, sendSide
  <2>2. queueB' = Less(queueB, 1) \/ UNCHANGED queueB
    BY <1>3, Zenon DEF RawCopied
  <2>3. MovesOn
    BY <2>1, <2>2 DEF MovesOn, CountersTyped, Less
  <2> QED
    BY <2>3, MovesForward
<1>4. CASE FlushSpace(a)
  <2>1. UNCHANGED <<sendB, inflightB, scratchB, imported>>
    BY <1>4 DEF FlushSpace, sendSide
  <2>2. \/ ExportMerge(a) \/ Push(a) \/ PushWaits(a) \/ FlushFails(a)
        \/ UNCHANGED <<tlsB, ingressB, queueB>>
    BY <1>4, Zenon DEF FlushSpace, PushFails, ExportRefused
  <2> QED
    BY <2>1, <2>2, FlushMoves, MovesForward, BudgetStays
<1>5. CASE PushSpace(a)
  <2>1. UNCHANGED <<sendB, inflightB, scratchB, imported>>
    BY <1>5 DEF PushSpace, sendSide
  <2>2. Push(a) \/ PushWaits(a) \/ FlushFails(a)
    BY <1>5, Zenon DEF PushSpace, PushFails
  <2> QED
    BY <2>1, <2>2, FlushMoves, MovesForward
<1>6. CASE Export(a)
  <2>1. PICK acc, own : acc = Unmerged /\ own = 0
    OBVIOUS
  <2>2. /\ UNCHANGED <<tlsB, sendB, inflightB, scratchB, imported>>
        /\ \E j \in DrainEnds : ExportDrain(acc, own, j)
    BY <1>6, <2>1, Zenon DEF Export, sendSide
  <2>3. PICK n, k \in Nat : /\ k \leq n /\ n \leq ingressB
                            /\ ingressB' = ingressB - n /\ queueB' = queueB + own + k
    BY <2>2, DrainMoves
  <2>4. MovesOn
    BY <2>1, <2>2, <2>3 DEF MovesOn, CountersTyped
  <2> QED
    BY <2>4, MovesForward
<1>7. CASE SwitchProducer(a)
  <2>1. UNCHANGED <<ingressB, queueB, sendB, inflightB, scratchB, imported>> /\ tlsB' = tlsB - Size(tls[a])
    BY <1>7 DEF SwitchProducer, sendSide
  <2>2. Size(tls[a]) \in Nat
    BY SizesTyped
  <2>3. MovesOn
    BY <2>1, <2>2 DEF MovesOn, CountersTyped
  <2> QED
    BY <2>3, MovesForward
<1>8. \/ WriteSpace(a) \/ RawCopied(a) \/ FlushSpace(a) \/ PushSpace(a) \/ Export(a) \/ SwitchProducer(a)
      \/ UNCHANGED budgetVars
  BY Zenon DEF Call, WriterStep, Write, CircuitOpen, FlushCall, Close, CloseTimeout, TlsAppend, CloseDrained, CloseJoin
<1> QED
  BY <1>1, <1>2, <1>3, <1>4, <1>5, <1>6, <1>7, <1>8

\* So does a worker.
LEMMA WorkerInBudget ==
  ASSUME LogInv, CountersTyped, CountersTyped', imported \in BOOLEAN, NEW w \in Workers, WorkerStep(w)
  PROVE  BudgetGoes
<1>1. CASE UNCHANGED budgetVars
  BY <1>1 DEF BudgetGoes
<1>2. Size(task[w]) \in Nat /\ ScratchBytes(task[w]) \in Nat
  BY SizesTyped
<1>3. CASE WorkerRound(w)
  <2>1. /\ UNCHANGED <<tlsB, sendB, inflightB, scratchB, imported>>
        /\ \E failed \in SUBSET (IF KeyLimit THEN DOMAIN ingress ELSE {}) :
             ingressB' = Less(ingressB, AllSize) /\ queueB' = queueB + IngressSizes(DOMAIN ingress \ failed)
    BY <1>3, Zenon DEF WorkerRound, sendSide
  <2>2. PICK S : S \subseteq DOMAIN ingress /\ ingressB' = Less(ingressB, AllSize) /\ queueB' = queueB + IngressSizes(S)
    BY <2>1
  <2>3. AllSize = ingressB /\ IngressSizes(S) \in Nat /\ IngressSizes(S) \leq AllSize
    BY <2>2, IngressSizesBound
  <2>4. PICK n : n = IngressSizes(S)
    OBVIOUS
  <2>5. n \in Nat /\ n \leq ingressB /\ ingressB' = Less(ingressB, ingressB) /\ queueB' = queueB + n
    BY <2>2, <2>3, <2>4
  <2>6. MovesOn
    BY <2>1, <2>5 DEF MovesOn, CountersTyped, Less
  <2> QED
    BY <2>6, MovesForward
<1>4. CASE WorkerItem(w)
  <2>1. UNCHANGED <<tlsB, ingressB, sendB, inflightB, scratchB, imported>> /\ queueB' = queueB - 1
    BY <1>4 DEF WorkerItem, sendSide
  <2>2. MovesOn
    BY <2>1 DEF MovesOn, CountersTyped
  <2> QED
    BY <2>2, MovesForward
<1>5. CASE WorkerRelease(w)
  <2>1. UNCHANGED <<tlsB, ingressB, sendB, inflightB, scratchB, imported>> /\ queueB' = Less(queueB, Size(task[w]))
    BY <1>5 DEF WorkerRelease, sendSide
  <2>2. queueB' \in Nat /\ queueB' \leq queueB
    BY <1>2, <2>1, LessType DEF CountersTyped
  <2>3. MovesOn
    BY <2>1, <2>2 DEF MovesOn, CountersTyped
  <2> QED
    BY <2>3, MovesForward
<1>6. CASE WorkerPrepare(w)
  <2>1. UNCHANGED <<tlsB, ingressB, queueB, inflightB, imported>>
    BY <1>6 DEF WorkerPrepare, ingressSide
  <2>2. \/ UNCHANGED <<sendB, scratchB>>
        \/ HasSpaceForSend(ScratchBytes(task[w])) /\ scratchB' = scratchB + ScratchBytes(task[w]) /\ UNCHANGED sendB
    BY <1>6, Zenon DEF WorkerPrepare, WorkerNoSpace
  <2> QED
    BY <1>2, <2>1, <2>2, AdmitsSend, BudgetStays
<1>7. CASE WorkerCompress(w)
  <2>1. UNCHANGED <<tlsB, ingressB, queueB, sendB, inflightB, imported>> /\ scratchB' = Less(scratchB, ScratchBytes(task[w]))
    BY <1>7 DEF WorkerCompress, ingressSide
  <2>2. scratchB' \leq scratchB
    BY <1>2, <2>1, LessType DEF CountersTyped
  <2>3. sendB' \leq sendB /\ sendB' + inflightB' \leq sendB + inflightB
    BY <2>1 DEF CountersTyped
  <2> QED
    BY <2>1, <2>2, <2>3, SendsForward
<1>8. CASE WorkerReserve(w)
  <2>1. UNCHANGED <<tlsB, ingressB, queueB, inflightB, imported>>
    BY <1>8 DEF WorkerReserve, ingressSide
  <2>2. \/ UNCHANGED <<sendB, scratchB>>
        \/ HasSpaceForSend(Size(task[w])) /\ sendB' = sendB + Size(task[w]) /\ UNCHANGED scratchB
    BY <1>8, Zenon DEF WorkerReserve, WorkerNoSpace
  <2> QED
    BY <1>2, <2>1, <2>2, AdmitsSend, BudgetStays
<1>9. CASE WorkerPut(w)
  <2>1. UNCHANGED <<tlsB, ingressB, queueB, inflightB, scratchB, imported>>
    BY <1>9 DEF WorkerPut, ingressSide
  <2>2. UNCHANGED sendB \/ sendB' = Less(sendB, Size(task[w]))
    BY <1>9, Zenon DEF WorkerPut
  <2>3. sendB' \leq sendB
    BY <1>2, <2>2, LessType DEF CountersTyped
  <2>4. scratchB' \leq scratchB /\ sendB' + inflightB' \leq sendB + inflightB
    BY <2>1, <2>3 DEF CountersTyped
  <2> QED
    BY <2>1, <2>3, <2>4, SendsForward
<1>10. \/ WorkerRound(w) \/ WorkerItem(w) \/ WorkerRelease(w) \/ WorkerPrepare(w) \/ WorkerCompress(w)
       \/ WorkerReserve(w) \/ WorkerPut(w) \/ UNCHANGED budgetVars
  BY Zenon DEF WorkerStep, WorkerWait, WorkerTimer, WorkerExit, WorkerBatch
<1> QED
  BY <1>1, <1>3, <1>4, <1>5, <1>6, <1>7, <1>8, <1>9, <1>10

\* The senders only move or release what a worker has reserved.
LEMMA SenderInBudget ==
  ASSUME LogInv, CountersTyped, CountersTyped', NEW b \in SUBSET Logs, SenderTake(b) \/ SenderDone(b)
  PROVE  BudgetGoes
<1>1. CASE SenderTake(b)
  <2>1. UNCHANGED <<tlsB, ingressB, queueB, scratchB, imported>> /\ b \in sendq
        /\ sendB' = Less(sendB, Size(b)) /\ inflightB' = inflightB + Size(b)
    BY <1>1 DEF SenderTake, ingressSide
  <2>2. Size(b) \in Nat /\ Size(b) \leq sendB
    BY <2>1, TaskCounted
  <2>3. sendB' \leq sendB /\ scratchB' \leq scratchB /\ sendB' + inflightB' \leq sendB + inflightB
    BY <2>1, <2>2 DEF CountersTyped, Less
  <2> QED
    BY <2>1, <2>3, SendsForward
<1>2. CASE SenderDone(b)
  <2>1. UNCHANGED <<tlsB, ingressB, queueB, sendB, scratchB, imported>> /\ inflightB' = Less(inflightB, Size(b))
    BY <1>2 DEF SenderDone, ingressSide
  <2>2. Size(b) \in Nat
    BY LogsFinite DEF Size
  <2>3. inflightB' \leq inflightB
    BY <2>1, <2>2, LessType DEF CountersTyped
  <2>4. sendB' \leq sendB /\ scratchB' \leq scratchB /\ sendB' + inflightB' \leq sendB + inflightB
    BY <2>1, <2>3 DEF CountersTyped
  <2> QED
    BY <2>1, <2>4, SendsForward
<1> QED
  BY <1>1, <1>2

\* Every step of the producer is one of the budget, or leaves it alone.
LEMMA StepInBudget ==
  ASSUME LogInv, ThreadInv, CountersTyped, CountersTyped', [IngressNext]_ingressVars
  PROVE  BudgetGoes
<1>1. imported \in BOOLEAN
  BY DEF ThreadInv
<1>2. CASE UNCHANGED budgetVars
  BY <1>2 DEF BudgetGoes
<1>3. CASE ImportItem
  <2>1. Import(1)
    BY <1>3 DEF ImportItem
  <2>2. 1 \in 0..MaxBuffer
    BY <2>1, BudgetAssumption DEF Import, Fits, CountersTyped
  <2> QED
    BY <2>1, <2>2 DEF BudgetNext, BudgetGoes
<1>4. \/ \E a \in Writers : Call(a) \/ WriterStep(a)
      \/ \E w \in Workers : WorkerStep(w)
      \/ \E b \in SUBSET Logs : SenderTake(b) \/ SenderDone(b)
      \/ ImportItem
      \/ UNCHANGED budgetVars
  BY Zenon DEF IngressNext, SenderStep, Flush, IntervalOver, Deadline, ingressVars
<1> QED
  BY <1>1, <1>2, <1>3, <1>4, WriterInBudget, WorkerInBudget, SenderInBudget

\* The producer implements the specification of the memory budget: whatever its
\* threads do, and in whatever order, the six counters move as Budget says.
THEOREM IngressImplementsBudget == IngressSpec => BudgetSpec
<1>1. IngressInit => BudgetInit
  BY DEF IngressInit
<1>2. LogInv /\ ThreadInv /\ LogInv' /\ [IngressNext]_ingressVars => [BudgetNext]_budgetVars
  <2> SUFFICES ASSUME LogInv, ThreadInv, LogInv', [IngressNext]_ingressVars
               PROVE  BudgetGoes
    BY DEF BudgetGoes
  <2>1. CountersTyped /\ CountersTyped'
    BY CountersNat, CountersTypedNext DEF CountersTyped
  <2> QED
    BY <2>1, StepInBudget
<1> QED
  BY <1>1, <1>2, PlacesHold, PTL DEF IngressSpec, BudgetSpec

\* So max_buffer_bytes bounds what the producer buffers, and twice of it once
\* raw buffers are imported.
THEOREM ProducerWithinBudget == IngressSpec => []WithinBudget
BY IngressImplementsBudget, BudgetKept, PTL

-----------------------------------------------------------------------------
(* The condition variable.                                                 *)

\* Something waits for a worker.
Busy == ingress # <<>> \/ sealed # <<>> \/ flush

\* Under DROP only workers wait, and while there is something to do not all of
\* them: so the thread that a signal wakes is a worker.
AwakeInv == ~block => /\ waiting \subseteq Workers
                      /\ ~Stopped /\ Busy => \E w \in Workers : w \notin waiting

\* Nobody goes to sleep, and nothing to do comes up.
LEMMA AwakeQuiet ==
  ASSUME AwakeInv, block' = block, waiting' \subseteq waiting,
         ~Stopped' /\ Busy' => ~Stopped /\ Busy
  PROVE  AwakeInv'
BY DEF AwakeInv

\* A thread is signalled: one of the workers, or nobody waited.
LEMMA AwakeSignal ==
  ASSUME AwakeInv, block' = block, NEW n \in Nat \ {0}, Signal(n)
  PROVE  AwakeInv'
<1>1. PICK T \in SUBSET waiting : waiting' = waiting \ T /\ (Cardinality(T) = n \/ T = waiting)
  BY DEF Signal, Wakes
<1>2. T # {} \/ waiting' = {}
  <2>1. CASE T = {} /\ Cardinality(T) = n
    BY <2>1, FS_EmptySet
  <2> QED
    BY <1>1, <2>1
<1> QED
  BY <1>1, <1>2, IngressAssumption DEF AwakeInv

\* All threads are woken.
LEMMA AwakeBroadcast ==
  ASSUME block' = block, Broadcast
  PROVE  AwakeInv'
BY IngressAssumption DEF AwakeInv, Broadcast

\* Only a flush request may have changed, and only under BLOCK.
LEMMA AwakeGivesUp ==
  ASSUME ~block, NEW th, GiveUp(th) \/ Closed
  PROVE  flush' = flush /\ waiting' = waiting
BY DEF GiveUp, Closed, NoSignal

\* The writers' steps that wait for room.
LEMMA AwakeSpace ==
  ASSUME AwakeInv, ~block, NEW a \in Writers, WriteSpace(a)
  PROVE  AwakeInv'
<1>1. block' = block /\ ingress' = ingress /\ phase' = phase
  BY DEF WriteSpace
<1>2. CASE sealed' = sealed /\ waiting' = waiting /\ (flush' => flush)
  BY <1>1, <1>2, AwakeQuiet DEF Busy, Stopped
<1>3. CASE Closed /\ Refuse(a)
  <2>1. sealed' = sealed /\ flush' = flush /\ waiting' = waiting
    BY <1>3, AwakeGivesUp DEF Refuse
  <2> QED
    BY <1>2, <2>1
<1>4. CASE GiveUp(a) /\ Refuse(a)
  <2>1. sealed' = sealed /\ flush' = flush /\ waiting' = waiting
    BY <1>4, AwakeGivesUp DEF Refuse
  <2> QED
    BY <1>2, <2>1
<1>5. CASE Admit(a)
  <2>1. \/ sealed' = sealed /\ waiting' = waiting /\ (flush' => flush)
        \/ Signal(1)
        \/ Broadcast
    BY <1>5 DEF Admit, NoSignal
  <2> QED
    BY <1>1, <1>2, <2>1, AwakeSignal, AwakeBroadcast
<1> QED
  BY <1>3, <1>4, <1>5 DEF WriteSpace, Sleep

\* A batch is pushed to the ingress queue, or cannot be.
LEMMA AwakePush ==
  ASSUME AwakeInv, ~block, block' = block, NEW a \in Writers,
         Push(a) \/ PushWaits(a) \/ (\E timeout : PushFails(a, timeout))
  PROVE  AwakeInv'
<1>1. CASE Push(a)
  BY <1>1, AwakeSignal, AwakeBroadcast DEF Push
<1>2. CASE \E timeout : PushFails(a, timeout)
  <2>1. UNCHANGED <<ingress, sealed, flush, waiting, phase>>
    BY <1>2 DEF PushFails, FlushFails, NoSignal
  <2> QED
    BY <2>1, AwakeQuiet DEF Busy, Stopped
<1> QED
  BY <1>1, <1>2 DEF PushWaits

\* An export merges the batch of its thread and the ingress queue: a batch that
\* it seals alone is signalled, and otherwise there was work before.
LEMMA AwakeExport ==
  ASSUME AwakeInv, ~block, block' = block, NEW a \in Writers, ExportMerge(a)
  PROVE  AwakeInv'
<1>1. PICK own, size : /\ own = MergeOne(Unmerged, [logs |-> tls[a], force |-> FALSE])
                       /\ size = Size(tls[a])
  OBVIOUS
<1>2. (\E j \in DrainEnds : ExportDrain(own, size, j)) /\ phase' = phase
  BY <1>1 DEF ExportMerge
<1>3. PICK j \in DrainEnds : ExportDrain(own, size, j)
  BY <1>2
<1>4. waiting' \subseteq waiting
  <2>1. \E n : Signal(n)
    BY <1>3, DrainLeaves
  <2> QED
    BY <2>1, SignalWakes
<1>5. CASE ingress # <<>>
  BY <1>2, <1>4, <1>5, AwakeQuiet DEF Busy, Stopped
<1>6. CASE ingress = <<>>
  <2>1. Len(ingress) = 0 /\ DOMAIN ingress = {}
    BY <1>6
  <2>2. j = 1
    BY <2>1 DEF DrainEnds
  <2>3. PICK m : m = Merge(own, j..Len(ingress))
    OBVIOUS
  <2>4. m = own
    BY <2>1, <2>3, MergeSteps
  <2>5. PICK popped : popped = DOMAIN ingress \cap 1..j
    OBVIOUS
  <2>6. /\ sealed' = m.s /\ flush' = (flush \/ m.s # sealed) /\ Signal(m.n + Cardinality(popped))
        /\ ingress' = SubSeq(ingress, j + 1, Len(ingress))
    BY <1>3, <2>3, <2>5, Zenon DEF ExportDrain
  <2>7. ingress' = <<>>
    <3>1. SubSeq(<<>>, 2, 0) = <<>>
      OBVIOUS
    <3> QED
      BY <1>6, <2>1, <2>2, <2>6, <3>1
  <2>8. Cardinality(popped) = 0
    BY <2>1, <2>5, FS_EmptySet
  <2>9. own.s = sealed \/ own.n = 1
    BY <1>1 DEF MergeOne, Unmerged
  <2>10. CASE own.s = sealed
    BY <1>2, <1>4, <1>6, <2>4, <2>6, <2>7, <2>10, AwakeQuiet DEF Busy, Stopped
  <2>11. CASE own.n = 1
    <3>1. Signal(1)
      BY <2>4, <2>6, <2>8, <2>11
    <3> QED
      BY <3>1, AwakeSignal
  <2> QED
    BY <2>9, <2>10, <2>11
<1> QED
  BY <1>5, <1>6

\* The other steps of the application's threads.
LEMMA AwakeWriter ==
  ASSUME AwakeInv, ~block, NEW a \in Writers, Call(a) \/ WriterStep(a)
  PROVE  AwakeInv'
<1> USE DEF queueVars, condVars
<1>1. block' = block
  BY DEF Call, WriterStep, Write, CircuitOpen, FlushCall, Export, SwitchProducer, Close, CloseTimeout,
     WriteSpace, RawCopied, TlsAppend, FlushSpace, PushSpace, CloseDrained, CloseJoin
<1>2. CASE \/ \E kind \in Kinds, force \in Flushes : Write(a, kind, force)
           \/ CircuitOpen(a) \/ (\E kind : FlushCall(a, kind)) \/ SwitchProducer(a) \/ CloseTimeout(a)
           \/ TlsAppend(a)
  <2>1. UNCHANGED <<ingress, sealed, flush, waiting, phase>>
    BY <1>2 DEF Write, CircuitOpen, FlushCall, SwitchProducer, CloseTimeout, TlsAppend
  <2> QED
    BY <1>1, <2>1, AwakeQuiet DEF Busy, Stopped
<1>3. CASE Export(a)
  <2>1. PICK acc, own : acc = Unmerged /\ own = 0
    OBVIOUS
  <2>2. ingress # <<>> /\ phase' = phase /\ \E j \in DrainEnds : ExportDrain(acc, own, j)
    BY <1>3, <2>1 DEF Export
  <2>3. \E n : Signal(n)
    BY <2>2, DrainLeaves
  <2> QED
    BY <1>1, <2>2, <2>3, SignalWakes, AwakeQuiet DEF Busy, Stopped
<1>4. CASE Close(a) \/ CloseDrained(a)
  BY <1>1, <1>4, AwakeBroadcast DEF Close, CloseDrained
<1>5. CASE CloseJoin(a)
  BY <1>1, <1>5, AwakeQuiet DEF CloseJoin, Stopped
<1>6. CASE RawCopied(a)
  <2>1. \/ UNCHANGED <<ingress, sealed, waiting, phase>> /\ (flush' => flush)
        \/ Signal(1)
        \/ Broadcast
    BY <1>6 DEF RawCopied, NoSignal
  <2> QED
    BY <1>1, <2>1, AwakeQuiet, AwakeSignal, AwakeBroadcast DEF Busy, Stopped
<1>7. CASE FlushSpace(a)
  <2>1. CASE ExportMerge(a)
    BY <1>1, <2>1, AwakeExport
  <2>2. CASE Push(a) \/ PushWaits(a) \/ PushFails(a, FALSE)
    BY <1>1, <2>2, AwakePush
  <2>3. CASE (GiveUp(a) \/ Closed) /\ FlushFails(a)
    <3>1. UNCHANGED <<ingress, sealed, flush, waiting, phase>>
      BY <2>3, AwakeGivesUp DEF FlushFails
    <3> QED
      BY <1>1, <3>1, AwakeQuiet DEF Busy, Stopped
  <2>4. CASE ExportRefused(a)
    <3>1. UNCHANGED <<ingress, sealed, flush, waiting, phase>>
      BY <2>4 DEF ExportRefused, FlushFails, NoSignal
    <3> QED
      BY <1>1, <3>1, AwakeQuiet DEF Busy, Stopped
  <2> QED
    BY <1>7, <2>1, <2>2, <2>3, <2>4 DEF FlushSpace, Sleep
<1>8. CASE PushSpace(a)
  BY <1>1, <1>8, AwakePush DEF PushSpace
<1> QED
  BY <1>2, <1>3, <1>4, <1>5, <1>6, <1>7, <1>8, AwakeSpace DEF Call, WriterStep

\* The steps of the workers.
LEMMA AwakeWorker ==
  ASSUME AwakeInv, ~block, NEW w \in Workers, WorkerStep(w)
  PROVE  AwakeInv'
<1> USE DEF queueVars, condVars
<1>1. block' = block /\ phase' = phase
  BY DEF WorkerStep, WorkerWait, WorkerTimer, WorkerExit, WorkerRound, WorkerItem, WorkerBatch,
     WorkerPrepare, WorkerCompress, WorkerReserve, WorkerPut, WorkerRelease
<1>2. CASE WorkerWait(w)
  <2>1. ~Busy' /\ waiting' = waiting \cup {w}
    BY <1>2 DEF WorkerWait, Work, Busy
  <2> QED
    BY <1>1, <2>1 DEF AwakeInv
<1>3. CASE WorkerRound(w)
  <2>1. ~Busy' /\ \E n : Signal(n)
    BY <1>3 DEF WorkerRound, Busy
  <2> QED
    BY <1>1, <2>1, SignalWakes, AwakeQuiet
<1>4. CASE \/ WorkerTimer(w) \/ WorkerExit(w) \/ WorkerItem(w) \/ WorkerBatch(w) \/ WorkerCompress(w)
           \/ WorkerPut(w) \/ WorkerRelease(w)
  <2>1. /\ UNCHANGED <<ingress, sealed, flush>>
        /\ waiting' \subseteq waiting \/ Signal(1) \/ Broadcast
    BY <1>4 DEF WorkerTimer, WorkerExit, WorkerItem, WorkerBatch, WorkerCompress, WorkerPut, WorkerRelease,
       NoSignal
  <2> QED
    BY <1>1, <2>1, AwakeQuiet, AwakeSignal, AwakeBroadcast DEF Busy, Stopped
<1>5. CASE WorkerPrepare(w) \/ WorkerReserve(w)
  <2>1. UNCHANGED <<ingress, sealed>>
    BY <1>5 DEF WorkerPrepare, WorkerReserve
  <2>2. (UNCHANGED flush /\ NoSignal) \/ WorkerNoSpace(w)
    BY <1>5 DEF WorkerPrepare, WorkerReserve
  <2>3. flush' = flush /\ waiting' = waiting
    BY <2>2, AwakeGivesUp DEF WorkerNoSpace, Sleep, NoSignal
  <2> QED
    BY <1>1, <2>1, <2>3, AwakeQuiet DEF Busy, Stopped
<1> QED
  BY <1>2, <1>3, <1>4, <1>5 DEF WorkerStep

\* Every step keeps a worker awake.
LEMMA AwakeStep ==
  ASSUME AwakeInv, [IngressNext]_ingressVars
  PROVE  AwakeInv'
<1> USE DEF queueVars, condVars
<1>1. block' = block
  <2>1. ASSUME NEW w \in Workers, WorkerStep(w)
        PROVE  block' = block
    BY <2>1 DEF WorkerStep, WorkerWait, WorkerTimer, WorkerExit, WorkerRound, WorkerItem, WorkerBatch,
       WorkerPrepare, WorkerCompress, WorkerReserve, WorkerPut, WorkerRelease
  <2>2. ASSUME NEW a \in Writers, Call(a) \/ WriterStep(a)
        PROVE  block' = block
    BY <2>2 DEF Call, WriterStep, Write, CircuitOpen, FlushCall, Export, SwitchProducer, Close,
       CloseTimeout, WriteSpace, RawCopied, TlsAppend, FlushSpace, PushSpace, CloseDrained, CloseJoin
  <2> QED
    BY <2>1, <2>2 DEF IngressNext, SenderStep, SenderTake, SenderDone, ImportItem, Flush, IntervalOver,
       Deadline, ingressVars
<1>2. CASE block
  BY <1>1, <1>2 DEF AwakeInv
<1>3. CASE ~block
  <2>1. CASE SenderStep \/ ImportItem \/ (\E k \in DOMAIN builder : IntervalOver(k)) \/ UNCHANGED ingressVars
    <3>1. /\ UNCHANGED <<ingress, sealed, flush, phase>>
          /\ waiting' = waiting \/ Signal(1) \/ Broadcast
      BY <2>1 DEF SenderStep, SenderTake, SenderDone, ImportItem, IntervalOver, ingressVars, NoSignal
    <3> QED
      BY <1>1, <3>1, AwakeQuiet, AwakeSignal, AwakeBroadcast DEF Busy, Stopped
  <2>2. CASE Flush
    BY <1>1, <2>2, AwakeBroadcast DEF Flush
  <2> QED
    BY <1>3, <2>1, <2>2, AwakeWriter, AwakeWorker DEF IngressNext, Deadline
<1> QED
  BY <1>2, <1>3

\* Under DROP a batch in the ingress queue, a sealed batch or a flush request
\* never meets workers that all sleep, although writers and workers share one
\* condition variable and one thread is signalled.
THEOREM WorkerStaysAwake == IngressSpec => []WorkerAwake
<1>1. IngressInit => AwakeInv
  BY IngressAssumption DEF IngressInit, AwakeInv
<1>2. AwakeInv /\ [IngressNext]_ingressVars => AwakeInv'
  BY AwakeStep
<1>3. AwakeInv => WorkerAwake
  BY DEF AwakeInv, WorkerAwake, Busy
<1> QED
  BY <1>1, <1>2, <1>3, PTL DEF IngressSpec
=============================================================================

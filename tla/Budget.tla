--------------------------------- MODULE Budget ---------------------------------
(***************************************************************************)
(* What the memory budget of a producer promises: max_buffer_bytes bounds  *)
(* the sum of six byte counters, whoever moves bytes between them.         *)
(*                                                                         *)
(* The module has the admission test of ve_tls_producer.c as operators and *)
(* the moves between the counters as actions on any amount: what is moved  *)
(* was counted before, and is counted once.  That the producer keeps to    *)
(* this is shown by Ingress, which implements this specification.          *)
(***************************************************************************)
EXTENDS Naturals

CONSTANTS
  MaxBuffer,  \* max_buffer_bytes, when there is a limit
  Reserved,   \* send_reserved_bytes: what writers leave to the send side
  SizeMax     \* the largest size_t

ASSUME BudgetAssumption ==
  /\ MaxBuffer \in Nat /\ Reserved \in Nat /\ SizeMax \in Nat
  /\ Reserved \leq MaxBuffer
  /\ MaxBuffer < SizeMax

VARIABLES
  tlsB,       \* tls_bytes: the thread-local batches
  ingressB,   \* ingress_queue_bytes
  queueB,     \* queue_bytes: raw items, builders and sealed batches
  sendB,      \* send_queue_bytes
  inflightB,  \* inflight_bytes
  scratchB,   \* scratch_bytes
  imported    \* history: a raw buffer was imported

ingressSide == <<tlsB, ingressB, queueB>>
sendSide == <<sendB, inflightB, scratchB>>
budgetVars == <<ingressSide, sendSide, imported>>

-----------------------------------------------------------------------------
(* The admission test.                                                     *)

\* ve_tls_size_add_sat
AddSat(a, b) == IF b > SizeMax - a THEN SizeMax ELSE a + b

\* ve_tls_size_fits_limit
Fits(used, need, limit) == used \leq limit /\ need \leq limit - used

\* ve_tls_producer_ingress_bytes_locked
IngressBytes == AddSat(AddSat(queueB, ingressB), tlsB)

SendSideBytes == AddSat(AddSat(sendB, inflightB), scratchB)

\* ve_tls_producer_buffered_bytes_locked and ve_tls_producer_get_buffered_bytes
BufferedBytes ==
  AddSat(AddSat(AddSat(AddSat(AddSat(queueB, ingressB), sendB), inflightB), scratchB), tlsB)

\* Mutant of HasSpaceForSend: the batch in hand is not counted.
HasSpaceForSendAny(need) == BufferedBytes \leq MaxBuffer

\* ve_tls_has_buffer_space_locked for the send side
HasSpaceForSend(need) == Fits(BufferedBytes, need, MaxBuffer)

\* ve_tls_has_buffer_space_locked for writers: what the send side uses over
\* its reserve comes off their limit.
HasSpaceForLog(need) ==
  LET limit == MaxBuffer - Reserved
      over == IF SendSideBytes > Reserved THEN SendSideBytes - Reserved ELSE 0
  IN IF over > 0 /\ over \geq limit
       THEN need = 0 /\ IngressBytes = 0
       ELSE Fits(IngressBytes, need, limit - over)

-----------------------------------------------------------------------------
(* The moves.                                                              *)

BudgetInit ==
  /\ tlsB = 0 /\ ingressB = 0 /\ queueB = 0
  /\ sendB = 0 /\ inflightB = 0 /\ scratchB = 0
  /\ imported = FALSE

\* A writer is admitted, to its thread-local batch or to the queue.
AdmitLog(n) ==
  /\ HasSpaceForLog(n)
  /\ \/ tlsB' = tlsB + n /\ UNCHANGED queueB
     \/ queueB' = queueB + n /\ UNCHANGED tlsB
  /\ UNCHANGED <<ingressB, sendSide, imported>>

\* Logs move on, from the thread-local batches to the ingress queue to the
\* builders, or leave the producer; none is counted twice on the way.
Forward ==
  /\ {tlsB', ingressB', queueB'} \subseteq Nat
  /\ tlsB' \leq tlsB
  /\ tlsB' + ingressB' \leq tlsB + ingressB
  /\ tlsB' + ingressB' + queueB' \leq tlsB + ingressB + queueB
  /\ UNCHANGED <<sendSide, imported>>

\* A worker reserves the bytes of a task, or scratch memory to compress it.
AdmitSend(n) ==
  /\ HasSpaceForSend(n)
  /\ \/ sendB' = sendB + n /\ UNCHANGED scratchB
     \/ scratchB' = scratchB + n /\ UNCHANGED sendB
  /\ UNCHANGED <<ingressSide, inflightB, imported>>

\* A sender takes a task, or memory of the send side is released.
SendForward ==
  /\ {sendB', inflightB', scratchB'} \subseteq Nat
  /\ sendB' \leq sendB /\ scratchB' \leq scratchB
  /\ sendB' + inflightB' \leq sendB + inflightB
  /\ UNCHANGED <<ingressSide, imported>>

\* ve_tls_producer_import_raw_buffer looks at queue_bytes only.
Import(n) ==
  /\ Fits(queueB, n, MaxBuffer)
  /\ queueB' = queueB + n
  /\ imported' = TRUE
  /\ UNCHANGED <<tlsB, ingressB, sendSide>>

BudgetNext ==
  \/ \E n \in 0..MaxBuffer : AdmitLog(n) \/ AdmitSend(n) \/ Import(n)
  \/ Forward
  \/ SendForward

BudgetSpec == BudgetInit /\ [][BudgetNext]_budgetVars

-----------------------------------------------------------------------------
Total == queueB + ingressB + tlsB + sendB + inflightB + scratchB

BudgetTypeOK ==
  /\ {tlsB, ingressB, queueB, sendB, inflightB, scratchB} \subseteq Nat
  /\ imported \in BOOLEAN

\* max_buffer_bytes bounds everything that is buffered, until a raw buffer is
\* imported: the import looks at one of the counters only, and can take the
\* sum to twice the limit but no further.
WithinBudget ==
  /\ ~imported => Total \leq MaxBuffer
  /\ Total \leq 2 * MaxBuffer
=============================================================================

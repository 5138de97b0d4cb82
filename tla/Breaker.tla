--------------------------------- MODULE Breaker ---------------------------------
(***************************************************************************)
(* The global circuit breaker (ve_tls_producer_common.c) between the       *)
(* senders that share it (the retry loops of ve_tls_sender_main and        *)
(* ve_tls_sender_step).                                                    *)
(*                                                                         *)
(* A sender goes through the breaker once for a task, before its first     *)
(* request, and takes a slot; the end of the retry loop gives the slot     *)
(* back and counts a failure or closes the breaker.  The gate of the task's *)
(* key (KeyQueues) is asked before every request, so it stands both before *)
(* the breaker and, on a retry, behind it.                                 *)
(***************************************************************************)
EXTENDS Naturals, FiniteSets

CONSTANTS
  Senders,      \* sender threads
  Threshold,    \* breaker_fail_threshold
  OpenMs,       \* breaker_open_ms
  HalfOpenMax,  \* breaker_half_open_max_inflight
  MaxAttempts,  \* retry_policy.max_attempts
  KeyGate       \* whether the gate of a key denies requests

ASSUME BreakerAssumption ==
  /\ IsFiniteSet(Senders)
  /\ {Threshold, OpenMs, HalfOpenMax, MaxAttempts} \subseteq Nat \ {0}
  /\ KeyGate \in BOOLEAN

VARIABLES
  until,    \* breaker_open_until_ms, as the time left
  fails,    \* breaker_consecutive_failures, up to Threshold
  slots,    \* breaker_half_open_inflight
  stopped,  \* producer->stop
  pc,       \* where each sender is
  entered,  \* the senders with entered_breaker and half_open_guard set
  attempt   \* the attempt counter of each sender

breakerVars == <<until, fails, slots, stopped, pc, entered, attempt>>

BreakerInit ==
  /\ until = 0 /\ fails = 0 /\ slots = 0
  /\ stopped = FALSE
  /\ pc = [s \in Senders |-> "idle"]
  /\ entered = {}
  /\ attempt = [s \in Senders |-> 0]

\* A sender has a task.
Start(s) ==
  /\ pc[s] = "idle"
  /\ pc' = [pc EXCEPT ![s] = "gate"]
  /\ attempt' = [attempt EXCEPT ![s] = 0]
  /\ UNCHANGED <<until, fails, slots, stopped, entered>>

\* The gate of the key denies: the task goes back to its queue and the sender
\* turns to another one.
KeyDenied(s) ==
  /\ pc[s] = "gate" /\ KeyGate
  /\ pc' = [pc EXCEPT ![s] = "idle"]
  /\ entered' = entered \ {s}
  /\ UNCHANGED <<until, fails, slots, stopped, attempt>>

KeyAllowed(s) ==
  /\ pc[s] = "gate"
  /\ pc' = [pc EXCEPT ![s] = IF s \in entered THEN "send" ELSE "await"]
  /\ attempt' = [attempt EXCEPT ![s] = @ + 1]
  /\ UNCHANGED <<until, fails, slots, stopped, entered>>

\* ve_tls_breaker_wait_open sleeps until the open time is over or the
\* producer stops.
WaitOpen(s) ==
  /\ pc[s] = "await" /\ (stopped \/ until = 0)
  /\ pc' = [pc EXCEPT ![s] = "try"]
  /\ UNCHANGED <<until, fails, slots, stopped, entered, attempt>>

\* Mutant of HasSlot: one slot too many.
HasSlotMore == slots \leq HalfOpenMax

\* ve_tls_breaker_try_enter_half_open gives a slot.
HasSlot == slots < HalfOpenMax

TryEnter(s) ==
  /\ pc[s] = "try" /\ until = 0 /\ HasSlot
  /\ slots' = slots + 1
  /\ entered' = entered \cup {s}
  /\ pc' = [pc EXCEPT ![s] = "send"]
  /\ UNCHANGED <<until, fails, stopped, attempt>>

\* Refused, the sender sleeps and starts over with the wait.
TryRefused(s) ==
  /\ pc[s] = "try" /\ ~(until = 0 /\ HasSlot)
  /\ pc' = [pc EXCEPT ![s] = "await"]
  /\ UNCHANGED <<until, fails, slots, stopped, entered, attempt>>

Retry(s) ==
  /\ pc[s] = "send" /\ attempt[s] < MaxAttempts
  /\ pc' = [pc EXCEPT ![s] = "gate"]
  /\ UNCHANGED <<until, fails, slots, stopped, entered, attempt>>

\* Mutant of SlotsLeft: the slot is kept when the request failed.
SlotsLeftOnSuccess(ok) == IF ok /\ slots > 0 THEN slots - 1 ELSE slots

\* The slot that leaving the breaker gives back.
SlotsLeft(ok) == IF slots > 0 THEN slots - 1 ELSE slots

\* The end of the retry loop: ve_tls_breaker_leave_half_open.
Leave(s, ok) ==
  LET f == IF ok THEN 0 ELSE IF fails < Threshold THEN fails + 1 ELSE fails IN
  /\ pc[s] = "send"
  /\ slots' = SlotsLeft(ok)
  /\ fails' = f
  /\ until' = IF ok THEN 0 ELSE IF f >= Threshold THEN OpenMs ELSE until
  /\ entered' = entered \ {s}
  /\ pc' = [pc EXCEPT ![s] = "idle"]
  /\ UNCHANGED <<stopped, attempt>>

BreakerTick ==
  /\ until > 0
  /\ until' = until - 1
  /\ UNCHANGED <<fails, slots, stopped, pc, entered, attempt>>

BreakerStop ==
  /\ ~stopped
  /\ stopped' = TRUE
  /\ UNCHANGED <<until, fails, slots, pc, entered, attempt>>

\* What a sender with a task does.
SendStep(s) ==
  \/ KeyDenied(s) \/ KeyAllowed(s)
  \/ WaitOpen(s) \/ TryEnter(s) \/ TryRefused(s)
  \/ Retry(s)
  \/ \E ok \in BOOLEAN : Leave(s, ok)

BreakerNext ==
  \/ \E s \in Senders : Start(s) \/ SendStep(s)
  \/ BreakerTick
  \/ BreakerStop

BreakerSpec == BreakerInit /\ [][BreakerNext]_breakerVars

\* Time passes and the platform schedules every sender.  A request ends, and
\* the retry policy ends the retries: both are steps of the sender.
BreakerFairness ==
  /\ WF_breakerVars(BreakerTick)
  /\ \A s \in Senders : WF_breakerVars(SendStep(s))

-----------------------------------------------------------------------------
(* Properties.                                                             *)

\* The types of the variables; the slots in use never exceed the limit.
BreakerTypeOK ==
  /\ until \in 0..OpenMs /\ fails \in 0..Threshold /\ slots \in 0..HalfOpenMax
  /\ stopped \in BOOLEAN
  /\ pc \in [Senders -> {"idle", "gate", "await", "try", "send"}]
  /\ entered \subseteq Senders
  /\ attempt \in [Senders -> 0..MaxAttempts]

\* What a sender's place says about its slot and its attempts.
PlaceOK ==
  \A s \in Senders :
    /\ pc[s] = "gate" => attempt[s] < MaxAttempts
    /\ pc[s] = "send" => s \in entered
    /\ s \in entered => pc[s] \in {"gate", "send"}

\* Every sender behind the breaker has a slot of its own; and without a key
\* gate no slot is used otherwise: none is lost on a retry, a failure or a stop.
SlotsExact ==
  /\ Cardinality(entered) \leq slots
  /\ ~KeyGate => slots = Cardinality(entered)

\* The inductive invariant behind the bound on the requests.
BreakerInv == BreakerTypeOK /\ PlaceOK /\ SlotsExact

\* At most breaker_half_open_max_inflight requests are made at the same time,
\* whatever the retries and the key gates do.
RequestsBounded ==
  Cardinality({s \in Senders : pc[s] = "send"}) \leq HalfOpenMax

\* The senders do not all wait for ever: while one of them waits at the
\* breaker, some sender gets to make a request.
SomeoneSends ==
  (\E s \in Senders : pc[s] \in {"await", "try"}) ~> (\E s \in Senders : pc[s] = "send")
=============================================================================

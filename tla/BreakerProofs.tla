------------------------------ MODULE BreakerProofs ------------------------------
(***************************************************************************)
(* Proofs about Breaker, for every finite set of senders and every limit.  *)
(***************************************************************************)
EXTENDS Breaker, FiniteSetTheorems, TLAPS

\* The constants as the proofs use them.
LEMMA LimitFacts ==
  /\ IsFiniteSet(Senders)
  /\ Threshold \in Nat /\ Threshold > 0 /\ OpenMs \in Nat /\ OpenMs > 0
  /\ HalfOpenMax \in Nat /\ HalfOpenMax > 0 /\ MaxAttempts \in Nat /\ MaxAttempts > 0
  BY BreakerAssumption

\* The number of senders behind the breaker.
LEMMA EnteredCount ==
  ASSUME NEW E, E \subseteq Senders
  PROVE  IsFiniteSet(E) /\ Cardinality(E) \in Nat
  BY LimitFacts, FS_Subset, FS_CardinalityType

\* The invariant holds at the start.
LEMMA BreakerInitInv ==
  ASSUME BreakerInit
  PROVE  BreakerInv
<1>1. BreakerTypeOK
  <2>1. stopped \in BOOLEAN
    BY DEF BreakerInit
  <2>2. /\ until \in 0..OpenMs /\ fails \in 0..Threshold /\ slots \in 0..HalfOpenMax
        /\ entered \subseteq Senders
    BY LimitFacts DEF BreakerInit
  <2>3. pc \in [Senders -> {"idle", "gate", "await", "try", "send"}]
    BY DEF BreakerInit
  <2>4. attempt \in [Senders -> 0..MaxAttempts]
    BY LimitFacts DEF BreakerInit
  <2> QED
    BY <2>1, <2>2, <2>3, <2>4 DEF BreakerTypeOK
<1>2. PlaceOK
  BY LimitFacts DEF BreakerInit, PlaceOK
<1>3. Cardinality(entered) = 0 /\ slots = 0
  BY FS_EmptySet DEF BreakerInit
<1>4. SlotsExact
  BY <1>3 DEF SlotsExact
<1> QED
  BY <1>1, <1>2, <1>4 DEF BreakerInv

\* Every step keeps it.
LEMMA BreakerNextInv ==
  ASSUME BreakerInv, [BreakerNext]_breakerVars
  PROVE  BreakerInv'
<1>1. BreakerTypeOK /\ PlaceOK /\ SlotsExact
  BY DEF BreakerInv
<1>2. IsFiniteSet(entered) /\ Cardinality(entered) \in Nat
  BY <1>1, EnteredCount DEF BreakerTypeOK
<1>3. CASE \E s \in Senders :
             Start(s) \/ KeyAllowed(s) \/ WaitOpen(s) \/ TryRefused(s) \/ Retry(s)
  <2>1. PICK s \in Senders :
          Start(s) \/ KeyAllowed(s) \/ WaitOpen(s) \/ TryRefused(s) \/ Retry(s)
    BY <1>3
  <2>2. UNCHANGED <<until, fails, slots, stopped, entered>>
    BY <2>1 DEF Start, KeyAllowed, WaitOpen, TryRefused, Retry
  <2>3. BreakerTypeOK'
    BY <1>1, <2>1, <2>2, LimitFacts
    DEF BreakerTypeOK, PlaceOK, Start, KeyAllowed, WaitOpen, TryRefused, Retry
  <2>4. PlaceOK'
    BY <1>1, <2>1, <2>2, LimitFacts
    DEF BreakerTypeOK, PlaceOK, Start, KeyAllowed, WaitOpen, TryRefused, Retry
  <2>5. SlotsExact'
    BY <1>1, <2>2 DEF SlotsExact
  <2> QED
    BY <2>3, <2>4, <2>5 DEF BreakerInv
<1>4. CASE \E s \in Senders : KeyDenied(s)
  <2>1. PICK s \in Senders : KeyDenied(s)
    BY <1>4
  <2>2. BreakerTypeOK' /\ PlaceOK'
    BY <1>1, <2>1 DEF BreakerTypeOK, PlaceOK, KeyDenied
  <2>3. Cardinality(entered') \in Nat /\ Cardinality(entered') \leq Cardinality(entered)
    <3>1. entered' \subseteq entered
      BY <2>1 DEF KeyDenied
    <3> QED
      BY <1>2, <3>1, FS_Subset, FS_CardinalityType
  <2>4. SlotsExact'
    BY <1>1, <1>2, <2>1, <2>3 DEF SlotsExact, KeyDenied, BreakerTypeOK
  <2> QED
    BY <2>2, <2>4 DEF BreakerInv
<1>5. CASE \E s \in Senders : TryEnter(s)
  <2>1. PICK s \in Senders : TryEnter(s)
    BY <1>5
  <2>2. s \notin entered
    BY <1>1, <2>1 DEF PlaceOK, TryEnter
  <2>3. BreakerTypeOK' /\ PlaceOK'
    BY <1>1, <2>1, LimitFacts DEF BreakerTypeOK, PlaceOK, TryEnter, HasSlot
  <2>4. Cardinality(entered') = Cardinality(entered) + 1
    BY <1>2, <2>1, <2>2, FS_AddElement DEF TryEnter
  <2>5. SlotsExact'
    BY <1>1, <1>2, <2>1, <2>4 DEF SlotsExact, TryEnter, BreakerTypeOK
  <2> QED
    BY <2>3, <2>5 DEF BreakerInv
<1>6. CASE \E s \in Senders, ok \in BOOLEAN : Leave(s, ok)
  <2>1. PICK s \in Senders, ok \in BOOLEAN : Leave(s, ok)
    BY <1>6
  <2>2. s \in entered
    BY <1>1, <2>1 DEF PlaceOK, Leave
  <2>3. Cardinality(entered') = Cardinality(entered) - 1 /\ Cardinality(entered') \in Nat
    <3>1. entered' = entered \ {s}
      BY <2>1 DEF Leave
    <3> QED
      BY <1>2, <2>2, <3>1, FS_RemoveElement, FS_CardinalityType, FS_Subset
  <2>4. slots > 0 /\ slots' = slots - 1
    BY <1>1, <1>2, <2>1, <2>3 DEF SlotsExact, SlotsLeft, Leave, BreakerTypeOK
  <2>5. until' \in 0..OpenMs /\ fails' \in 0..Threshold
    BY <1>1, <2>1, LimitFacts DEF BreakerTypeOK, Leave
  <2>6. BreakerTypeOK' /\ PlaceOK'
    BY <1>1, <2>1, <2>4, <2>5, LimitFacts DEF BreakerTypeOK, PlaceOK, Leave
  <2>7. SlotsExact'
    BY <1>1, <1>2, <2>3, <2>4 DEF SlotsExact, BreakerTypeOK
  <2> QED
    BY <2>6, <2>7 DEF BreakerInv
<1>7. CASE BreakerTick \/ BreakerStop \/ UNCHANGED breakerVars
  <2>1. UNCHANGED <<fails, slots, pc, entered, attempt>>
    BY <1>7 DEF BreakerTick, BreakerStop, breakerVars
  <2>2. until' \in 0..OpenMs
    BY <1>1, <1>7, LimitFacts DEF BreakerTick, BreakerStop, breakerVars, BreakerTypeOK
  <2>3. stopped' \in BOOLEAN
    BY <1>1, <1>7 DEF BreakerTick, BreakerStop, breakerVars, BreakerTypeOK
  <2>4. BreakerTypeOK' /\ PlaceOK' /\ SlotsExact'
    BY <1>1, <2>1, <2>2, <2>3 DEF BreakerTypeOK, PlaceOK, SlotsExact
  <2> QED
    BY <2>4 DEF BreakerInv
<1> QED
  BY <1>3, <1>4, <1>5, <1>6, <1>7 DEF BreakerNext, SendStep

\* The invariant holds in every reachable state.
THEOREM BreakerInvariance == BreakerSpec => []BreakerInv
  BY BreakerInitInv, BreakerNextInv, PTL DEF BreakerSpec

\* Every sender that made its way through ve_tls_breaker_try_enter_half_open
\* holds a slot, and without a key gate the senders hold all slots in use.
THEOREM SlotsCorrect == BreakerSpec => []SlotsExact
<1>1. BreakerInv => SlotsExact
  BY DEF BreakerInv
<1> QED
  BY <1>1, BreakerInvariance, PTL

\* At most breaker_half_open_max_inflight requests are made at the same time.
THEOREM ConcurrencyLimited == BreakerSpec => []RequestsBounded
<1>1. ASSUME BreakerInv PROVE RequestsBounded
  <2>1. BreakerTypeOK /\ PlaceOK /\ SlotsExact
    BY <1>1 DEF BreakerInv
  <2>2. {s \in Senders : pc[s] = "send"} \subseteq entered
    BY <2>1 DEF PlaceOK
  <2>3. IsFiniteSet(entered) /\ Cardinality(entered) \in Nat
    BY <2>1, EnteredCount DEF BreakerTypeOK
  <2>4. /\ Cardinality({s \in Senders : pc[s] = "send"}) \in Nat
        /\ Cardinality({s \in Senders : pc[s] = "send"}) \leq Cardinality(entered)
    BY <2>2, <2>3, FS_Subset, FS_CardinalityType
  <2> QED
    BY <2>1, <2>3, <2>4, LimitFacts DEF SlotsExact, BreakerTypeOK, RequestsBounded
<1> QED
  BY <1>1, BreakerInvariance, PTL
=============================================================================

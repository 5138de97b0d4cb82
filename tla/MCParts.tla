------------------------------- MODULE MCParts ------------------------------
(***************************************************************************)
(* The parts of the producer that share no state with each other are       *)
(* checked together: a behaviour begins by choosing a part, and takes      *)
(* steps of that part only.  The values of the constants are in the        *)
(* configurations Parts, PartsLive, BreakerLeak and ConfigReuse.           *)
(***************************************************************************)
EXTENDS SendQueue, Breaker, Snapshot, Credentials, ObjPool, FastPath, RawBuffer, TLC

CONSTANTS Checked,         \* the parts of this run
          p1, p2, c1, c2,  \* threads of the send queue
          s1, s2,          \* senders, in pairs
          u1, u2, u3       \* and in threes

VARIABLE part

partsVars == <<part, queueVars, breakerVars, snapVars, credVars, poolVars, fastVars, rawVars>>

PartsInit ==
    /\ part \in Checked
    /\ QueueInit /\ BreakerInit /\ SnapshotInit /\ CredentialsInit
    /\ PoolInit /\ FastInit /\ RawInit

QueueSteps ==
    /\ part = "queue" /\ QueueNext
    /\ UNCHANGED <<part, breakerVars, snapVars, credVars, poolVars, fastVars, rawVars>>

BreakerSteps ==
    /\ part = "breaker" /\ BreakerNext
    /\ UNCHANGED <<part, queueVars, snapVars, credVars, poolVars, fastVars, rawVars>>

SnapshotSteps ==
    /\ part = "snapshot" /\ SnapshotNext
    /\ UNCHANGED <<part, queueVars, breakerVars, credVars, poolVars, fastVars, rawVars>>

CredentialsSteps ==
    /\ part = "credentials" /\ CredentialsNext
    /\ UNCHANGED <<part, queueVars, breakerVars, snapVars, poolVars, fastVars, rawVars>>

PoolSteps ==
    /\ part = "pool" /\ PoolNext
    /\ UNCHANGED <<part, queueVars, breakerVars, snapVars, credVars, fastVars, rawVars>>

FastSteps ==
    /\ part = "fast" /\ FastNext
    /\ UNCHANGED <<part, queueVars, breakerVars, snapVars, credVars, poolVars, rawVars>>

RawSteps ==
    /\ part = "raw" /\ RawNext
    /\ UNCHANGED <<part, queueVars, breakerVars, snapVars, credVars, poolVars, fastVars>>

PartsNext ==
    \/ QueueSteps \/ BreakerSteps \/ SnapshotSteps \/ CredentialsSteps
    \/ PoolSteps \/ FastSteps \/ RawSteps

PartsSpec == PartsInit /\ [][PartsNext]_partsVars

\* Each part with the fairness it states itself; where a part was not chosen
\* none of its fair steps is enabled, but for the calls of pop.
PartsFairSpec ==
    /\ PartsSpec
    /\ \A p \in Pushers : WF_queueVars(PushStep(p))
    /\ \A c \in Poppers : WF_queueVars(part = "queue" /\ PopStep(c))
    /\ BreakerFairness
    /\ CredentialsFairness

\* Pushers are interchangeable, and so are poppers.
Symmetry == Permutations({p1, p2}) \cup Permutations({c1, c2})
=============================================================================

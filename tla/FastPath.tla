------------------------------ MODULE FastPath ------------------------------
(***************************************************************************)
(* The short way through the senders: with neither order nor limits nor    *)
(* breakers configured (producer->fast_send), ve_tls_sender_main_fast      *)
(* takes a task from the send queue and sends it, without key queues.      *)
(* Close has to know about the tasks in the senders' hands: it reads the   *)
(* length of the send queue and then, apart from it, the counter           *)
(* fast_inflight, which a sender raises only after it has popped.          *)
(*                                                                         *)
(* The send queue is the bounded FIFO of SendFifo without its bound; what  *)
(* the workers have not pushed yet keeps the producer undrained.           *)
(***************************************************************************)
EXTENDS Integers, Sequences, FiniteSets

CONSTANTS FastSenders,  \* sender threads
          FastTasks,    \* send tasks
          FastAttempts  \* retry_policy.max_attempts

\* A producer has at least one sender.
ASSUME FastPathAssumption ==
    /\ IsFiniteSet(FastSenders) /\ FastSenders # {} /\ IsFiniteSet(FastTasks)
    /\ FastAttempts \in Nat \ {0}

VARIABLES unpushed,   \* tasks of the workers: queued, sealed or being flushed
          fastQueue,  \* send_queue
          halted,     \* send_queue.stop
          inflight,   \* fast_inflight
          fast,       \* each sender: [at, task, tries]
          closer,     \* the thread that closes or destroys the producer
          answers     \* history: the callbacks made for each task

fastVars == <<unpushed, fastQueue, halted, inflight, fast, closer, answers>>

FastIdle == [at |-> "pop", task |-> {}, tries |-> 0]

FastInit ==
    /\ unpushed = FastTasks /\ fastQueue = <<>> /\ halted = FALSE /\ inflight = 0
    /\ fast = [s \in FastSenders |-> FastIdle]
    /\ closer = "idle"
    /\ answers = [t \in FastTasks |-> 0]

\* A worker pushes; it does so after a stop too, with all it has left.
FastPush(t) ==
    /\ t \in unpushed /\ ~halted
    /\ unpushed' = unpushed \ {t}
    /\ fastQueue' = Append(fastQueue, t)
    /\ UNCHANGED <<halted, inflight, fast, closer, answers>>

\* The push is refused: stopped, full, or over the memory budget.  The worker
\* drops the task, with its callback (ve_tls_manager_drop_range).
FastRefused(t) ==
    /\ t \in unpushed
    /\ unpushed' = unpushed \ {t}
    /\ answers' = [answers EXCEPT ![t] = @ + 1]
    /\ UNCHANGED <<fastQueue, halted, inflight, fast, closer>>

-----------------------------------------------------------------------------
(* ve_tls_sender_main_fast *)

FastPop(s) ==
    /\ fast[s].at = "pop" /\ fastQueue # <<>>
    /\ fast' = [fast EXCEPT ![s] = [at |-> "count", task |-> {Head(fastQueue)}, tries |-> 0]]
    /\ fastQueue' = Tail(fastQueue)
    /\ UNCHANGED <<unpushed, halted, inflight, closer, answers>>

\* A pop fails only from an empty queue that is stopped.
FastExit(s) ==
    /\ fast[s].at = "pop" /\ halted /\ fastQueue = <<>>
    /\ fast' = [fast EXCEPT ![s].at = "exited"]
    /\ UNCHANGED <<unpushed, fastQueue, halted, inflight, closer, answers>>

\* fast_inflight is raised; a payload that cannot be read ends the task here.
FastCount(s) ==
    /\ fast[s].at = "count"
    /\ inflight' = inflight + 1
    /\ \E to \in {"send", "answer"} : fast' = [fast EXCEPT ![s].at = to]
    /\ UNCHANGED <<unpushed, fastQueue, halted, closer, answers>>

\* One attempt: sent, failed for good (no credentials, not retryable, the
\* total timeout over, or the last attempt), or failed and tried again after
\* a sleep, whether or not the producer stops meanwhile.
FastSend(s) ==
    /\ fast[s].at = "send"
    /\ \/ fast' = [fast EXCEPT ![s].at = "answer"]
       \/ /\ fast[s].tries + 1 < FastAttempts
          /\ fast' = [fast EXCEPT ![s].tries = @ + 1]
    /\ UNCHANGED <<unpushed, fastQueue, halted, inflight, closer, answers>>

\* The callbacks, of success or of VE_TLS_DROP_ERROR.
FastAnswer(s) ==
    /\ fast[s].at = "answer"
    /\ answers' = [t \in FastTasks |-> IF t \in fast[s].task THEN answers[t] + 1 ELSE answers[t]]
    /\ fast' = [fast EXCEPT ![s].at = "uncount"]
    /\ UNCHANGED <<unpushed, fastQueue, halted, inflight, closer>>

\* The task is released, and only then the counter lowered.
FastUncount(s) ==
    /\ fast[s].at = "uncount"
    /\ inflight' = inflight - 1
    /\ fast' = [fast EXCEPT ![s] = FastIdle]
    /\ UNCHANGED <<unpushed, fastQueue, halted, closer, answers>>

-----------------------------------------------------------------------------
(* Close and destroy *)

\* Close looks at the workers and at the queue first ...
FastCheckQueue ==
    /\ closer = "idle" /\ unpushed = {} /\ fastQueue = <<>>
    /\ closer' = "queue"
    /\ UNCHANGED <<unpushed, fastQueue, halted, inflight, fast, answers>>

\* ... then at the counter; a sender between its pop and its count is seen by
\* neither.  Undrained, close waits and looks again, or times out.
FastCheckInflight ==
    /\ closer = "queue"
    /\ closer' = IF inflight > 0 THEN "idle" ELSE "drained"
    /\ UNCHANGED <<unpushed, fastQueue, halted, inflight, fast, answers>>

\* Destroy does not ask.
FastDestroy ==
    /\ closer = "idle"
    /\ closer' = "destroy"
    /\ UNCHANGED <<unpushed, fastQueue, halted, inflight, fast, answers>>

FastStop ==
    /\ closer \in {"drained", "destroy"}
    /\ ~halted
    /\ halted' = TRUE
    /\ UNCHANGED <<unpushed, fastQueue, inflight, fast, closer, answers>>

\* Mutant: the senders are not joined.
FastJoinedNot == TRUE

FastJoined == \A s \in FastSenders : fast[s].at = "exited"

\* The workers are joined before the senders.
FastJoin ==
    /\ closer \in {"drained", "destroy"} /\ halted /\ unpushed = {} /\ FastJoined
    /\ closer' = "ended"
    /\ UNCHANGED <<unpushed, fastQueue, halted, inflight, fast, answers>>

FastNext ==
    \/ \E t \in FastTasks : FastPush(t) \/ FastRefused(t)
    \/ \E s \in FastSenders : \/ FastPop(s) \/ FastExit(s) \/ FastCount(s) \/ FastSend(s)
                              \/ FastAnswer(s) \/ FastUncount(s)
    \/ FastCheckQueue \/ FastCheckInflight \/ FastDestroy \/ FastStop \/ FastJoin

FastSpec == FastInit /\ [][FastNext]_fastVars

-----------------------------------------------------------------------------
(* Properties *)

\* Once close has returned VE_TLS_OK, or destroy is about to free the
\* producer, every task has had its callback, once, and no sender is left to
\* touch the producer: although the drain check misses a sender that has
\* popped and not counted yet.  fast_inflight is the number of tasks counted.
FastAnswered ==
    /\ inflight = Cardinality({s \in FastSenders : fast[s].at \in {"send", "answer", "uncount"}})
    /\ \A t \in FastTasks : answers[t] <= 1
    /\ closer = "ended" => /\ \A t \in FastTasks : answers[t] = 1
                           /\ \A s \in FastSenders : fast[s].at = "exited"
=============================================================================

-------------------------------- MODULE SendFifo --------------------------------
(***************************************************************************)
(* What the send queue promises: a bounded FIFO that can be closed.  After *)
(* the close nothing is accepted and what is inside can still be taken.    *)
(***************************************************************************)
EXTENDS Naturals, Sequences

CONSTANTS Items, Cap

VARIABLES
  queue,   \* the items inside, oldest first
  closed,  \* no more items are accepted
  taken    \* the items that were taken, in order

fifoVars == <<queue, closed, taken>>

FifoInit == queue = <<>> /\ closed = FALSE /\ taken = <<>>

Put(x) ==
  /\ ~closed /\ Len(queue) < Cap
  /\ queue' = Append(queue, x)
  /\ UNCHANGED <<closed, taken>>

Get ==
  /\ queue # <<>>
  /\ taken' = Append(taken, Head(queue))
  /\ queue' = Tail(queue)
  /\ UNCHANGED closed

CloseFifo ==
  /\ ~closed
  /\ closed' = TRUE
  /\ UNCHANGED <<queue, taken>>

FifoNext == (\E x \in Items : Put(x)) \/ Get \/ CloseFifo

FifoSpec == FifoInit /\ [][FifoNext]_fifoVars
=============================================================================

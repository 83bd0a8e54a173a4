----------------------------- MODULE BufferPool -----------------------------
(***************************************************************************)
(* What a VaDualPipe promises its callers, without lock, condition         *)
(* variable, polling or lists: a fixed set of buffers, each of which is at *)
(* any time with the pipe (idle), with one producer that fills it, queued  *)
(* for delivery, or delivered and not yet given back.  Queued buffers are  *)
(* delivered in the order they were published.  DualPipe implements this   *)
(* specification (see PoolSpec there).                                     *)
(***************************************************************************)
EXTENDS Sequences

CONSTANTS Buffers,    \* every buffer memalign may return
          Producers,  \* threads that call Get and Store
          NULL        \* a producer that holds no buffer

VARIABLES idle,       \* buffers a producer may acquire
          queued,     \* published buffers, oldest first
          filling,    \* the buffer each producer holds
          delivered   \* buffers handed to a consumer and not given back

poolVars == <<idle, queued, filling, delivered>>

PoolInit ==
  /\ idle \in SUBSET Buffers
  /\ queued = <<>>
  /\ filling = [p \in Producers |-> NULL]
  /\ delivered = {}

Acquire(p) ==
  \E b \in idle :
    /\ filling[p] = NULL
    /\ filling' = [filling EXCEPT ![p] = b]
    /\ idle' = idle \ {b}
    /\ UNCHANGED <<queued, delivered>>

Publish(p) ==
  /\ filling[p] # NULL
  /\ queued' = Append(queued, filling[p])
  /\ filling' = [filling EXCEPT ![p] = NULL]
  /\ UNCHANGED <<idle, delivered>>

Deliver ==
  /\ queued # <<>>
  /\ delivered' = delivered \cup {Head(queued)}
  /\ queued' = Tail(queued)
  /\ UNCHANGED <<idle, filling>>

GiveBack(b) ==
  /\ b \in delivered
  /\ delivered' = delivered \ {b}
  /\ idle' = idle \cup {b}
  /\ UNCHANGED <<queued, filling>>

\* The pipe is deleted: what it still holds is freed.
Discard ==
  /\ idle' = {}
  /\ queued' = <<>>
  /\ UNCHANGED <<filling, delivered>>

PoolNext ==
  \/ \E p \in Producers : Acquire(p) \/ Publish(p)
  \/ Deliver
  \/ \E b \in Buffers : GiveBack(b)
  \/ Discard

Spec == PoolInit /\ [][PoolNext]_poolVars
=============================================================================

------------------------------ MODULE DualPipe ------------------------------
(***************************************************************************)
(* VaDualPipe (dualpipe.cpp): the pair of buffer lists between a decoding  *)
(* thread and the thread that consumes its frames.                         *)
(*                                                                         *)
(* Each critical section under m_mutex is one step.  The steps that lie    *)
(* outside a critical section are separate: pthread_cond_signal comes      *)
(* after the unlock in Store, pthread_cond_wait releases the mutex, and    *)
(* Get sleeps between two polls.  Returning from a wait and the recheck of *)
(* m_outPipe under the mutex are two steps, so other threads can come in   *)
(* between.                                                                *)
(***************************************************************************)
EXTENDS Naturals, SequencesExt

CONSTANTS Buffers,    \* every buffer memalign may return
          Producers,  \* threads that call Get and Store (decoding)
          Consumers,  \* threads that call Load, LoadNoWait and Put
          NULL        \* no buffer, and nobody

ASSUME DualPipeAssumption ==
  /\ IsFiniteSet(Buffers)
  /\ IsFiniteSet(Producers)
  /\ IsFiniteSet(Consumers)
  /\ Producers \cap Consumers = {}
  /\ NULL \notin Buffers \cup Consumers

VARIABLES
  alive,     \* between Initialize and the destructor
  pool,      \* the buffers Initialize allocated and nobody freed
  inPipe,    \* m_inPipe, front first: empty buffers, used as a stack
  outPipe,   \* m_outPipe, front first: filled buffers, used as a queue
  filling,   \* what Get returned to each producer and it has not stored
  loader,    \* who loaded each buffer that nobody has put back, else NULL
  pc         \* where each thread is inside the pipe's operations

vars == <<alive, pool, inPipe, outPipe, filling, loader, pc>>

(* A producer is at "get" (outside, or polling in Get), "fill" (holds a    *)
(* buffer) or "signal" (in Store, mutex released, about to signal).        *)
(* A consumer is at "idle" (outside), "wait" (in cond_wait), "timedwait"   *)
(* (in cond_timedwait), "woken" (back from cond_wait) or "lastcheck" (back *)
(* from cond_timedwait: timeout is true, the list is looked at once more). *)
ProducerPlaces == {"get", "fill", "signal"}
ConsumerPlaces == {"idle", "wait", "timedwait", "woken", "lastcheck"}

Threads   == Producers \cup Consumers
Waiting   == {c \in Consumers : pc[c] \in {"wait", "timedwait"}}
Attending == {t \in Threads : pc[t] \in {"signal", "woken", "lastcheck"}}

Filled    == {filling[p] : p \in Producers} \ {NULL}
Loaded    == {b \in Buffers : loader[b] # NULL}
Holds(c)  == \E b \in Buffers : loader[b] = c

GoTo(t, place) == pc' = [pc EXCEPT ![t] = place]

-----------------------------------------------------------------------------
(* Initialize: one push_front per allocated buffer.  It gives up with -1   *)
(* at the first failed allocation and main.cpp ignores the result, so the  *)
(* pipe may own any number of buffers.                                     *)
Init ==
  /\ alive = TRUE
  /\ pool \in SUBSET Buffers
  /\ inPipe \in {s \in [1..Cardinality(pool) -> pool] : IsInjective(s)}
  /\ outPipe = <<>>
  /\ filling = [p \in Producers |-> NULL]
  /\ loader = [b \in Buffers |-> NULL]
  /\ pc = [t \in Threads |-> IF t \in Producers THEN "get" ELSE "idle"]

(* Get: pops the front of m_inPipe, and polls while it is empty.           *)
Get(p) ==
  /\ alive
  /\ pc[p] = "get"
  /\ inPipe # <<>>
  /\ filling' = [filling EXCEPT ![p] = Head(inPipe)]
  /\ inPipe' = Tail(inPipe)
  /\ GoTo(p, "fill")
  /\ UNCHANGED <<alive, pool, outPipe, loader>>

\* Faulty: the newest goes in front.
StoreInFront(p) ==
  /\ pc[p] = "fill"
  /\ outPipe' = Cons(filling[p], outPipe)
  /\ filling' = [filling EXCEPT ![p] = NULL]
  /\ GoTo(p, "signal")
  /\ UNCHANGED <<alive, pool, inPipe, loader>>

(* Store, the critical section.                                            *)
Store(p) ==
  /\ pc[p] = "fill"
  /\ outPipe' = Append(outPipe, filling[p])
  /\ filling' = [filling EXCEPT ![p] = NULL]
  /\ GoTo(p, "signal")
  /\ UNCHANGED <<alive, pool, inPipe, loader>>

(* Store, pthread_cond_signal: wakes one waiting thread, if there is one.  *)
Awake(place) == IF place = "wait" THEN "woken" ELSE "lastcheck"

\* Faulty: no signal.
SignalNobody(p) ==
  /\ pc[p] = "signal"
  /\ GoTo(p, "get")
  /\ UNCHANGED <<alive, pool, inPipe, outPipe, filling, loader>>

Signal(p) ==
  /\ pc[p] = "signal"
  /\ \/ /\ Waiting = {}
        /\ GoTo(p, "get")
     \/ \E c \in Waiting :
          pc' = [pc EXCEPT ![p] = "get", ![c] = Awake(pc[c])]
  /\ UNCHANGED <<alive, pool, inPipe, outPipe, filling, loader>>

(* The branch of Load and LoadNoWait that finds a buffer.                  *)
TakeFront(c) ==
  /\ outPipe # <<>>
  /\ loader' = [loader EXCEPT ![Head(outPipe)] = c]
  /\ outPipe' = Tail(outPipe)
  /\ GoTo(c, "idle")
  /\ UNCHANGED <<alive, pool, inPipe, filling>>

(* The branch of Load that blocks.                                         *)
Block(c, place) ==
  /\ outPipe = <<>>
  /\ GoTo(c, place)
  /\ UNCHANGED <<alive, pool, inPipe, outPipe, filling, loader>>

(* Load(NULL), from the call to the end of the first pass of its loop.  A  *)
(* thread that makes a call that may block has put back what it loaded     *)
(* (scheduler and tracker, main.cpp); LoadNoWait has no such rule.         *)
Load(c) ==
  /\ alive
  /\ pc[c] = "idle"
  /\ ~Holds(c)
  /\ TakeFront(c) \/ Block(c, "wait")

(* Load(abstime), likewise.                                                *)
LoadTimed(c) ==
  /\ alive
  /\ pc[c] = "idle"
  /\ ~Holds(c)
  /\ TakeFront(c) \/ Block(c, "timedwait")

\* Faulty: it waits again without a look.
RecheckNothing(c) ==
  /\ pc[c] = "woken"
  /\ GoTo(c, "wait")
  /\ UNCHANGED <<alive, pool, inPipe, outPipe, filling, loader>>

(* Load(NULL) after a wakeup: the loop looks at m_outPipe again.           *)
Recheck(c) ==
  /\ pc[c] = "woken"
  /\ TakeFront(c) \/ Block(c, "wait")

(* Load(abstime) after its one wait: a buffer, or NULL.                    *)
LastCheck(c) ==
  /\ pc[c] = "lastcheck"
  /\ TakeFront(c) \/ Block(c, "idle")

(* LoadNoWait returning a buffer; returning NULL changes nothing.          *)
LoadNoWait(c) ==
  /\ alive
  /\ pc[c] = "idle"
  /\ TakeFront(c)

(* The wait ends without a signal: abstime has passed, or the wakeup is    *)
(* spurious, which POSIX allows.                                           *)
WakeUp(c) ==
  /\ c \in Waiting
  /\ GoTo(c, Awake(pc[c]))
  /\ UNCHANGED <<alive, pool, inPipe, outPipe, filling, loader>>

\* Faulty: the buffer stays with its reader, or is forgotten.
PutAndKeep(c, b) ==
  /\ alive
  /\ pc[c] = "idle"
  /\ b \in Loaded \ ToSet(inPipe)
  /\ inPipe' = Cons(b, inPipe)
  /\ UNCHANGED <<alive, pool, outPipe, filling, loader, pc>>

PutNowhere(c, b) ==
  /\ alive
  /\ pc[c] = "idle"
  /\ b \in Loaded
  /\ loader' = [loader EXCEPT ![b] = NULL]
  /\ UNCHANGED <<alive, pool, inPipe, outPipe, filling, pc>>

(* Put: any consumer may give back a buffer, also one another thread       *)
(* loaded (the inference threads put back what the scheduler loaded).      *)
Put(c, b) ==
  /\ alive
  /\ pc[c] = "idle"
  /\ b \in Loaded
  /\ inPipe' = Cons(b, inPipe)
  /\ loader' = [loader EXCEPT ![b] = NULL]
  /\ UNCHANGED <<alive, pool, outPipe, filling, pc>>

(* The destructor frees what is in the two lists.  main.cpp runs it when   *)
(* it has joined the threads that use the pipe.                            *)
Destroy ==
  /\ alive
  /\ \A p \in Producers : pc[p] = "get"
  /\ \A c \in Consumers : pc[c] = "idle"
  /\ alive' = FALSE
  /\ pool' = pool \ (ToSet(inPipe) \cup ToSet(outPipe))
  /\ inPipe' = <<>>
  /\ outPipe' = <<>>
  /\ UNCHANGED <<filling, loader, pc>>

ProducerStep(p) == Get(p) \/ Store(p) \/ Signal(p)

ConsumerStep(c) ==
  \/ Load(c) \/ LoadTimed(c) \/ LoadNoWait(c)
  \/ Recheck(c) \/ LastCheck(c) \/ WakeUp(c)
  \/ \E b \in Buffers : Put(c, b)

Next ==
  \/ \E p \in Producers : ProducerStep(p)
  \/ \E c \in Consumers : ConsumerStep(c)
  \/ Destroy

Spec == Init /\ [][Next]_vars

(* Every thread keeps running its loop in main.cpp: a decoder gets and     *)
(* stores, a consumer loads, a loaded buffer is put back.  No fairness on  *)
(* WakeUp (a timeout may be far away) nor on Destroy.                      *)
Fairness ==
  /\ \A p \in Producers : WF_vars(ProducerStep(p))
  /\ \A c \in Consumers :
       /\ WF_vars(Load(c) \/ LoadTimed(c))
       /\ WF_vars(Recheck(c) \/ LastCheck(c))
  /\ \A b \in Buffers : WF_vars(\E c \in Consumers : Put(c, b))

FairSpec == Spec /\ Fairness

-----------------------------------------------------------------------------
TypeOK ==
  /\ alive \in BOOLEAN
  /\ pool \in SUBSET Buffers
  /\ inPipe \in Seq(Buffers)
  /\ outPipe \in Seq(Buffers)
  /\ filling \in [Producers -> Buffers \cup {NULL}]
  /\ loader \in [Buffers -> Consumers \cup {NULL}]
  /\ pc \in [Threads -> ProducerPlaces \cup ConsumerPlaces]
  /\ \A p \in Producers : /\ pc[p] \in ProducerPlaces
                          /\ pc[p] = "fill" <=> filling[p] # NULL
  /\ \A c \in Consumers : pc[c] \in ConsumerPlaces

(* No buffer is lost, and none is in two hands: every allocated buffer is  *)
(* in exactly one of the two lists, with one producer, or loaded, and no   *)
(* list holds it twice.  (imgbuf is read and written outside the mutex, so *)
(* this is what keeps decoder and detector off each other's frame.)        *)
Ownership ==
  /\ IsInjective(inPipe) /\ IsInjective(outPipe)
  /\ ToSet(inPipe) \cap ToSet(outPipe) = {}
  /\ Filled \cap (ToSet(inPipe) \cup ToSet(outPipe) \cup Loaded) = {}
  /\ Loaded \cap (ToSet(inPipe) \cup ToSet(outPipe)) = {}
  /\ \A p, q \in Producers :
       filling[p] = filling[q] /\ filling[p] # NULL => p = q
  /\ pool = ToSet(inPipe) \cup ToSet(outPipe) \cup Filled \cup Loaded

(* No lost wakeup, although Store signals after the unlock, LoadNoWait can *)
(* steal the buffer a signal was meant for, and a timed-out waiter can eat *)
(* a signal: while a consumer sleeps, each queued buffer has a thread of   *)
(* its own that is about to signal or to look at the list.                 *)
NoLostWakeup ==
  Waiting = {} \/ Len(outPipe) <= Cardinality(Attending)

(* The pipe is a first-in first-out pool of exclusively owned buffers.     *)
Pool == INSTANCE BufferPool
          WITH idle <- ToSet(inPipe), queued <- outPipe, delivered <- Loaded
PoolSpec == Pool!Spec

(* A stored frame does not stay behind in m_outPipe while consumers run.   *)
StoredIsDelivered ==
  \A b \in Buffers : b \in ToSet(outPipe) ~> b \notin ToSet(outPipe)

(* Decoders polling in Get are served, unless no buffer was allocated: no  *)
(* buffer disappears on its way back.  (With two decoders on one pipe, Get *)
(* would not say which of them; main.cpp has one.)                         *)
DecoderServed ==
  (pool # {} /\ \E p \in Producers : pc[p] = "get") ~>
    (~alive \/ \E p \in Producers : pc[p] = "fill")
=============================================================================

--------------------------- MODULE DualPipeProofs ---------------------------
(***************************************************************************)
(* Theorems about VaDualPipe for any number of buffers and threads.  The   *)
(* inductive invariant is TypeOK, the meaning of the program counters      *)
(* (Phase), exclusive ownership of the buffers and NoLostWakeup.           *)
(***************************************************************************)
EXTENDS DualPipe, SequenceTheorems, FiniteSetTheorems, TLAPS

-----------------------------------------------------------------------------
(* Lists of buffers.                                                       *)

(* push_back of a buffer that is not in the list. *)
LEMMA AppendNew ==
  ASSUME NEW S, NEW s \in Seq(S), NEW e \in S
  PROVE  /\ Append(s, e) \in Seq(S)
         /\ Len(Append(s, e)) = Len(s) + 1
         /\ ToSet(Append(s, e)) = ToSet(s) \cup {e}
         /\ IsInjective(s) /\ e \notin ToSet(s) => IsInjective(Append(s, e))
<1> DEFINE t == Append(s, e)
<1>1. /\ t \in Seq(S)
      /\ Len(t) = Len(s) + 1
      /\ \A i \in 1..Len(s) : t[i] = s[i]
      /\ t[Len(s) + 1] = e
  BY AppendProperties
<1>2. DOMAIN t = 1..(Len(s) + 1) /\ DOMAIN s = 1..Len(s) /\ Len(s) \in Nat
  BY <1>1, LenProperties
<1>3. DOMAIN t = DOMAIN s \cup {Len(s) + 1}
  BY <1>2
<1>4. ToSet(t) = ToSet(s) \cup {e}
  BY <1>1, <1>2, <1>3 DEF ToSet
<1>5. IsInjective(s) /\ e \notin ToSet(s) => IsInjective(t)
  BY <1>1, <1>2, <1>3 DEF ToSet, IsInjective
<1> QED
  BY <1>1, <1>4, <1>5

(* pop_front of a list without duplicates. *)
LEMMA PopFront ==
  ASSUME NEW S, NEW s \in Seq(S), s # <<>>
  PROVE  /\ Head(s) \in S
         /\ Head(s) \in ToSet(s)
         /\ Tail(s) \in Seq(S)
         /\ Len(Tail(s)) = Len(s) - 1
         /\ IsInjective(s) => /\ IsInjective(Tail(s))
                              /\ ToSet(Tail(s)) = ToSet(s) \ {Head(s)}
<1> DEFINE t == Tail(s)
<1>1. /\ Head(s) \in S
      /\ t \in Seq(S)
      /\ Len(t) = Len(s) - 1
      /\ \A i \in 1..Len(t) : t[i] = s[i + 1]
  BY HeadTailProperties
<1>2. Len(s) \in Nat \ {0} /\ DOMAIN s = 1..Len(s) /\ DOMAIN t = 1..(Len(s) - 1)
  BY <1>1, LenProperties, EmptySeq
<1>3. Head(s) = s[1]
  BY <1>2
<1>4. Head(s) \in ToSet(s)
  BY <1>2, <1>3 DEF ToSet
<1>5. ASSUME IsInjective(s)
      PROVE  IsInjective(t) /\ ToSet(t) = ToSet(s) \ {Head(s)}
  <2>1. \A i, j \in 1..Len(s) : s[i] = s[j] => i = j
    BY <1>2, <1>5 DEF IsInjective
  <2>2. \A i \in DOMAIN t : i + 1 \in 1..Len(s) /\ i + 1 # 1 /\ t[i] = s[i + 1]
    BY <1>1, <1>2
  <2>3. IsInjective(t)
    <3>1. ASSUME NEW i \in DOMAIN t, NEW j \in DOMAIN t, t[i] = t[j]
          PROVE  i = j
      <4>1. i + 1 = j + 1
        BY <2>1, <2>2, <3>1
      <4> QED
        BY <4>1, <1>2
    <3> QED
      BY <3>1 DEF IsInjective
  <2>4. ToSet(t) \subseteq ToSet(s) \ {Head(s)}
    BY <1>2, <1>3, <2>1, <2>2 DEF ToSet
  <2>5. ASSUME NEW x \in ToSet(s) \ {Head(s)}
        PROVE  x \in ToSet(t)
    <3>1. PICK i \in 1..Len(s) : x = s[i]
      BY <1>2 DEF ToSet
    <3>2. i # 1
      BY <1>3, <3>1
    <3>3. i - 1 \in DOMAIN t /\ t[i - 1] = s[i]
      <4>1. i - 1 \in 1..Len(t)
        BY <3>2, <1>1, <1>2
      <4> QED
        BY <4>1, <1>1, <1>2
    <3> QED
      BY <3>1, <3>3 DEF ToSet
  <2> QED
    BY <2>3, <2>4, <2>5
<1> QED
  BY <1>1, <1>4, <1>5

(* push_front of a buffer that is not in the list. *)
LEMMA PushFront ==
  ASSUME NEW S, NEW s \in Seq(S), NEW e \in S
  PROVE  /\ Cons(e, s) \in Seq(S)
         /\ ToSet(Cons(e, s)) = ToSet(s) \cup {e}
         /\ IsInjective(s) /\ e \notin ToSet(s) => IsInjective(Cons(e, s))
<1> DEFINE t == <<e>> \o s
<1>1. Len(s) \in Nat /\ DOMAIN s = 1..Len(s)
  BY LenProperties
<1>2. /\ t \in Seq(S)
      /\ Len(t) = Len(s) + 1
      /\ t[1] = e
      /\ \A i \in 2..(Len(s) + 1) : t[i] = s[i - 1]
  BY <1>1
<1>3. DOMAIN t = 1..(Len(s) + 1)
  BY <1>2, LenProperties
<1>4. \A i \in 1..Len(s) : i + 1 \in DOMAIN t /\ t[i + 1] = s[i]
  <2>1. ASSUME NEW i \in 1..Len(s)
        PROVE  i + 1 \in 2..(Len(s) + 1) /\ (i + 1) - 1 = i
    BY <1>1
  <2> QED
    BY <2>1, <1>1, <1>2, <1>3
<1>5. ToSet(t) = ToSet(s) \cup {e}
  <2>1. ToSet(t) \subseteq ToSet(s) \cup {e}
    <3>1. ASSUME NEW i \in DOMAIN t
          PROVE  t[i] \in ToSet(s) \cup {e}
      <4>1. CASE i = 1
        BY <4>1, <1>2
      <4>2. CASE i # 1
        <5>1. i - 1 \in DOMAIN s /\ t[i] = s[i - 1]
          BY <4>2, <1>1, <1>2, <1>3
        <5> QED
          BY <5>1 DEF ToSet
      <4> QED
        BY <4>1, <4>2
    <3> QED
      BY <3>1 DEF ToSet
  <2>2. e \in ToSet(t)
    <3>1. 1 \in DOMAIN t
      BY <1>1, <1>3
    <3> QED
      BY <3>1, <1>2 DEF ToSet
  <2>3. ToSet(s) \subseteq ToSet(t)
    BY <1>1, <1>4 DEF ToSet
  <2> QED
    BY <2>1, <2>2, <2>3
<1>6. ASSUME IsInjective(s), e \notin ToSet(s)
      PROVE  IsInjective(t)
  <2>1. \A i \in DOMAIN t \ {1} : i - 1 \in DOMAIN s /\ t[i] = s[i - 1]
    BY <1>1, <1>2, <1>3
  <2>2. \A i \in DOMAIN t \ {1} : t[i] # e
    BY <2>1, <1>6 DEF ToSet
  <2>3. \A i, j \in DOMAIN t \ {1} : t[i] = t[j] => i - 1 = j - 1
    BY <2>1, <1>6 DEF IsInjective
  <2>4. \A i, j \in DOMAIN t \ {1} : t[i] = t[j] => i = j
    BY <2>3, <1>1, <1>3
  <2> QED
    BY <2>2, <2>4, <1>2 DEF IsInjective
<1> QED
  BY <1>2, <1>5, <1>6 DEF Cons

-----------------------------------------------------------------------------
(* The inductive invariant.                                                *)

IInv == TypeOK /\ Ownership /\ NoLostWakeup

(* Initialize pushes every buffer it allocated exactly once. *)
LEMMA InitInv == Init => IInv
<1> SUFFICES ASSUME Init PROVE IInv
  OBVIOUS
<1> USE DualPipeAssumption
<1>1. IsFiniteSet(pool) /\ Cardinality(pool) \in Nat
  BY FS_Subset, FS_CardinalityType DEF Init
<1>2. inPipe \in Injection(1..Cardinality(pool), pool)
  BY DEF Init, Injection
<1>3. Cardinality(1..Cardinality(pool)) = Cardinality(pool)
  BY <1>1, FS_Interval
<1>4. inPipe \in Surjection(1..Cardinality(pool), pool)
  BY <1>1, <1>2, <1>3, FS_Injection
<1>5. ToSet(inPipe) = pool
  BY <1>2, <1>4 DEF ToSet, Surjection, Injection
<1>6. inPipe \in Seq(Buffers)
  <2>1. inPipe \in [1..Cardinality(pool) -> Buffers]
    BY DEF Init
  <2> QED
    BY <2>1, <1>1, SeqDef
<1>7. TypeOK
  BY <1>6 DEF Init, TypeOK, Threads, ProducerPlaces, ConsumerPlaces
<1>8. outPipe = <<>> /\ ToSet(outPipe) = {} /\ IsInjective(outPipe)
  BY DEF Init, ToSet, IsInjective
<1>9. Filled = {} /\ Loaded = {}
  BY DEF Init, Filled, Loaded
<1>10. Ownership
  <2>1. IsInjective(inPipe)
    BY DEF Init
  <2>2. \A p \in Producers : filling[p] = NULL
    BY DEF Init
  <2> QED
    BY <2>1, <2>2, <1>5, <1>8, <1>9 DEF Ownership
<1>11. Waiting = {}
  BY DEF Init, Waiting, Threads
<1> QED
  BY <1>7, <1>10, <1>11 DEF IInv, NoLostWakeup

LEMMA TypeStep == TypeOK /\ [Next]_vars => TypeOK'
<1> SUFFICES ASSUME TypeOK, [Next]_vars PROVE TypeOK'
  OBVIOUS
<1> USE DualPipeAssumption DEF TypeOK, Threads, ProducerPlaces, ConsumerPlaces
<1>1. ASSUME NEW p \in Producers, Get(p) PROVE TypeOK'
  BY <1>1, PopFront DEF Get, GoTo
<1>2. ASSUME NEW p \in Producers, Store(p) PROVE TypeOK'
  <2>1. filling[p] \in Buffers
    BY <1>2 DEF Store
  <2> QED
    BY <1>2, <2>1, AppendNew DEF Store, GoTo
<1>3. ASSUME NEW p \in Producers, Signal(p) PROVE TypeOK'
  BY <1>3 DEF Signal, GoTo, Awake, Waiting
<1>4. ASSUME NEW c \in Consumers, TakeFront(c) PROVE TypeOK'
  BY <1>4, PopFront DEF TakeFront, GoTo
<1>5. ASSUME NEW c \in Consumers, NEW place \in ConsumerPlaces, Block(c, place)
      PROVE TypeOK'
  BY <1>5 DEF Block, GoTo
<1>6. ASSUME NEW c \in Consumers, WakeUp(c) PROVE TypeOK'
  BY <1>6 DEF WakeUp, GoTo, Awake, Waiting
<1>7. ASSUME NEW c \in Consumers, NEW b \in Buffers, Put(c, b) PROVE TypeOK'
  BY <1>7, PushFront DEF Put
<1>8. ASSUME Destroy PROVE TypeOK'
  <2>1. alive' \in BOOLEAN
    BY <1>8 DEF Destroy
  <2>2. <<>> \in Seq(Buffers)
    BY EmptySeq
  <2>3. pool' \in SUBSET Buffers /\ inPipe' \in Seq(Buffers) /\ outPipe' \in Seq(Buffers)
    BY <1>8, <2>2 DEF Destroy
  <2> QED
    BY <1>8, <2>1, <2>3 DEF Destroy
<1>9. CASE UNCHANGED vars
  BY <1>9 DEF vars
<1> QED
  BY <1>1, <1>2, <1>3, <1>4, <1>5, <1>6, <1>7, <1>8, <1>9
     DEF Next, ProducerStep, ConsumerStep, Load, LoadTimed, LoadNoWait,
         Recheck, LastCheck

(* Who holds which buffer, action by action. *)
LEMMA OwnershipStep == TypeOK /\ Ownership /\ [Next]_vars => Ownership'
<1> SUFFICES ASSUME TypeOK, Ownership, [Next]_vars PROVE Ownership'
  OBVIOUS
<1> USE DualPipeAssumption
<1>a. ASSUME UNCHANGED <<pool, inPipe, outPipe, filling, loader>>
      PROVE  Ownership'
  BY <1>a DEF Ownership, Filled, Loaded, ToSet, IsInjective
<1>1. ASSUME NEW p \in Producers, Get(p) PROVE Ownership'
  <2> DEFINE b == Head(inPipe)
  <2>1. /\ b \in Buffers /\ b \in ToSet(inPipe)
        /\ IsInjective(inPipe') /\ ToSet(inPipe') = ToSet(inPipe) \ {b}
    BY <1>1, PopFront DEF Get, TypeOK, Ownership
  <2>2. filling[p] = NULL /\ filling' = [filling EXCEPT ![p] = b]
    BY <1>1 DEF Get, TypeOK
  <2>3. Filled' = Filled \cup {b}
    BY <2>1, <2>2 DEF Filled, TypeOK
  <2>4. b \notin Filled /\ b \notin Loaded /\ b \notin ToSet(outPipe)
    BY <2>1 DEF Ownership
  <2>5. \A q \in Producers : filling[q] # b
    BY <2>1, <2>4 DEF Filled
  <2>6. \A q, r \in Producers :
          filling'[q] = filling'[r] /\ filling'[q] # NULL => q = r
    BY <2>2, <2>5 DEF TypeOK, Ownership
  <2>7. UNCHANGED <<pool, outPipe, loader>> /\ Loaded' = Loaded
    BY <1>1 DEF Get, Loaded
  <2> QED
    BY <2>1, <2>3, <2>4, <2>6, <2>7 DEF Ownership
<1>2. ASSUME NEW p \in Producers, Store(p) PROVE Ownership'
  <2> DEFINE b == filling[p]
  <2>1. b \in Buffers /\ b \in Filled
    BY <1>2 DEF Store, TypeOK, Filled
  <2>2. b \notin ToSet(outPipe) /\ b \notin ToSet(inPipe) /\ b \notin Loaded
    BY <2>1 DEF Ownership
  <2>3. IsInjective(outPipe') /\ ToSet(outPipe') = ToSet(outPipe) \cup {b}
    BY <1>2, <2>1, <2>2, AppendNew DEF Store, TypeOK, Ownership
  <2>4. filling' = [filling EXCEPT ![p] = NULL]
    BY <1>2 DEF Store
  <2>5. \A q \in Producers \ {p} : filling[q] # b
    BY <2>1 DEF Ownership
  <2>6. Filled' = Filled \ {b}
    BY <2>1, <2>4, <2>5 DEF Filled, TypeOK
  <2>7. \A q, r \in Producers :
          filling'[q] = filling'[r] /\ filling'[q] # NULL => q = r
    BY <2>4 DEF TypeOK, Ownership
  <2>8. UNCHANGED <<pool, inPipe, loader>> /\ Loaded' = Loaded
    BY <1>2 DEF Store, Loaded
  <2> QED
    BY <2>1, <2>2, <2>3, <2>6, <2>7, <2>8 DEF Ownership
<1>3. ASSUME NEW p \in Producers, Signal(p) PROVE Ownership'
  BY <1>3, <1>a DEF Signal
<1>4. ASSUME NEW c \in Consumers, TakeFront(c) PROVE Ownership'
  <2> DEFINE b == Head(outPipe)
  <2>1. /\ b \in Buffers /\ b \in ToSet(outPipe)
        /\ IsInjective(outPipe') /\ ToSet(outPipe') = ToSet(outPipe) \ {b}
    BY <1>4, PopFront DEF TakeFront, TypeOK, Ownership
  <2>2. b \notin Filled /\ b \notin Loaded /\ b \notin ToSet(inPipe)
    BY <2>1 DEF Ownership
  <2>3. loader' = [loader EXCEPT ![b] = c] /\ c # NULL
    BY <1>4 DEF TakeFront
  <2>4. Loaded' = Loaded \cup {b}
    BY <2>1, <2>3 DEF Loaded, TypeOK
  <2>5. UNCHANGED <<pool, inPipe, filling>> /\ Filled' = Filled
    BY <1>4 DEF TakeFront, Filled
  <2> QED
    BY <2>1, <2>2, <2>4, <2>5 DEF Ownership
<1>5. ASSUME NEW c \in Consumers, NEW place \in ConsumerPlaces, Block(c, place)
      PROVE Ownership'
  BY <1>5, <1>a DEF Block
<1>6. ASSUME NEW c \in Consumers, WakeUp(c) PROVE Ownership'
  BY <1>6, <1>a DEF WakeUp
<1>7. ASSUME NEW c \in Consumers, NEW b \in Buffers, Put(c, b) PROVE Ownership'
  <2>1. b \in Loaded /\ b \notin Filled
        /\ b \notin ToSet(inPipe) /\ b \notin ToSet(outPipe)
    BY <1>7 DEF Put, Ownership
  <2>2. IsInjective(inPipe') /\ ToSet(inPipe') = ToSet(inPipe) \cup {b}
    BY <1>7, <2>1, PushFront DEF Put, TypeOK, Ownership
  <2>3. Loaded' = Loaded \ {b}
    BY <1>7 DEF Put, Loaded, TypeOK
  <2>4. UNCHANGED <<pool, outPipe, filling>> /\ Filled' = Filled
    BY <1>7 DEF Put, Filled
  <2> QED
    BY <2>1, <2>2, <2>3, <2>4 DEF Ownership
<1>8. ASSUME Destroy PROVE Ownership'
  <2>1. UNCHANGED <<filling, loader>> /\ Filled' = Filled /\ Loaded' = Loaded
    BY <1>8 DEF Destroy, Filled, Loaded
  <2>2. inPipe' = <<>> /\ outPipe' = <<>>
    BY <1>8 DEF Destroy
  <2>3. ToSet(<<>>) = {} /\ IsInjective(<<>>)
    BY DEF ToSet, IsInjective
  <2>4. pool' = Filled \cup Loaded
    BY <1>8 DEF Destroy, Ownership
  <2> QED
    BY <2>1, <2>2, <2>3, <2>4 DEF Ownership
<1>9. CASE UNCHANGED vars
  BY <1>9, <1>a DEF vars
<1> QED
  BY <1>1, <1>2, <1>3, <1>4, <1>5, <1>6, <1>7, <1>8, <1>9
     DEF Next, ProducerStep, ConsumerStep, Load, LoadTimed, LoadNoWait,
         Recheck, LastCheck, ConsumerPlaces

(* Counting the threads that are about to look at m_outPipe. *)
LEMMA AttendingFinite ==
  /\ IsFiniteSet(Attending) /\ Cardinality(Attending) \in Nat
  /\ IsFiniteSet(Attending') /\ Cardinality(Attending') \in Nat
<1>1. IsFiniteSet(Threads)
  BY FS_Union, DualPipeAssumption DEF Threads
<1>2. Attending \in SUBSET Threads /\ Attending' \in SUBSET Threads
  BY DEF Attending
<1> QED
  BY <1>1, <1>2, FS_Subset, FS_CardinalityType

LEMMA WakeupStep == TypeOK /\ NoLostWakeup /\ [Next]_vars => NoLostWakeup'
<1> SUFFICES ASSUME TypeOK, NoLostWakeup, [Next]_vars PROVE NoLostWakeup'
  OBVIOUS
<1> USE DualPipeAssumption, AttendingFinite
<1>a. Len(outPipe) \in Nat
  BY LenProperties DEF TypeOK
<1>b. ASSUME Len(outPipe') = 0 PROVE NoLostWakeup'
  BY <1>b DEF NoLostWakeup
<1>1. ASSUME NEW p \in Producers, Get(p) PROVE NoLostWakeup'
  <2>1. Waiting' = Waiting /\ Attending' = Attending
    BY <1>1 DEF Get, GoTo, TypeOK, Waiting, Attending, Threads
  <2> QED
    BY <1>1, <2>1 DEF Get, NoLostWakeup
<1>2. ASSUME NEW p \in Producers, Store(p) PROVE NoLostWakeup'
  <2>1. Waiting' = Waiting
    BY <1>2 DEF Store, GoTo, TypeOK, Waiting, Threads
  <2>2. Attending' = Attending \cup {p} /\ p \notin Attending
    BY <1>2 DEF Store, GoTo, TypeOK, Attending, Threads
  <2>3. Cardinality(Attending') = Cardinality(Attending) + 1
    BY <2>2, FS_AddElement
  <2>4. Len(outPipe') = Len(outPipe) + 1
    BY <1>2, AppendNew DEF Store, TypeOK
  <2> QED
    BY <1>a, <2>1, <2>3, <2>4 DEF NoLostWakeup
<1>3. ASSUME NEW p \in Producers, Signal(p) PROVE NoLostWakeup'
  <2>1. CASE Waiting = {} /\ GoTo(p, "get")
    <3>1. Waiting' = {}
      BY <2>1 DEF GoTo, TypeOK, Waiting, Threads
    <3> QED
      BY <3>1 DEF NoLostWakeup
  <2>2. ASSUME NEW c \in Waiting,
               pc' = [pc EXCEPT ![p] = "get", ![c] = Awake(pc[c])]
        PROVE  NoLostWakeup'
    <3>1. c \in Consumers /\ c # p /\ c \notin Attending /\ p \in Attending
      BY <1>3 DEF Signal, Waiting, Attending, Threads
    <3>2. /\ pc'[p] = "get" /\ pc'[c] \in {"woken", "lastcheck"}
          /\ \A t \in Threads \ {p, c} : pc'[t] = pc[t]
      BY <2>2, <3>1 DEF TypeOK, Threads, Awake
    <3>3. Attending' = (Attending \ {p}) \cup {c}
      BY <3>1, <3>2 DEF Attending, Threads
    <3>4. Cardinality(Attending') = Cardinality(Attending)
      <4>1. /\ IsFiniteSet(Attending \ {p})
            /\ Cardinality(Attending \ {p}) = Cardinality(Attending) - 1
        BY <3>1, FS_RemoveElement
      <4>2. Cardinality((Attending \ {p}) \cup {c}) = Cardinality(Attending \ {p}) + 1
        BY <3>1, <4>1, FS_AddElement
      <4> QED
        BY <3>3, <4>1, <4>2
    <3>5. outPipe' = outPipe
      BY <1>3 DEF Signal
    <3> QED
      BY <3>4, <3>5 DEF NoLostWakeup
  <2> QED
    BY <1>3, <2>1, <2>2 DEF Signal
<1>4. ASSUME NEW c \in Consumers, pc[c] \in {"idle", "woken", "lastcheck"},
             TakeFront(c)
      PROVE  NoLostWakeup'
  <2>1. Waiting' = Waiting
    BY <1>4 DEF TakeFront, GoTo, TypeOK, Waiting, Threads
  <2>2. Attending' = Attending \ {c}
    BY <1>4 DEF TakeFront, GoTo, TypeOK, Attending, Threads
  <2>3. Cardinality(Attending') >= Cardinality(Attending) - 1
    BY <2>2, FS_RemoveElement
  <2>4. Len(outPipe') = Len(outPipe) - 1
    BY <1>4, PopFront DEF TakeFront, TypeOK
  <2> QED
    BY <1>a, <2>1, <2>3, <2>4 DEF NoLostWakeup
<1>5. ASSUME NEW c \in Consumers, NEW place \in ConsumerPlaces, Block(c, place)
      PROVE  NoLostWakeup'
  BY <1>5, <1>b, EmptySeq DEF Block
<1>6. ASSUME NEW c \in Consumers, WakeUp(c) PROVE NoLostWakeup'
  <2>1. c \in Waiting /\ c \notin Attending
    BY <1>6 DEF WakeUp, Waiting, Attending
  <2>2. Attending' = Attending \cup {c}
    BY <1>6, <2>1 DEF WakeUp, GoTo, Awake, TypeOK, Attending, Waiting, Threads
  <2>3. Cardinality(Attending') >= Cardinality(Attending)
    BY <2>2, FS_AddElement
  <2>4. outPipe' = outPipe
    BY <1>6 DEF WakeUp
  <2> QED
    BY <1>a, <2>1, <2>3, <2>4 DEF NoLostWakeup
<1>7. ASSUME NEW c \in Consumers, NEW b \in Buffers, Put(c, b)
      PROVE  NoLostWakeup'
  BY <1>7 DEF Put, NoLostWakeup, Waiting, Attending
<1>8. ASSUME Destroy PROVE NoLostWakeup'
  BY <1>8, <1>b, EmptySeq DEF Destroy
<1>9. CASE UNCHANGED vars
  BY <1>9 DEF vars, NoLostWakeup, Waiting, Attending
<1> QED
  BY <1>1, <1>2, <1>3, <1>4, <1>5, <1>6, <1>7, <1>8, <1>9
     DEF Next, ProducerStep, ConsumerStep, Load, LoadTimed, LoadNoWait,
         Recheck, LastCheck, ConsumerPlaces

LEMMA InvStep == IInv /\ [Next]_vars => IInv'
BY TypeStep, OwnershipStep, WakeupStep DEF IInv

-----------------------------------------------------------------------------
(* The types of the pipe's state and, for each thread, where it can be in  *)
(* Get, Store, Load, LoadNoWait and Put.                                   *)
THEOREM TypeCorrect == Spec => []TypeOK
<1>1. IInv => TypeOK
  BY DEF IInv
<1> QED
  BY InitInv, InvStep, <1>1, PTL DEF Spec

(* Whatever the number of buffers and threads, and however many of the     *)
(* allocations of Initialize failed: every buffer is in one hand.          *)
THEOREM OwnershipHolds == Spec => []Ownership
<1>1. IInv => Ownership
  BY DEF IInv
<1> QED
  BY InitInv, InvStep, <1>1, PTL DEF Spec

(* Signalling after the unlock, stolen buffers, timeouts and spurious      *)
(* wakeups together never leave a consumer asleep over a queued buffer     *)
(* that nobody is about to look at.                                        *)
THEOREM NoLostWakeupHolds == Spec => []NoLostWakeup
<1>1. IInv => NoLostWakeup
  BY DEF IInv
<1> QED
  BY InitInv, InvStep, <1>1, PTL DEF Spec

-----------------------------------------------------------------------------
(* Every step of the pipe is a step of the pool of exclusively owned       *)
(* buffers, or invisible in it.                                            *)
LEMMA PoolStep == IInv /\ [Next]_vars => [Pool!PoolNext]_(Pool!poolVars)
<1> SUFFICES ASSUME TypeOK, Ownership, [Next]_vars
             PROVE  [Pool!PoolNext]_(Pool!poolVars)
  BY DEF IInv
<1> USE DualPipeAssumption
<1>a. ASSUME UNCHANGED <<inPipe, outPipe, filling, loader>>
      PROVE  UNCHANGED Pool!poolVars
  BY <1>a DEF Pool!poolVars, Loaded, ToSet
<1>1. ASSUME NEW p \in Producers, Get(p) PROVE Pool!PoolNext
  <2> DEFINE b == Head(inPipe)
  <2>1. b \in ToSet(inPipe) /\ ToSet(inPipe') = ToSet(inPipe) \ {b}
    BY <1>1, PopFront DEF Get, TypeOK, Ownership
  <2>2. ToSet(inPipe)' = ToSet(inPipe') /\ Loaded' = Loaded
    BY <1>1 DEF Get, ToSet, Loaded
  <2>3. Pool!Acquire(p)
    BY <1>1, <2>1, <2>2 DEF Pool!Acquire, Get, TypeOK
  <2> QED
    BY <2>3 DEF Pool!PoolNext
<1>2. ASSUME NEW p \in Producers, Store(p) PROVE Pool!PoolNext
  <2>1. ToSet(inPipe)' = ToSet(inPipe) /\ Loaded' = Loaded
    BY <1>2 DEF Store, ToSet, Loaded
  <2>2. Pool!Publish(p)
    BY <1>2, <2>1 DEF Pool!Publish, Store, TypeOK
  <2> QED
    BY <2>2 DEF Pool!PoolNext
<1>3. ASSUME NEW p \in Producers, Signal(p) PROVE UNCHANGED Pool!poolVars
  BY <1>3, <1>a DEF Signal
<1>4. ASSUME NEW c \in Consumers, TakeFront(c) PROVE Pool!PoolNext
  <2> DEFINE b == Head(outPipe)
  <2>1. b \in Buffers
    BY <1>4, PopFront DEF TakeFront, TypeOK
  <2>2. Loaded' = Loaded \cup {b}
    BY <1>4, <2>1 DEF TakeFront, Loaded, TypeOK
  <2>3. ToSet(inPipe)' = ToSet(inPipe)
    BY <1>4 DEF TakeFront, ToSet
  <2>4. Pool!Deliver
    BY <1>4, <2>2, <2>3 DEF Pool!Deliver, TakeFront
  <2> QED
    BY <2>4 DEF Pool!PoolNext
<1>5. ASSUME NEW c \in Consumers, NEW place \in ConsumerPlaces, Block(c, place)
      PROVE  UNCHANGED Pool!poolVars
  BY <1>5, <1>a DEF Block
<1>6. ASSUME NEW c \in Consumers, WakeUp(c) PROVE UNCHANGED Pool!poolVars
  BY <1>6, <1>a DEF WakeUp
<1>7. ASSUME NEW c \in Consumers, NEW b \in Buffers, Put(c, b)
      PROVE  Pool!PoolNext
  <2>1. ToSet(inPipe') = ToSet(inPipe) \cup {b}
    BY <1>7, PushFront DEF Put, TypeOK
  <2>2. ToSet(inPipe)' = ToSet(inPipe')
    BY DEF ToSet
  <2>3. b \in Loaded /\ Loaded' = Loaded \ {b}
    BY <1>7 DEF Put, Loaded, TypeOK
  <2>4. Pool!GiveBack(b)
    BY <1>7, <2>1, <2>2, <2>3 DEF Pool!GiveBack, Put
  <2> QED
    BY <2>4 DEF Pool!PoolNext
<1>8. ASSUME Destroy PROVE Pool!PoolNext
  <2>1. ToSet(inPipe)' = {} /\ Loaded' = Loaded
    BY <1>8 DEF Destroy, ToSet, Loaded
  <2>2. Pool!Discard
    BY <1>8, <2>1 DEF Pool!Discard, Destroy
  <2> QED
    BY <2>2 DEF Pool!PoolNext
<1>9. CASE UNCHANGED vars
  BY <1>9, <1>a DEF vars
<1> QED
  BY <1>1, <1>2, <1>3, <1>4, <1>5, <1>6, <1>7, <1>8, <1>9
     DEF Next, ProducerStep, ConsumerStep, Load, LoadTimed, LoadNoWait,
         Recheck, LastCheck, ConsumerPlaces

(* VaDualPipe implements the FIFO buffer pool its callers rely on.         *)
THEOREM ImplementsPool == Spec => PoolSpec
<1>1. Init => Pool!PoolInit
  <2> SUFFICES ASSUME Init PROVE Pool!PoolInit
    OBVIOUS
  <2>1. Ownership /\ TypeOK
    BY InitInv DEF IInv
  <2>2. ToSet(inPipe) \in SUBSET Buffers
    BY <2>1 DEF Ownership, TypeOK
  <2>3. Loaded = {}
    BY DEF Init, Loaded
  <2> QED
    BY <2>2, <2>3 DEF Init, Pool!PoolInit
<1> QED
  BY <1>1, InitInv, InvStep, PoolStep, PTL DEF Spec, PoolSpec, Pool!Spec
=============================================================================

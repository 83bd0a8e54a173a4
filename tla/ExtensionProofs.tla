-------------------------- MODULE ExtensionProofs --------------------------
(***************************************************************************)
(* Theorems about the layers of the extension library, for networks of any *)
(* size and shape and any order of the OpenMP threads: suppression keeps   *)
(* the greedy set, the caller gets the best detections of its batch and    *)
(* nothing else, PSROIPooling begins with the regions of its picture, the  *)
(* layers of grids store every value at its place, and the layers that     *)
(* choose answer what was asked.                                           *)
(*                                                                         *)
(* First come loops and induction, then sorted lists and the two loops of  *)
(* suppression, then the invariants of DetectionOutput (DetectionInv) and  *)
(* of the layers of regions (ProposalInv), then cells of blobs and the     *)
(* loops that store into them, at last quotients and the layers whose      *)
(* places come from them.                                                  *)
(***************************************************************************)
EXTENDS Extension, FiniteSetTheorems, FunctionTheorems, SequenceTheorems,
        WellFoundedInduction, TLAPS

-----------------------------------------------------------------------------
(* Loops.                                                                  *)

(* Induction over the numbers up to N, for a set of numbers.               *)
LEMMA UpTo ==
  ASSUME NEW N \in Nat, NEW good, 0 \in good, \A i \in 1..N : i - 1 \in good => i \in good
  PROVE  \A i \in 0..N : i \in good
<1> DEFINE bad == {i \in 0..N : i \notin good}
           R == {ss \in Nat \X Nat : ss[1] < ss[2]}
<1> SUFFICES ASSUME bad # {} PROVE FALSE
  OBVIOUS
<1>1. IsWellFoundedOn(R, Nat)
  BY NatLessThanWellFounded DEF OpToRel
<1>2. PICK x \in bad : \A y \in bad : <<y, x>> \notin R
  <2>1. bad \subseteq Nat
    OBVIOUS
  <2> HIDE DEF R, bad
  <2> QED
    BY <1>1, <2>1, WFMin
<1>3. x \in 1..N /\ x - 1 \notin good
  OBVIOUS
<1>4. x - 1 \in bad /\ x - 1 < x /\ x \in Nat /\ x - 1 \in Nat
  BY <1>3
<1> HIDE DEF bad
<1> QED
  BY <1>2, <1>4

LEMMA SmallestOne ==
  ASSUME NEW S \in SUBSET Nat, S # {}
  PROVE  Min(S) \in S /\ \A y \in S : Min(S) <= y
<1> DEFINE R == {ss \in Nat \X Nat : ss[1] < ss[2]}
<1>1. IsWellFoundedOn(R, Nat)
  BY NatLessThanWellFounded DEF OpToRel
<1> HIDE DEF R
<1>2. \E x \in S : \A y \in S : ~ (<<y, x>> \in R)
  BY <1>1, WFMin
<1>3. \E x \in S : \A y \in S : x <= y
  <2>1. PICK x \in S : \A y \in S : <<y, x>> \notin R
    BY <1>2
  <2>2. ASSUME NEW y \in S PROVE x <= y
    <3>1. x \in Nat /\ y \in Nat /\ (y < x => <<y, x>> \in R)
      BY DEF R
    <3> QED
      BY <2>1, <3>1
  <2> QED
    BY <2>2
<1>4. Min(S) = CHOOSE m \in S : \A y \in S : m <= y
  BY DEF Min
<1> QED
  BY <1>3, <1>4

(* What a loop computes that starts from v0 and repeats step.              *)
Runs(v0, m, step, g) == g[0] = v0 /\ \A i \in 1..m : g[i] = step[<<g[i - 1], i>>]

LEMMA Iterates ==
  ASSUME NEW V, NEW v0 \in V, NEW N \in Nat, NEW step \in [V \X (1..N) -> V]
  PROVE  \E g \in [0..N -> V] : Runs(v0, N, step, g)
<1> DEFINE good == {m \in 0..N : \E g \in [0..m -> V] : Runs(v0, m, step, g)}
<1>1. 0 \in good
  <2>1. [i \in 0..0 |-> v0] \in [0..0 -> V] /\ Runs(v0, 0, step, [i \in 0..0 |-> v0])
    BY DEF Runs
  <2> QED
    BY <2>1
<1>2. ASSUME NEW m \in 1..N, m - 1 \in good PROVE m \in good
  <2>1. PICK g \in [0..(m - 1) -> V] : Runs(v0, m - 1, step, g)
    BY <1>2
  <2> DEFINE h == [i \in 0..m |-> IF i = m THEN step[<<g[m - 1], m>>] ELSE g[i]]
  <2>2. m - 1 \in 0..(m - 1) /\ <<g[m - 1], m>> \in V \X (1..N)
    OBVIOUS
  <2>3. step[<<g[m - 1], m>>] \in V
    BY <2>2
  <2>4. h \in [0..m -> V]
    BY <2>3
  <2>5. h[0] = v0
    <3>1. 0 \in 0..m /\ 0 # m
      OBVIOUS
    <3> QED
      BY <2>1, <3>1 DEF Runs
  <2>6. ASSUME NEW i \in 1..m PROVE h[i] = step[<<h[i - 1], i>>]
    <3>1. CASE i = m
      <4>1. m \in 0..m /\ m - 1 \in 0..m /\ m - 1 # m
        OBVIOUS
      <4>2. h[m] = step[<<g[m - 1], m>>] /\ h[m - 1] = g[m - 1]
        BY <4>1
      <4> QED
        BY <3>1, <4>2
    <3>2. CASE i # m
      <4>1. i \in 1..(m - 1) /\ i - 1 \in 0..(m - 1) /\ i - 1 # m
        BY <3>2
      <4>2. h[i] = g[i] /\ h[i - 1] = g[i - 1] /\ g[i] = step[<<g[i - 1], i>>]
        BY <2>1, <3>2, <4>1 DEF Runs
      <4> QED
        BY <4>2
    <3> QED
      BY <3>1, <3>2
  <2> HIDE DEF h
  <2>7. Runs(v0, m, step, h)
    BY <2>5, <2>6 DEF Runs
  <2> QED
    BY <2>4, <2>7
<1>3. N \in 0..N
  OBVIOUS
<1> HIDE DEF good
<1>4. N \in good
  BY <1>1, <1>2, <1>3, UpTo
<1> QED
  BY <1>4 DEF good

(* A function on 1..N is a list.                                           *)
LEMMA ListOf ==
  ASSUME NEW S, NEW N \in Nat, NEW f \in [1..N -> S]
  PROVE  f \in Seq(S) /\ Len(f) = N
<1>1. f \in Seq(S)
  BY SeqDef
<1> QED
  BY <1>1, LenProperties

-----------------------------------------------------------------------------
(* Sorting.                                                                *)

(* A strict order in which of two elements one comes before the other.     *)
StrictOrder(S, before) ==
  /\ \A x \in S : <<x, x>> \notin before
  /\ \A x, y, z \in S : <<x, y>> \in before /\ <<y, z>> \in before => <<x, z>> \in before
  /\ \A x, y \in S : x = y \/ <<x, y>> \in before \/ <<y, x>> \in before

Before(S, before, x) == {y \in S : <<y, x>> \in before}

(* Every element has a rank of its own, from 0 to their number less one.   *)
LEMMA Ranks ==
  ASSUME NEW S, IsFiniteSet(S), NEW before, StrictOrder(S, before)
  PROVE  /\ \A x \in S : Cardinality(Before(S, before, x)) \in 0..(Cardinality(S) - 1)
         /\ \A x, y \in S : <<x, y>> \in before =>
              Cardinality(Before(S, before, x)) < Cardinality(Before(S, before, y))
         /\ \A k \in 0..(Cardinality(S) - 1) :
              \E x \in S : Cardinality(Before(S, before, x)) = k
<1> DEFINE N == Cardinality(S)
           B(x) == Before(S, before, x)
           rank == [x \in S |-> Cardinality(B(x))]
<1>1. N \in Nat
  BY FS_CardinalityType
<1>2. \A x \in S : B(x) \subseteq S /\ x \notin B(x)
  BY DEF Before, StrictOrder
<1>3. \A x \in S : IsFiniteSet(B(x)) /\ Cardinality(B(x)) \in Nat /\ Cardinality(B(x)) <= N
                   /\ Cardinality(B(x)) # N
  <2> SUFFICES ASSUME NEW x \in S
               PROVE  IsFiniteSet(B(x)) /\ Cardinality(B(x)) \in Nat /\ Cardinality(B(x)) <= N
                      /\ Cardinality(B(x)) # N
    OBVIOUS
  <2>1. B(x) \in SUBSET S
    BY <1>2
  <2> QED
    BY <2>1, <1>2, FS_Subset, FS_CardinalityType
<1>4. ASSUME NEW x \in S, NEW y \in S, <<x, y>> \in before
      PROVE  Cardinality(B(x)) < Cardinality(B(y))
  <2>1. B(x) \in SUBSET B(y) /\ x \in B(y) /\ x \notin B(x)
    BY <1>4 DEF Before, StrictOrder
  <2>2. IsFiniteSet(B(y)) /\ Cardinality(B(y)) \in Nat /\ Cardinality(B(x)) \in Nat
    BY <1>3
  <2>3. Cardinality(B(x)) <= Cardinality(B(y)) /\ Cardinality(B(x)) # Cardinality(B(y))
    <3> HIDE DEF B
    <3>1. B(x) # B(y)
      BY <2>1
    <3> QED
      BY <2>1, <2>2, <3>1, FS_Subset
  <2> QED
    BY <2>2, <2>3
<1>5. \A x \in S : Cardinality(B(x)) \in 0..(N - 1)
  BY <1>1, <1>3
<1>6. rank \in Injection(S, 0..(N - 1))
  <2>1. rank \in [S -> 0..(N - 1)]
    BY <1>5
  <2>2. ASSUME NEW x \in S, NEW y \in S, rank[x] = rank[y] PROVE x = y
    <3>1. Cardinality(B(x)) = Cardinality(B(y)) /\ Cardinality(B(x)) \in Nat
      BY <2>2, <1>3
    <3>2. x = y \/ <<x, y>> \in before \/ <<y, x>> \in before
      BY DEF StrictOrder
    <3> QED
      BY <3>1, <3>2, <1>4, <1>3
  <2> HIDE DEF rank
  <2> QED
    BY <2>1, <2>2 DEF Injection, IsInjective
<1>7. rank \in Surjection(S, 0..(N - 1))
  <2>1. IsFiniteSet(0..(N - 1)) /\ Cardinality(0..(N - 1)) = N
    BY <1>1, FS_Interval, SMTT(40)
  <2> HIDE DEF rank
  <2> QED
    BY <2>1, <1>6, FS_Injection
<1>8. \A k \in 0..(N - 1) : \E x \in S : Cardinality(B(x)) = k
  <2>1. \A k \in 0..(N - 1) : \E x \in S : rank[x] = k
    <3> HIDE DEF rank
    <3> QED
      BY <1>7 DEF Surjection
  <2> QED
    BY <2>1
<1> HIDE DEF B
<1>9. \A x, y \in S : <<x, y>> \in before => Cardinality(B(x)) < Cardinality(B(y))
  BY <1>4
<1> QED
  BY <1>5, <1>8, <1>9 DEF B

(* The list of the elements in their order.                                *)
LEMMA RankedList ==
  ASSUME NEW S, IsFiniteSet(S), NEW before, StrictOrder(S, before)
  PROVE  LET s == Ranked(S, before) IN
         /\ Cardinality(S) \in Nat
         /\ s \in [1..Cardinality(S) -> S] /\ s \in Seq(S) /\ Len(s) = Cardinality(S)
         /\ \A x \in S : \E k \in 1..Cardinality(S) : s[k] = x
         /\ \A j, k \in 1..Cardinality(S) : j < k => <<s[j], s[k]>> \in before
         /\ \A j, k \in 1..Cardinality(S) : s[j] = s[k] => j = k
         /\ \A k \in 1..Cardinality(S) : Cardinality(Before(S, before, s[k])) = k - 1
<1> DEFINE N == Cardinality(S)
           s == Ranked(S, before)
           B(x) == Before(S, before, x)
<1>1. N \in Nat
  BY FS_CardinalityType
<1>2. ASSUME NEW k \in 1..N PROVE s[k] \in S /\ Cardinality(B(s[k])) = k - 1
  <2>1. k - 1 \in 0..(N - 1)
    BY <1>1
  <2>2. \E x \in S : Cardinality(B(x)) = k - 1
    <3> HIDE DEF N
    <3> QED
      BY <2>1, Ranks DEF N
  <2>3. s[k] = CHOOSE x \in S : Cardinality(B(x)) = k - 1
    BY DEF Ranked, Before
  <2> HIDE DEF s, N, B
  <2> QED
    BY <2>2, <2>3
<1>3. s \in [1..N -> S]
  <2> DEFINE e(k) == CHOOSE x \in S : Cardinality(B(x)) = k - 1
  <2>1. s = [k \in 1..N |-> e(k)]
    BY DEF Ranked, Before
  <2> HIDE DEF s, N, e
  <2>2. \A k \in 1..N : e(k) \in S
    BY <2>1, <1>2
  <2> QED
    BY <2>1, <2>2
<1>4. s \in Seq(S) /\ Len(s) = N
  <2> HIDE DEF s, N
  <2>1. s \in Seq(S)
    BY <1>1, <1>3, SeqDef
  <2> QED
    BY <1>1, <1>3, <2>1, LenProperties
<1> HIDE DEF s
<1>5. \A x, y \in S : Cardinality(B(x)) = Cardinality(B(y)) => x = y
  <2> SUFFICES ASSUME NEW x \in S, NEW y \in S, Cardinality(B(x)) = Cardinality(B(y))
               PROVE  x = y
    OBVIOUS
  <2>1. Cardinality(B(x)) \in 0..(N - 1)
    BY Ranks
  <2>2. ~(Cardinality(B(x)) < Cardinality(B(y))) /\ ~(Cardinality(B(y)) < Cardinality(B(x)))
    <3> HIDE DEF B
    <3> QED
      BY <1>1, <2>1
  <2>3. <<x, y>> \notin before /\ <<y, x>> \notin before
    BY <2>2, Ranks
  <2> QED
    BY <2>3 DEF StrictOrder
<1>6. ASSUME NEW x \in S PROVE \E k \in 1..N : s[k] = x
  <2>1. Cardinality(B(x)) \in 0..(N - 1)
    BY Ranks
  <2> HIDE DEF B
  <2>2. PICK k \in 1..N : Cardinality(B(x)) = k - 1
    <3>1. Cardinality(B(x)) + 1 \in 1..N
      BY <1>1, <2>1
    <3> QED
      BY <2>1, <3>1
  <2> QED
    BY <1>2, <1>5, <2>2
<1>7. ASSUME NEW j \in 1..N, NEW k \in 1..N, j < k PROVE <<s[j], s[k]>> \in before
  <2>1. Cardinality(B(s[j])) = j - 1 /\ Cardinality(B(s[k])) = k - 1 /\ s[j] \in S /\ s[k] \in S
    BY <1>2
  <2>2. <<s[k], s[j]>> \notin before
    <3>1. ~(Cardinality(B(s[k])) < Cardinality(B(s[j])))
      <4> HIDE DEF B
      <4> QED
        BY <1>1, <1>7, <2>1
    <3> QED
      BY <2>1, <3>1, Ranks
  <2>3. s[j] # s[k]
    <3> HIDE DEF B
    <3> QED
      BY <1>1, <1>7, <2>1
  <2> QED
    BY <2>1, <2>2, <2>3 DEF StrictOrder
<1>8. ASSUME NEW j \in 1..N, NEW k \in 1..N, s[j] = s[k] PROVE j = k
  <2> HIDE DEF B
  <2> QED
    BY <1>1, <1>2, <1>8
<1> HIDE DEF N, B
<1> QED
  BY <1>1, <1>2, <1>3, <1>4, <1>6, <1>7, <1>8 DEF N, s, B

(* The elements at some places.                                            *)
LEMMA PickedList ==
  ASSUME NEW A, NEW s \in Seq(A), NEW places \in SUBSET (1..Len(s))
  PROVE  LET t == Pick(s, places)
             order == Ranked(places, Ascending) IN
         /\ IsFiniteSet(places) /\ Cardinality(places) \in Nat
         /\ t \in Seq(A) /\ Len(t) = Cardinality(places)
         /\ order \in [1..Cardinality(places) -> places]
         /\ \A k \in 1..Cardinality(places) : t[k] = s[order[k]]
         /\ \A p \in places : \E k \in 1..Cardinality(places) : order[k] = p
         /\ \A j, k \in 1..Cardinality(places) : j < k => order[j] < order[k]
<1> DEFINE m == Cardinality(places)
           order == Ranked(places, Ascending)
           t == Pick(s, places)
<1>1. Len(s) \in Nat /\ \A k \in 1..Len(s) : s[k] \in A
  BY LenProperties, ElementOfSeq
<1>2. IsFiniteSet(places)
  <2>1. IsFiniteSet(1..Len(s))
    BY <1>1, FS_Interval
  <2> QED
    BY <2>1, FS_Subset
<1>3. StrictOrder(places, Ascending)
  <2>1. \A x \in places : x \in Nat
    BY <1>1
  <2>2. \A x, y \in places : <<x, y>> \in Ascending <=> x < y
    BY <2>1 DEF Ascending
  <2> QED
    BY <2>1, <2>2 DEF StrictOrder
<1>4. /\ m \in Nat /\ order \in [1..m -> places]
      /\ \A p \in places : \E k \in 1..m : order[k] = p
      /\ \A j, k \in 1..m : j < k => <<order[j], order[k]>> \in Ascending
  BY <1>2, <1>3, RankedList
<1>5. t = [k \in 1..m |-> s[order[k]]]
  BY DEF Pick
<1> HIDE DEF m, order, t
<1>6. \A k \in 1..m : s[order[k]] \in A
  BY <1>1, <1>4
<1>7. t \in [1..m -> A]
  BY <1>5, <1>6
<1>8. t \in Seq(A) /\ Len(t) = m
  <2>1. t \in Seq(A)
    BY <1>4, <1>7, SeqDef
  <2> QED
    BY <2>1, <1>4, <1>7, LenProperties
<1>9. \A j, k \in 1..m : j < k => order[j] < order[k]
  BY <1>4 DEF Ascending
<1>10. \A k \in 1..m : t[k] = s[order[k]]
  BY <1>5
<1> QED
  BY <1>2, <1>4, <1>8, <1>9, <1>10 DEF m, order, t

-----------------------------------------------------------------------------
(* Suppression.                                                            *)

(* After the first i boxes of the sorted list s, kept are the boxes at the *)
(* places pos: up to the last of them, or everywhere while there is room,  *)
(* those which no earlier one of them overlaps.                            *)
GreedyAt(A, s, limit, overlaps, i, kept, pos) ==
  /\ kept \in Seq(A) /\ Len(kept) <= limit
  /\ pos \in [1..Len(kept) -> 1..i]
  /\ \A k \in 1..Len(kept) : kept[k] = s[pos[k]]
  /\ \A j, k \in 1..Len(kept) : j < k => pos[j] < pos[k]
  /\ \A q \in 1..i :
       Len(kept) < limit \/ (\E k \in 1..Len(kept) : q <= pos[k]) =>
         ((\E k \in 1..Len(kept) : pos[k] = q)
            <=> ~\E k \in 1..Len(kept) : pos[k] < q /\ <<s[q], s[pos[k]]>> \in overlaps)

(* A box that does not fit or is overlapped.                               *)
LEMMA GreedySkip ==
  ASSUME NEW A, NEW s \in Seq(A), NEW limit \in Nat, NEW overlaps, NEW i \in Nat \ {0},
         NEW kept, NEW pos, GreedyAt(A, s, limit, overlaps, i - 1, kept, pos),
         \/ Len(kept) = limit
         \/ \E k \in 1..Len(kept) : <<s[i], s[pos[k]]>> \in overlaps
  PROVE  GreedyAt(A, s, limit, overlaps, i, kept, pos)
<1> DEFINE m == Len(kept)
<1>1. /\ kept \in Seq(A) /\ m <= limit /\ m \in Nat
      /\ pos \in [1..m -> 1..(i - 1)]
      /\ \A k \in 1..m : kept[k] = s[pos[k]]
      /\ \A j, k \in 1..m : j < k => pos[j] < pos[k]
  BY LenProperties DEF GreedyAt
<1>2. ASSUME NEW q \in 1..(i - 1), m < limit \/ \E k \in 1..m : q <= pos[k]
      PROVE  (\E k \in 1..m : pos[k] = q)
               <=> ~\E k \in 1..m : pos[k] < q /\ <<s[q], s[pos[k]]>> \in overlaps
  BY <1>2 DEF GreedyAt
<1>3. m = limit \/ \E k \in 1..m : <<s[i], s[pos[k]]>> \in overlaps
  OBVIOUS
<1> HIDE DEF m
<1>4. \A k \in 1..m : pos[k] \in 1..(i - 1) /\ pos[k] < i /\ pos[k] \in 1..i
  BY <1>1
<1>5. pos \in [1..m -> 1..i]
  BY <1>1, <1>4
<1>6. ASSUME NEW q \in 1..i, m < limit \/ \E k \in 1..m : q <= pos[k]
      PROVE  (\E k \in 1..m : pos[k] = q)
               <=> ~\E k \in 1..m : pos[k] < q /\ <<s[q], s[pos[k]]>> \in overlaps
  <2>1. CASE q = i
    <3>1. ~\E k \in 1..m : i <= pos[k]
      BY <1>4
    <3>2. m < limit
      BY <1>6, <2>1, <3>1
    <3>3. \E k \in 1..m : <<s[i], s[pos[k]]>> \in overlaps
      BY <1>1, <1>3, <3>2
    <3>4. \E k \in 1..m : pos[k] < q /\ <<s[q], s[pos[k]]>> \in overlaps
      BY <1>4, <2>1, <3>3
    <3>5. ~\E k \in 1..m : pos[k] = q
      BY <1>4, <2>1
    <3> QED
      BY <3>4, <3>5
  <2>2. CASE q # i
    <3>1. q \in 1..(i - 1)
      BY <2>2
    <3> QED
      BY <1>2, <1>6, <3>1
  <2> QED
    BY <2>1, <2>2
<1> QED
  BY <1>1, <1>5, <1>6 DEF GreedyAt, m

(* A box that is kept.                                                     *)
KeptToo(A, s, limit, overlaps, i, kept, pos, kept1, pos1) ==
  /\ GreedyAt(A, s, limit, overlaps, i, kept1, pos1)
  /\ kept1 = Append(kept, s[i]) /\ Len(kept1) = Len(kept) + 1
  /\ \A k \in 1..Len(kept) : pos1[k] = pos[k]
  /\ pos1[Len(kept) + 1] = i

LEMMA GreedyKeep ==
  ASSUME NEW A, NEW s \in Seq(A), NEW limit \in Nat, NEW overlaps, NEW i \in 1..Len(s),
         NEW kept, NEW pos, GreedyAt(A, s, limit, overlaps, i - 1, kept, pos),
         Len(kept) # limit,
         ~\E k \in 1..Len(kept) : <<s[i], s[pos[k]]>> \in overlaps
  PROVE  \E kept1, pos1 : KeptToo(A, s, limit, overlaps, i, kept, pos, kept1, pos1)
<1> DEFINE m == Len(kept)
           kept1 == Append(kept, s[i])
           pos1 == Append(pos, i)
<1>1. /\ kept \in Seq(A) /\ m < limit /\ m \in Nat
      /\ pos \in [1..m -> 1..(i - 1)]
      /\ \A k \in 1..m : kept[k] = s[pos[k]]
      /\ \A j, k \in 1..m : j < k => pos[j] < pos[k]
      /\ Len(s) \in Nat /\ i \in Nat \ {0} /\ s[i] \in A
  BY LenProperties, ElementOfSeq DEF GreedyAt
<1>2. ASSUME NEW q \in 1..(i - 1)
      PROVE  (\E k \in 1..m : pos[k] = q)
               <=> ~\E k \in 1..m : pos[k] < q /\ <<s[q], s[pos[k]]>> \in overlaps
  BY <1>1, <1>2 DEF GreedyAt
<1>3. ~\E k \in 1..m : <<s[i], s[pos[k]]>> \in overlaps
  OBVIOUS
<1>4. /\ kept1 \in Seq(A) /\ Len(kept1) = m + 1
      /\ \A k \in 1..m : kept1[k] = kept[k]
      /\ kept1[m + 1] = s[i]
  BY <1>1, AppendProperties
<1>5. pos \in Seq(Nat) /\ Len(pos) = m
  <2> HIDE DEF m
  <2>1. \A k \in 1..m : pos[k] \in Nat
    BY <1>1
  <2>2. pos \in [1..m -> Nat]
    BY <1>1, <2>1
  <2> QED
    BY <1>1, <2>2, ListOf
<1>6. /\ pos1 \in [1..(m + 1) -> Nat]
      /\ \A k \in 1..m : pos1[k] = pos[k]
      /\ pos1[m + 1] = i
  <2>1. pos \in Seq(Nat) /\ i \in Nat
    BY <1>1, <1>5, ZenonT(30)
  <2>2. /\ pos1 \in Seq(Nat) /\ Len(pos1) = Len(pos) + 1
        /\ \A k \in 1..Len(pos) : pos1[k] = pos[k]
        /\ pos1[Len(pos) + 1] = i
    BY ONLY <2>1, AppendProperties
  <2> HIDE DEF pos1, m
  <2> QED
    BY <1>5, <2>2, LenProperties
<1> HIDE DEF m, kept1, pos1
<1>7. \A k \in 1..(m + 1) : k \in 1..m \/ k = m + 1
  BY <1>1
<1>8. \A k \in 1..m : pos[k] \in Nat /\ pos1[k] \in 1..i /\ pos1[k] < i
  BY <1>1, <1>6
<1>9. m + 1 \in 1..(m + 1) /\ 1..m \subseteq 1..(m + 1)
  BY <1>1
<1>10. \A k \in 1..(m + 1) : pos1[k] \in 1..i
  BY <1>1, <1>6, <1>7, <1>8
<1>11. pos1 \in [1..(m + 1) -> 1..i]
  BY <1>6, <1>10
<1>12. \A k \in 1..(m + 1) : kept1[k] = s[pos1[k]]
  BY <1>1, <1>4, <1>6, <1>7
<1>13. ASSUME NEW j \in 1..(m + 1), NEW k \in 1..(m + 1), j < k PROVE pos1[j] < pos1[k]
  <2>1. j \in 1..m
    BY <1>1, <1>13
  <2>2. CASE k \in 1..m
    BY <1>1, <1>6, <1>13, <2>1, <2>2
  <2>3. CASE k = m + 1
    BY <1>6, <1>8, <2>1, <2>3
  <2> QED
    BY <1>7, <2>2, <2>3
<1>14. ASSUME NEW q \in 1..i
       PROVE  (\E k \in 1..(m + 1) : pos1[k] = q)
                <=> ~\E k \in 1..(m + 1) : pos1[k] < q /\ <<s[q], s[pos1[k]]>> \in overlaps
  <2>1. CASE q = i
    <3>1. \E k \in 1..(m + 1) : pos1[k] = q
      BY <1>6, <1>9, <2>1
    <3>2. ASSUME NEW k \in 1..(m + 1), pos1[k] < q, <<s[q], s[pos1[k]]>> \in overlaps PROVE FALSE
      <4>0. k # m + 1
        BY <1>6, <2>1, <3>2, SMTT(40)
      <4>1. k \in 1..m
        BY <1>7, <4>0
      <4> QED
        BY <1>3, <1>6, <2>1, <3>2, <4>1
    <3> QED
      BY <3>1, <3>2
  <2>2. CASE q # i
    <3>1. q \in 1..(i - 1) /\ q < i
      BY <1>1, <2>2
    <3>2. \A k \in 1..(m + 1) : pos1[k] = q \/ pos1[k] < q => k \in 1..m
      BY <1>1, <1>6, <1>7, <3>1
    <3>3. \A k \in 1..m : k \in 1..(m + 1) /\ pos1[k] = pos[k]
      BY <1>6, <1>9
    <3> QED
      BY <1>2, <3>1, <3>2, <3>3
  <2> QED
    BY <2>1, <2>2
<1>15. m + 1 <= limit
  BY <1>1
<1>16. GreedyAt(A, s, limit, overlaps, i, kept1, pos1)
  BY <1>4, <1>11, <1>12, <1>13, <1>14, <1>15 DEF GreedyAt
<1>17. KeptToo(A, s, limit, overlaps, i, kept, pos, kept1, pos1)
  <2>1. kept1 = Append(kept, s[i])
    BY DEF kept1
  <2> QED
    BY <1>4, <1>6, <1>16, <2>1 DEF KeptToo, m
<1> QED
  BY <1>17

(* DetectionOutput and SimplerNMS.                                         *)
LEMMA KeepLoopGreedy ==
  ASSUME NEW A, NEW s \in Seq(A), NEW limit \in Nat, NEW overlaps
  PROVE  \E pos : GreedyAt(A, s, limit, overlaps, Len(s), KeepLoop(s, limit, overlaps), pos)
<1> DEFINE N == Len(s)
           V == Seq(A)
           More(v, i) == IF \/ Len(v) = limit
                            \/ \E k \in DOMAIN v : <<s[i], v[k]>> \in overlaps
                         THEN v ELSE Append(v, s[i])
           Body(f, i) == IF i = 0 THEN <<>> ELSE More(f[i - 1], i)
           kept == CHOOSE f : f = [i \in 0..N |-> Body(f, i)]
           step == [x \in V \X (1..N) |-> More(x[1], x[2])]
           good == {i \in 0..N : kept[i] \in V /\ \E pos : GreedyAt(A, s, limit, overlaps, i, kept[i], pos)}
<1>1. N \in Nat /\ <<>> \in V /\ \A i \in 1..N : s[i] \in A
  BY LenProperties, ElementOfSeq
<1>2. \A v \in V, i \in 1..N : More(v, i) \in V
  BY <1>1, AppendProperties
<1>3. KeepLoop(s, limit, overlaps) = kept[N]
  BY DEF KeepLoop
<1> HIDE DEF V, N, More
<1>4. step \in [V \X (1..N) -> V]
  BY <1>2
<1>5. PICK g \in [0..N -> V] : g[0] = <<>> /\ \A i \in 1..N : g[i] = step[<<g[i - 1], i>>]
  <2> HIDE DEF step
  <2>1. \E g \in [0..N -> V] : Runs(<<>>, N, step, g)
    BY <1>1, <1>4, Iterates, Zenon
  <2> QED
    BY <2>1 DEF Runs
<1>6. \A i \in 1..N : g[i] = More(g[i - 1], i)
  <2> SUFFICES ASSUME NEW i \in 1..N PROVE g[i] = More(g[i - 1], i)
    OBVIOUS
  <2>1. i - 1 \in 0..N
    BY <1>1
  <2>2. <<g[i - 1], i>> \in V \X (1..N)
    BY <1>5, <2>1
  <2>3. step[<<g[i - 1], i>>] = More(g[i - 1], i)
    BY <2>2
  <2> QED
    BY <1>5, <2>3
<1>7. g = [i \in 0..N |-> Body(g, i)]
  <2>1. ASSUME NEW i \in 0..N PROVE g[i] = Body(g, i)
    <3>1. i = 0 \/ i \in 1..N
      BY <1>1
    <3> QED
      BY <1>5, <1>6, <3>1
  <2> HIDE DEF Body
  <2> QED
    BY <1>5, <2>1
<1>8. kept = [i \in 0..N |-> Body(kept, i)]
  <2> HIDE DEF Body
  <2> QED
    BY <1>7
<1> HIDE DEF kept
<1>9. kept[0] = <<>> /\ \A i \in 1..N : kept[i] = More(kept[i - 1], i)
  <2>1. 0 \in 0..N /\ \A i \in 1..N : i \in 0..N /\ i # 0
    BY <1>1
  <2>2. \A i \in 0..N : kept[i] = Body(kept, i)
    <3> HIDE DEF Body
    <3> QED
      BY <1>8
  <2> QED
    BY <2>1, <2>2
<1>10. 0 \in good
  <2>1. GreedyAt(A, s, limit, overlaps, 0, <<>>, <<>>)
    BY <1>1 DEF GreedyAt, V
  <2>2. 0 \in 0..N
    BY <1>1
  <2> QED
    BY <1>1, <1>9, <2>1, <2>2
<1>11. ASSUME NEW i \in 1..N, i - 1 \in good PROVE i \in good
  <2>1. kept[i - 1] \in V /\ kept[i] = More(kept[i - 1], i) /\ i \in 0..N /\ i \in Nat \ {0}
    BY <1>1, <1>9, <1>11
  <2>2. kept[i] \in V
    BY <1>2, <2>1
  <2>3. PICK pos : GreedyAt(A, s, limit, overlaps, i - 1, kept[i - 1], pos)
    BY <1>11
  <2> HIDE DEF good
  <2>4. PICK v \in V : v = kept[i - 1]
    BY <2>1
  <2>5. /\ GreedyAt(A, s, limit, overlaps, i - 1, v, pos)
        /\ DOMAIN v = 1..Len(v) /\ \A k \in 1..Len(v) : v[k] = s[pos[k]]
    BY <2>3, <2>4, LenProperties DEF GreedyAt, V
  <2>6. CASE Len(v) = limit \/ \E k \in DOMAIN v : <<s[i], v[k]>> \in overlaps
    <3>1. kept[i] = v
      BY <2>1, <2>4, <2>6 DEF More
    <3>2. Len(v) = limit \/ \E k \in 1..Len(v) : <<s[i], s[pos[k]]>> \in overlaps
      BY <2>5, <2>6
    <3>3. GreedyAt(A, s, limit, overlaps, i, v, pos)
      BY <2>1, <2>5, <3>2, GreedySkip
    <3> QED
      BY <2>1, <2>2, <3>1, <3>3 DEF good
  <2>7. CASE ~(Len(v) = limit \/ \E k \in DOMAIN v : <<s[i], v[k]>> \in overlaps)
    <3>1. kept[i] = Append(v, s[i])
      BY <2>1, <2>4, <2>7 DEF More
    <3>2. Len(v) # limit /\ ~\E k \in 1..Len(v) : <<s[i], s[pos[k]]>> \in overlaps
      BY <2>5, <2>7
    <3>3. PICK kept1, pos1 : KeptToo(A, s, limit, overlaps, i, v, pos, kept1, pos1)
      BY <2>5, <3>2, GreedyKeep DEF N
    <3> QED
      BY <2>1, <2>2, <3>1, <3>3 DEF good, KeptToo
  <2> QED
    BY <2>6, <2>7
<1>12. N \in good
  <2>1. N \in 0..N
    BY <1>1
  <2> HIDE DEF good
  <2> QED
    BY <1>1, <1>10, <1>11, <2>1, UpTo
<1> QED
  BY <1>3, <1>12 DEF N

(* Proposal: kills are the overlaps, seen from the box that is kept.       *)
LEMMA KillLoopGreedy ==
  ASSUME NEW A, NEW s \in Seq(A), NEW limit \in Nat, NEW overlaps, NEW kills,
         \A p, q \in 1..Len(s) : <<s[p], s[q]>> \in kills <=> <<s[q], s[p]>> \in overlaps
  PROVE  \E pos : GreedyAt(A, s, limit, overlaps, Len(s), KillLoop(s, limit, kills), pos)
<1> DEFINE N == Len(s)
           V == [kept : Seq(A), dead : SUBSET (1..N)]
           v0 == [kept |-> <<>>, dead |-> {}]
           Kills(i) == {j \in (i + 1)..N : <<s[i], s[j]>> \in kills}
           More(v, i) == IF i \in v.dead \/ Len(v.kept) = limit THEN v
                         ELSE [kept |-> Append(v.kept, s[i]), dead |-> v.dead \cup Kills(i)]
           Body(f, i) == IF i = 0 THEN v0 ELSE More(f[i - 1], i)
           run == CHOOSE f : f = [i \in 0..N |-> Body(f, i)]
           step == [x \in V \X (1..N) |-> More(x[1], x[2])]
           Right(v, i, pos) ==
             /\ GreedyAt(A, s, limit, overlaps, i, v.kept, pos)
             /\ \A j \in (i + 1)..N :
                  j \in v.dead <=> \E k \in 1..Len(v.kept) : <<s[j], s[pos[k]]>> \in overlaps
           good == {i \in 0..N : run[i] \in V /\ \E pos : Right(run[i], i, pos)}
<1>1. N \in Nat /\ v0 \in V /\ \A i \in 1..N : s[i] \in A
  BY LenProperties, ElementOfSeq
<1>2. \A v \in V, i \in 1..N : More(v, i) \in V
  <2> SUFFICES ASSUME NEW v \in V, NEW i \in 1..N PROVE More(v, i) \in V
    OBVIOUS
  <2>1. v.kept \in Seq(A) /\ s[i] \in A /\ v.dead \subseteq 1..N
    BY <1>1
  <2>2. Append(v.kept, s[i]) \in Seq(A)
    BY <2>1, AppendProperties
  <2>3. Kills(i) \subseteq 1..N
    BY <1>1
  <2> HIDE DEF Kills, N
  <2> QED
    BY <2>1, <2>2, <2>3
<1>3. KillLoop(s, limit, kills) = run[N].kept
  BY DEF KillLoop
<1>a. v0.kept = <<>> /\ v0.dead = {}
  OBVIOUS
<1> HIDE DEF V, N, More, v0
<1>4. step \in [V \X (1..N) -> V]
  BY <1>2
<1>5. PICK g \in [0..N -> V] : g[0] = v0 /\ \A i \in 1..N : g[i] = step[<<g[i - 1], i>>]
  <2> HIDE DEF step
  <2>1. \E g \in [0..N -> V] : Runs(v0, N, step, g)
    BY <1>1, <1>4, Iterates, Zenon
  <2> QED
    BY <2>1 DEF Runs
<1>6. \A i \in 1..N : g[i] = More(g[i - 1], i)
  <2> SUFFICES ASSUME NEW i \in 1..N PROVE g[i] = More(g[i - 1], i)
    OBVIOUS
  <2>1. i - 1 \in 0..N
    BY <1>1
  <2>2. <<g[i - 1], i>> \in V \X (1..N)
    BY <1>5, <2>1
  <2>3. step[<<g[i - 1], i>>] = More(g[i - 1], i)
    BY <2>2
  <2> QED
    BY <1>5, <2>3
<1>7. g = [i \in 0..N |-> Body(g, i)]
  <2>1. ASSUME NEW i \in 0..N PROVE g[i] = Body(g, i)
    <3>1. i = 0 \/ i \in 1..N
      BY <1>1
    <3> QED
      BY <1>5, <1>6, <3>1
  <2> HIDE DEF Body
  <2> QED
    BY <1>5, <2>1
<1>8. run = [i \in 0..N |-> Body(run, i)]
  <2> HIDE DEF Body
  <2> QED
    BY <1>7
<1> HIDE DEF run
<1>9. run[0] = v0 /\ \A i \in 1..N : run[i] = More(run[i - 1], i)
  <2>1. 0 \in 0..N /\ \A i \in 1..N : i \in 0..N /\ i # 0
    BY <1>1
  <2>2. \A i \in 0..N : run[i] = Body(run, i)
    <3> HIDE DEF Body
    <3> QED
      BY <1>8
  <2> QED
    BY <2>1, <2>2
<1>10. 0 \in good
  <2>1. Right(v0, 0, <<>>)
    <3>1. GreedyAt(A, s, limit, overlaps, 0, <<>>, <<>>)
      BY DEF GreedyAt
    <3> QED
      BY <1>a, <3>1
  <2>2. 0 \in 0..N
    BY <1>1
  <2> HIDE DEF Right
  <2> QED
    BY <1>1, <1>9, <2>1, <2>2
<1>11. ASSUME NEW i \in 1..N, i - 1 \in good PROVE i \in good
  <2>1. run[i - 1] \in V /\ run[i] = More(run[i - 1], i) /\ i \in 0..N /\ i \in Nat \ {0}
    BY <1>1, <1>9, <1>11
  <2>2. run[i] \in V
    BY <1>2, <2>1
  <2>3. PICK pos : Right(run[i - 1], i - 1, pos)
    <3> HIDE DEF Right
    <3> QED
      BY <1>11
  <2> HIDE DEF good
  <2>4. PICK v \in V : v = run[i - 1]
    BY <2>1
  <2>5. /\ GreedyAt(A, s, limit, overlaps, i - 1, v.kept, pos)
        /\ \A j \in i..N : j \in v.dead
                        <=> \E k \in 1..Len(v.kept) : <<s[j], s[pos[k]]>> \in overlaps
    <3>1. (i - 1) + 1 = i
      BY <2>1
    <3>2. Right(v, i - 1, pos)
      <4> HIDE DEF Right
      <4> QED
        BY <2>3, <2>4
    <3> QED
      BY <3>1, <3>2
  <2>6. CASE i \in v.dead \/ Len(v.kept) = limit
    <3>1. run[i] = v
      BY <2>1, <2>4, <2>6 DEF More
    <3>2. Len(v.kept) = limit \/ \E k \in 1..Len(v.kept) : <<s[i], s[pos[k]]>> \in overlaps
      BY <2>5, <2>6
    <3>3. GreedyAt(A, s, limit, overlaps, i, v.kept, pos)
      BY <2>1, <2>5, <3>2, GreedySkip
    <3>4. Right(v, i, pos)
      <4>1. \A j \in (i + 1)..N : j \in i..N
        BY <1>1
      <4> QED
        BY <2>5, <3>3, <4>1
    <3> HIDE DEF Right
    <3> QED
      BY <2>1, <2>2, <3>1, <3>4 DEF good
  <2>7. CASE ~(i \in v.dead \/ Len(v.kept) = limit)
    <3> DEFINE m == Len(v.kept)
    <3>1. run[i] = [kept |-> Append(v.kept, s[i]), dead |-> v.dead \cup Kills(i)]
      BY <2>1, <2>4, <2>7 DEF More
    <3>2. m # limit /\ ~\E k \in 1..m : <<s[i], s[pos[k]]>> \in overlaps
      <4>1. i \in i..N
        BY <1>1
      <4> QED
        BY <2>5, <2>7, <4>1
    <3>3. PICK kept1, pos1 : KeptToo(A, s, limit, overlaps, i, v.kept, pos, kept1, pos1)
      <4>1. PICK w : w = v.kept
        OBVIOUS
      <4>2. /\ i \in 1..Len(s) /\ GreedyAt(A, s, limit, overlaps, i - 1, w, pos)
            /\ Len(w) # limit /\ ~\E k \in 1..Len(w) : <<s[i], s[pos[k]]>> \in overlaps
        BY <2>5, <3>2, <4>1 DEF N
      <4>3. \E kept1, pos1 : KeptToo(A, s, limit, overlaps, i, w, pos, kept1, pos1)
        BY <4>2, GreedyKeep
      <4> QED
        BY <4>1, <4>3
    <3>a. /\ GreedyAt(A, s, limit, overlaps, i, kept1, pos1)
          /\ kept1 = Append(v.kept, s[i]) /\ Len(kept1) = m + 1
          /\ \A k \in 1..m : pos1[k] = pos[k]
          /\ pos1[m + 1] = i
      BY <3>3 DEF KeptToo
    <3>4. m \in Nat /\ \A k \in 1..(m + 1) : k \in 1..m \/ k = m + 1
      BY LenProperties DEF V
    <3> HIDE DEF m
    <3>5. ASSUME NEW j \in (i + 1)..N
          PROVE  j \in v.dead \cup Kills(i)
                   <=> \E k \in 1..(m + 1) : <<s[j], s[pos1[k]]>> \in overlaps
      <4>1. j \in i..N /\ j \in 1..N
        BY <1>1
      <4>2. j \in v.dead <=> \E k \in 1..m : <<s[j], s[pos[k]]>> \in overlaps
        BY <2>5, <4>1 DEF m
      <4>3. j \in Kills(i) <=> <<s[j], s[i]>> \in overlaps
        BY <4>1 DEF N
      <4>4. m + 1 \in 1..(m + 1) /\ \A k \in 1..m : k \in 1..(m + 1)
        BY <3>4
      <4>5. (\E k \in 1..(m + 1) : <<s[j], s[pos1[k]]>> \in overlaps)
              <=> (\E k \in 1..m : <<s[j], s[pos[k]]>> \in overlaps) \/ <<s[j], s[i]>> \in overlaps
        BY <3>a, <3>4, <4>4
      <4> HIDE DEF Kills
      <4> QED
        BY <4>2, <4>3, <4>5
    <3> HIDE DEF Kills
    <3>6. Right(run[i], i, pos1)
      BY <3>1, <3>a, <3>5
    <3> HIDE DEF Right
    <3> QED
      BY <2>1, <2>2, <3>6 DEF good
  <2> QED
    BY <2>6, <2>7
<1>12. N \in good
  <2>1. N \in 0..N
    BY <1>1
  <2> HIDE DEF good
  <2> QED
    BY <1>1, <1>10, <1>11, <2>1, UpTo
<1> QED
  BY <1>3, <1>12 DEF N

(* A list of different boxes whose order is better.                        *)
Sorts(A, s, better) ==
  /\ s \in Seq(A)
  /\ \A j, k \in 1..Len(s) : <<s[j], s[k]>> \in better <=> j < k
  /\ \A j, k \in 1..Len(s) : s[j] = s[k] => j = k

IsGreedy(S, better, overlaps, K) ==
  \A p \in S : p \in K <=> ~\E q \in K : <<q, p>> \in better /\ <<p, q>> \in overlaps

LEMMA GreedyExists ==
  ASSUME NEW A, NEW s, NEW better, NEW overlaps, Sorts(A, s, better)
  PROVE  \E K \in SUBSET ToSet(s) : IsGreedy(ToSet(s), better, overlaps, K)
<1> DEFINE N == Len(s)
           kept == KeepLoop(s, N + 1, overlaps)
<1>1. s \in Seq(A) /\ N \in Nat /\ DOMAIN s = 1..N
  BY LenProperties DEF Sorts
<1>2. PICK pos : GreedyAt(A, s, N + 1, overlaps, N, kept, pos)
  <2>1. N + 1 \in Nat
    BY <1>1
  <2> QED
    BY <1>1, <2>1, KeepLoopGreedy
<1> HIDE DEF kept, N
<1>3. /\ kept \in Seq(A) /\ Len(kept) \in Nat /\ pos \in [1..Len(kept) -> 1..N]
      /\ \A j, k \in 1..Len(kept) : j < k => pos[j] < pos[k]
  BY <1>2, LenProperties DEF GreedyAt
<1> DEFINE m == Len(kept)
<1>4. m < N + 1
  <2> HIDE DEF m
  <2>1. \A j, k \in 1..m : pos[j] = pos[k] => j = k
    <3> SUFFICES ASSUME NEW j \in 1..m, NEW k \in 1..m, pos[j] = pos[k] PROVE j = k
      OBVIOUS
    <3>1. ~(j < k) /\ ~(k < j)
      BY <1>1, <1>3 DEF m
    <3> QED
      BY <1>3, <3>1 DEF m
  <2>2. pos \in Injection(1..m, 1..N)
    BY <1>3, <2>1 DEF m, Injection, IsInjective
  <2>3. IsFiniteSet(1..N) /\ Cardinality(1..N) = N /\ Cardinality(1..m) = m
    <3>1. N \in Nat /\ m \in Nat /\ 1 \in Int
      BY <1>1, <1>3 DEF m
    <3>2. \A k \in Nat : IsFiniteSet(1..k) /\ Cardinality(1..k) = k
      BY FS_Interval
    <3> QED
      BY <3>1, <3>2
  <2>4. m <= N
    BY <2>2, <2>3, FS_Injection
  <2> QED
    BY <1>1, <1>3, <2>4 DEF m
<1>5. \A q \in 1..N : (\E k \in 1..m : pos[k] = q)
                        <=> ~\E k \in 1..m : pos[k] < q /\ <<s[q], s[pos[k]]>> \in overlaps
  BY <1>2, <1>4 DEF GreedyAt
<1> HIDE DEF m
<1> DEFINE K == {s[pos[k]] : k \in 1..m}
<1>6. \A k \in 1..m : pos[k] \in 1..N
  BY <1>3 DEF m
<1>7. K \in SUBSET ToSet(s)
  BY <1>1, <1>6 DEF ToSet
<1>8. ASSUME NEW q \in 1..N
      PROVE  s[q] \in K <=> ~\E g \in K : <<g, s[q]>> \in better /\ <<s[q], g>> \in overlaps
  <2>1. s[q] \in K <=> \E k \in 1..m : pos[k] = q
    <3>1. ASSUME NEW k \in 1..m, s[q] = s[pos[k]] PROVE pos[k] = q
      BY <1>6, <3>1 DEF Sorts, N
    <3> QED
      BY <3>1
  <2>2. \A k \in 1..m : <<s[pos[k]], s[q]>> \in better <=> pos[k] < q
    BY <1>6 DEF Sorts, N
  <2> QED
    BY <1>5, <2>1, <2>2
<1>9. IsGreedy(ToSet(s), better, overlaps, K)
  <2> HIDE DEF K
  <2> QED
    BY <1>1, <1>8 DEF IsGreedy, ToSet
<1> QED
  BY <1>7, <1>9

(* What the loops keep is the first part of the greedy set.                *)
LEMMA KeptAreGreedy ==
  ASSUME NEW A, NEW s, NEW better, NEW overlaps, Sorts(A, s, better),
         NEW limit \in Nat, NEW kept, NEW pos,
         GreedyAt(A, s, limit, overlaps, Len(s), kept, pos)
  PROVE  LET G == GreedySet(ToSet(s), better, overlaps) IN
         /\ G \subseteq ToSet(s)
         /\ \A q \in 1..Len(s) :
              Len(kept) < limit \/ (\E k \in 1..Len(kept) : q <= pos[k]) =>
                (s[q] \in G <=> \E k \in 1..Len(kept) : pos[k] = q)
<1> DEFINE N == Len(s)
           m == Len(kept)
           G == GreedySet(ToSet(s), better, overlaps)
           Within(q) == m < limit \/ \E k \in 1..m : q <= pos[k]
           good == {i \in 0..N : \A q \in 1..i :
                      Within(q) => (s[q] \in G <=> \E k \in 1..m : pos[k] = q)}
<1>1. s \in Seq(A) /\ N \in Nat /\ DOMAIN s = 1..N /\ m \in Nat
  BY LenProperties DEF Sorts, GreedyAt
<1>2. G \in SUBSET ToSet(s) /\ IsGreedy(ToSet(s), better, overlaps, G)
  <2>1. \E K \in SUBSET ToSet(s) : IsGreedy(ToSet(s), better, overlaps, K)
    BY GreedyExists
  <2>2. G = CHOOSE K \in SUBSET ToSet(s) : IsGreedy(ToSet(s), better, overlaps, K)
    BY DEF GreedySet, IsGreedy
  <2> HIDE DEF G
  <2> QED
    BY <2>1, <2>2
<1>3. \A k \in 1..m : pos[k] \in 1..N
  BY DEF GreedyAt
<1>4. \A q \in 1..N : Within(q) =>
        ((\E k \in 1..m : pos[k] = q)
           <=> ~\E k \in 1..m : pos[k] < q /\ <<s[q], s[pos[k]]>> \in overlaps)
  BY DEF GreedyAt
<1> HIDE DEF G, m, N
<1>5. ASSUME NEW q \in 1..N
      PROVE  s[q] \in G <=> ~\E p \in 1..N : p < q /\ s[p] \in G /\ <<s[q], s[p]>> \in overlaps
  <2>1. s[q] \in G <=> ~\E g \in G : <<g, s[q]>> \in better /\ <<s[q], g>> \in overlaps
    BY <1>1, <1>2 DEF IsGreedy, ToSet
  <2>2. \A g \in G : \E p \in 1..N : s[p] = g
    BY <1>1, <1>2 DEF ToSet
  <2>3. \A p \in 1..N : <<s[p], s[q]>> \in better <=> p < q
    BY DEF Sorts, N
  <2> QED
    BY <2>1, <2>2, <2>3
<1>6. 0 \in good
  BY <1>1
<1>7. ASSUME NEW i \in 1..N, i - 1 \in good PROVE i \in good
  <2>1. i \in 0..N
    BY <1>1
  <2>2. ASSUME NEW q \in 1..i, Within(q) PROVE s[q] \in G <=> \E k \in 1..m : pos[k] = q
    <3>1. q \in 1..N
      BY <1>1
    <3>2. ASSUME NEW p \in 1..N, p < q
          PROVE  s[p] \in G <=> \E k \in 1..m : pos[k] = p
      <4>1. Within(p)
        <5>1. CASE m < limit
          BY <5>1
        <5>2. CASE \E k \in 1..m : q <= pos[k]
          <6>1. PICK k \in 1..m : q <= pos[k]
            BY <5>2
          <6>2. pos[k] \in Nat /\ p \in Nat /\ q \in Nat
            BY <1>1, <1>3
          <6>3. p <= pos[k]
            BY <3>2, <6>1, <6>2
          <6> QED
            BY <6>3
        <5> QED
          BY <2>2, <5>1, <5>2
      <4>2. p \in 1..(i - 1)
        BY <1>1, <3>2
      <4> HIDE DEF Within
      <4> QED
        BY <1>7, <4>1, <4>2
    <3>3. (\E k \in 1..m : pos[k] = q)
            <=> ~\E k \in 1..m : pos[k] < q /\ <<s[q], s[pos[k]]>> \in overlaps
      <4> HIDE DEF Within
      <4> QED
        BY <1>4, <2>2, <3>1
    <3>4. (\E p \in 1..N : p < q /\ s[p] \in G /\ <<s[q], s[p]>> \in overlaps)
            <=> \E k \in 1..m : pos[k] < q /\ <<s[q], s[pos[k]]>> \in overlaps
      BY <1>3, <3>2
    <3> QED
      BY <1>5, <3>1, <3>3, <3>4
  <2> HIDE DEF Within
  <2> QED
    BY <2>1, <2>2
<1>8. N \in good
  <2>1. N \in 0..N
    BY <1>1
  <2> HIDE DEF good
  <2> QED
    BY <1>1, <1>6, <1>7, <2>1, UpTo
<1> HIDE DEF Within
<1>9. \A q \in 1..N : Within(q) => (s[q] \in G <=> \E k \in 1..m : pos[k] = q)
  BY <1>8
<1> QED
  BY <1>2, <1>9 DEF G, N, m, Within

(* Loops with room for every box keep the greedy set, best first.          *)
LEMMA AllAreGreedy ==
  ASSUME NEW A, NEW s, NEW better, NEW overlaps, Sorts(A, s, better),
         NEW limit \in Nat, Len(s) <= limit, NEW kept, NEW pos,
         GreedyAt(A, s, limit, overlaps, Len(s), kept, pos)
  PROVE  /\ ToSet(kept) = GreedySet(ToSet(s), better, overlaps)
         /\ kept \in Seq(A) /\ Len(kept) \in Nat /\ Len(kept) <= Len(s)
         /\ \A j, k \in 1..Len(kept) : j < k => <<kept[j], kept[k]>> \in better
<1> DEFINE N == Len(s)
           m == Len(kept)
           G == GreedySet(ToSet(s), better, overlaps)
<1>1. s \in Seq(A) /\ N \in Nat /\ DOMAIN s = 1..N
  BY LenProperties DEF Sorts
<1>2. /\ kept \in Seq(A) /\ m \in Nat /\ m <= limit /\ DOMAIN kept = 1..m
      /\ pos \in [1..m -> 1..N]
      /\ \A k \in 1..m : kept[k] = s[pos[k]]
      /\ \A j, k \in 1..m : j < k => pos[j] < pos[k]
  BY LenProperties DEF GreedyAt
<1>3. /\ G \subseteq ToSet(s)
      /\ \A q \in 1..N : m < limit \/ (\E k \in 1..m : q <= pos[k]) =>
           (s[q] \in G <=> \E k \in 1..m : pos[k] = q)
  BY KeptAreGreedy
<1>4. \A j, k \in 1..N : s[j] = s[k] => j = k
  BY DEF Sorts
<1>5. \A j, k \in 1..N : <<s[j], s[k]>> \in better <=> j < k
  BY DEF Sorts
<1>6. ToSet(s) = {s[q] : q \in 1..N} /\ ToSet(kept) = {kept[k] : k \in 1..m}
  BY <1>1, <1>2 DEF ToSet
<1> HIDE DEF G, m, N
<1>7. pos \in Injection(1..m, 1..N)
  <2>1. \A j, k \in 1..m : pos[j] = pos[k] => j = k
    <3> SUFFICES ASSUME NEW j \in 1..m, NEW k \in 1..m, pos[j] = pos[k] PROVE j = k
      OBVIOUS
    <3>1. ~(j < k) /\ ~(k < j)
      BY <1>1, <1>2
    <3> QED
      BY <1>2, <3>1
  <2> QED
    BY <1>2, <2>1 DEF Injection, IsInjective
<1>8. \A k \in Nat : IsFiniteSet(1..k) /\ Cardinality(1..k) = k
  BY FS_Interval
<1>9. m <= N
  BY <1>1, <1>2, <1>7, <1>8, FS_Injection
<1>10. ASSUME NEW q \in 1..N PROVE s[q] \in G <=> \E k \in 1..m : pos[k] = q
  <2>1. CASE m < limit
    BY <1>3, <2>1
  <2>2. CASE ~(m < limit)
    <3>1. m = N
      BY <1>1, <1>2, <1>9, <2>2 DEF N
    <3>2. pos \in Surjection(1..m, 1..N)
      BY <1>1, <1>2, <1>7, <1>8, <3>1, FS_Injection
    <3>3. \E k \in 1..m : pos[k] = q
      BY <3>2 DEF Surjection
    <3>4. \E k \in 1..m : q <= pos[k]
      BY <1>1, <1>2, <3>3
    <3> QED
      BY <1>3, <3>3, <3>4
  <2> QED
    BY <2>1, <2>2
<1>11. ToSet(kept) = G
  <2>1. ASSUME NEW x \in G PROVE x \in ToSet(kept)
    <3>1. PICK q \in 1..N : x = s[q]
      BY <1>3, <1>6
    <3>2. PICK k \in 1..m : pos[k] = q
      BY <1>10, <3>1
    <3> QED
      BY <1>2, <1>6, <3>1, <3>2
  <2>2. ASSUME NEW k \in 1..m PROVE kept[k] \in G
    <3>1. pos[k] \in 1..N
      BY <1>2
    <3> QED
      BY <1>2, <1>10, <3>1
  <2> QED
    BY <1>6, <2>1, <2>2
<1>12. ASSUME NEW j \in 1..m, NEW k \in 1..m, j < k PROVE <<kept[j], kept[k]>> \in better
  <2>1. pos[j] \in 1..N /\ pos[k] \in 1..N /\ pos[j] < pos[k]
    BY <1>2, <1>12
  <2> QED
    BY <1>2, <1>5, <2>1
<1> QED
  BY <1>2, <1>9, <1>11, <1>12 DEF m, N, G

-----------------------------------------------------------------------------
(* DetectionOutput.                                                        *)

(* Which of two candidates is the better one is never a question.          *)
LEMMA CandidateOrder ==
  ASSUME batch \in Batches, NEW i \in Imgs, NEW c \in Labels
  PROVE  /\ Found(i, c) \in SUBSET Priors /\ IsFiniteSet(Found(i, c))
         /\ Cardinality(Found(i, c)) \in Nat /\ Cardinality(Found(i, c)) <= num_priors_
         /\ StrictOrder(Found(i, c), InOrder(i, c))
         /\ \A p \in Found(i, c) : /\ batch.conf[i][c][p] \in Int
                                   /\ batch.conf[i][c][p] > confidence_threshold_
<1>1. num_priors_ \in Nat /\ confidence_threshold_ \in Int
  BY DetectionAssumption
<1>2. batch.actual \in 0..num_priors_ /\ batch.conf \in [Imgs -> [Labels -> [Priors -> Int]]]
  BY DetectionAssumption
<1>3. \A p \in Priors : batch.conf[i][c][p] \in Int
  BY <1>2
<1>4. Found(i, c) \in SUBSET Priors
  BY <1>1, <1>2 DEF Found, Priors
<1>5. IsFiniteSet(Priors) /\ Cardinality(Priors) = num_priors_
  BY <1>1, FS_Interval DEF Priors
<1>6. /\ IsFiniteSet(Found(i, c)) /\ Cardinality(Found(i, c)) \in Nat
      /\ Cardinality(Found(i, c)) <= num_priors_
  BY <1>4, <1>5, FS_Subset, FS_CardinalityType
<1>7. StrictOrder(Priors, InOrder(i, c))
  <2> DEFINE conf == batch.conf[i][c]
  <2>1. \A p, q \in Priors : <<p, q>> \in InOrder(i, c) <=>
          \/ conf[p] > conf[q]
          \/ conf[p] = conf[q] /\ p < q
    BY DEF InOrder
  <2>2. \A p \in Priors : conf[p] \in Int /\ p \in Nat
    BY <1>3 DEF Priors
  <2> HIDE DEF conf
  <2> QED
    BY <2>1, <2>2 DEF StrictOrder
<1>8. StrictOrder(Found(i, c), InOrder(i, c))
  BY <1>4, <1>7 DEF StrictOrder
<1>9. ASSUME NEW p \in Found(i, c)
      PROVE  batch.conf[i][c][p] \in Int /\ batch.conf[i][c][p] > confidence_threshold_
  <2>1. batch.conf[i][c][p] > confidence_threshold_
    BY <1>9 DEF Found
  <2> QED
    BY <1>1, <1>3, <1>4, <2>1
<1> QED
  BY <1>4, <1>6, <1>8, <1>9

(* The first elements of a ranked list are those of the lowest ranks.      *)
LEMMA FirstRanked ==
  ASSUME NEW S, IsFiniteSet(S), NEW before, StrictOrder(S, before),
         NEW size \in Nat, size <= Cardinality(S)
  PROVE  LET s == SubSeq(Ranked(S, before), 1, size) IN
         /\ Sorts(S, s, before) /\ Len(s) = size
         /\ ToSet(s) = {x \in S : Cardinality(Before(S, before, x)) < size}
<1> DEFINE N == Cardinality(S)
           r == Ranked(S, before)
           s == SubSeq(r, 1, size)
<1>1. /\ N \in Nat
      /\ r \in [1..N -> S] /\ r \in Seq(S) /\ Len(r) = N
      /\ \A x \in S : \E k \in 1..N : r[k] = x
      /\ \A j, k \in 1..N : j < k => <<r[j], r[k]>> \in before
      /\ \A j, k \in 1..N : r[j] = r[k] => j = k
      /\ \A k \in 1..N : Cardinality(Before(S, before, r[k])) = k - 1
  BY RankedList
<1> HIDE DEF r, N
<1>2. /\ s \in Seq(S) /\ Len(s) = size
      /\ \A k \in 1..size : s[k] = r[k]
  <2>1. 1 \in 1..(N + 1) /\ size \in 0..N
    BY <1>1 DEF N
  <2> QED
    BY <1>1, <2>1, SubSeqProperties
<1>3. DOMAIN s = 1..size /\ \A k \in 1..size : k \in 1..N /\ s[k] \in S
  <2>1. DOMAIN s = 1..size
    BY <1>2, LenProperties
  <2>2. \A k \in 1..size : k \in 1..N
    BY <1>1 DEF N
  <2> HIDE DEF s
  <2> QED
    BY <1>1, <1>2, <2>1, <2>2
<1> HIDE DEF s
<1>4. \A j, k \in 1..N : <<r[j], r[k]>> \in before <=> j < k
  <2> SUFFICES ASSUME NEW j \in 1..N, NEW k \in 1..N, <<r[j], r[k]>> \in before PROVE j < k
    BY <1>1
  <2>1. r[j] \in S /\ r[k] \in S
    BY <1>1
  <2>2. <<r[k], r[j]>> \notin before /\ r[j] # r[k]
    BY <2>1 DEF StrictOrder
  <2> QED
    BY <1>1, <2>2
<1>5. Sorts(S, s, before)
  BY <1>1, <1>2, <1>3, <1>4 DEF Sorts
<1>6. ToSet(s) = {x \in S : Cardinality(Before(S, before, x)) < size}
  <2>1. ASSUME NEW k \in 1..size PROVE s[k] \in S /\ Cardinality(Before(S, before, s[k])) < size
    <3>1. Cardinality(Before(S, before, s[k])) = k - 1
      BY <1>1, <1>2, <1>3
    <3> QED
      BY <1>3, <3>1
  <2>2. ASSUME NEW x \in S, Cardinality(Before(S, before, x)) < size
        PROVE  \E k \in 1..size : s[k] = x
    <3>1. PICK k \in 1..N : r[k] = x
      BY <1>1
    <3>2. k - 1 < size
      BY <1>1, <2>2, <3>1
    <3>3. k \in 1..size
      BY <1>1, <3>2
    <3> QED
      BY <1>2, <3>1, <3>3
  <2> QED
    BY <1>3, <2>1, <2>2 DEF ToSet
<1> QED
  BY <1>2, <1>5, <1>6 DEF s, r

(* The invariant of DetectionOutput.                                       *)
RowType == [imgid : Int, classid : Labels, confidence : Int, box : 0..num_priors_]

DetectionTypes ==
  /\ execute \in {"idle", "nms", "write", "read", "done"}
  /\ execute # "idle" => batch \in Batches
  /\ n \in Imgs
  /\ worker \in [Labels -> {"collect", "suppress", "done"}]
  /\ buffer \in [Labels -> [Priors -> Priors]]
  /\ indices \in [Imgs -> [Labels -> [Priors -> Priors]]]
  /\ detections \in [Imgs -> [Labels -> 0..num_priors_]]
  /\ dst \in [Rows -> RowType]

(* A thread finds in its slice what it has put there.                      *)
SliceHeld ==
  execute = "nms" =>
    \A c \in Labels :
      /\ worker[c] = "suppress" => SubSeq(buffer[c], 1, NumScores(c)) = BestFirst(c)
      /\ worker[c] # "done" => c # Ignored

(* Nothing is kept yet of the images to come.                              *)
ImagesToCome ==
  execute = "nms" => \A i \in Imgs, c \in Labels : i > n => detections[i][c] = 0

(* The kept detections of an image that is through are the keep_top_k_     *)
(* best of those that suppression keeps.                                   *)
Chosen(i) ==
  /\ KeptPairs(i) \subseteq WantedPairs(i)
  /\ Cardinality(KeptPairs(i)) = Smaller(keep_top_k_, Cardinality(WantedPairs(i)))
  /\ \A d \in KeptPairs(i), e \in WantedPairs(i) \ KeptPairs(i) : Conf(i, d) >= Conf(i, e)
  /\ \A c \in Labels : \A j, k \in 1..detections[i][c] :
       indices[i][c][j] = indices[i][c][k] => j = k

ImagesChosen ==
  \A i \in Imgs : execute \in {"write", "read"} \/ (execute = "nms" /\ i < n) => Chosen(i)

(* The rows that nobody clears are never written.                          *)
RowsBeyond == \A k \in Rows : k > num_batch_ * keep_top_k_ => dst[k] = Zero

(* The reader meets all rows of the batch, and no other.                   *)
RowsOfBatch ==
  execute = "read" =>
    \A k \in Rows :
      /\ k <= Cardinality(KeptPlaces) => dst[k] = Row(Ranked(KeptPlaces, Earlier)[k])
      /\ k = Cardinality(KeptPlaces) + 1 => LastRow(dst[k])

DetectionInv ==
  /\ DetectionTypes /\ SliceHeld /\ ImagesToCome /\ KeptGreedily /\ ImagesChosen
  /\ RowsBeyond /\ RowsOfBatch /\ BestReported

(* The candidates of class c of image i, best first.                       *)
Candidates(i, c) ==
  SubSeq(Ranked(Found(i, c), InOrder(i, c)), 1,
         IF top_k_ = -1 THEN Cardinality(Found(i, c))
         ELSE Smaller(top_k_, Cardinality(Found(i, c))))

LEMMA CandidatesSorted ==
  ASSUME batch \in Batches, NEW i \in Imgs, NEW c \in Labels
  PROVE  /\ Sorts(Priors, Candidates(i, c), InOrder(i, c))
         /\ Len(Candidates(i, c)) \in Nat /\ Len(Candidates(i, c)) <= num_priors_
         /\ c # Ignored => Wanted(i, c) = GreedySet(ToSet(Candidates(i, c)), InOrder(i, c), Overlap(c))
         /\ Wanted(i, c) \subseteq Found(i, c)
<1> DEFINE F == Found(i, c)
           N == Cardinality(F)
           size == IF top_k_ = -1 THEN N ELSE Smaller(top_k_, N)
           s == Candidates(i, c)
           rank(p) == Cardinality({q \in F : <<q, p>> \in InOrder(i, c)})
           best == {p \in F : top_k_ = -1 \/ rank(p) < top_k_}
<1>1. /\ F \in SUBSET Priors /\ IsFiniteSet(F) /\ N \in Nat /\ N <= num_priors_
      /\ StrictOrder(F, InOrder(i, c))
  BY CandidateOrder
<1>2. num_priors_ \in Nat /\ top_k_ \in Nat \cup {-1}
  BY DetectionAssumption
<1>3. \A p \in F : rank(p) \in 0..(N - 1)
  <2>1. \A p \in F : Cardinality(Before(F, InOrder(i, c), p)) \in 0..(N - 1)
    <3> HIDE DEF F
    <3> QED
      BY <1>1, Ranks
  <2> QED
    BY <2>1 DEF Before
<1> HIDE DEF F
<1>4. size \in Nat /\ size <= N /\ (top_k_ # -1 => size = Smaller(top_k_, N)) /\ (top_k_ = -1 => size = N)
  <2> HIDE DEF N
  <2> QED
    BY <1>1, <1>2 DEF Smaller
<1>5. s = SubSeq(Ranked(F, InOrder(i, c)), 1, size)
  BY DEF Candidates, F
<1> HIDE DEF size, s
<1>6. /\ Sorts(F, s, InOrder(i, c)) /\ Len(s) = size
      /\ ToSet(s) = {x \in F : Cardinality(Before(F, InOrder(i, c), x)) < size}
  BY <1>1, <1>4, <1>5, FirstRanked
<1>7. ToSet(s) = {x \in F : rank(x) < size}
  BY <1>6 DEF Before
<1>8. ToSet(s) = best
  <2> HIDE DEF rank, N
  <2>1. ASSUME NEW x \in F PROVE rank(x) < size <=> top_k_ = -1 \/ rank(x) < top_k_
    BY <1>1, <1>2, <1>3, <1>4 DEF Smaller
  <2> QED
    BY <1>7, <2>1
<1>9. Sorts(Priors, s, InOrder(i, c))
  <2>1. s \in Seq(Priors)
    <3>1. s \in Seq(F)
      BY <1>6 DEF Sorts
    <3>2. \A k \in 1..Len(s) : s[k] \in F
      BY <3>1, ElementOfSeq
    <3>3. s \in [1..Len(s) -> Priors]
      BY <1>1, <3>1, <3>2, LenProperties
    <3> QED
      BY <1>4, <1>6, <3>3, ListOf
  <2> QED
    BY <1>6, <2>1 DEF Sorts
<1>10. c # Ignored => Wanted(i, c) = GreedySet(ToSet(s), InOrder(i, c), Overlap(c))
  BY <1>8 DEF Wanted, F
<1>11. GreedySet(ToSet(s), InOrder(i, c), Overlap(c)) \subseteq ToSet(s)
  <2> DEFINE G == GreedySet(ToSet(s), InOrder(i, c), Overlap(c))
  <2>1. \E K \in SUBSET ToSet(s) : IsGreedy(ToSet(s), InOrder(i, c), Overlap(c), K)
    BY <1>9, GreedyExists
  <2>2. G = CHOOSE K \in SUBSET ToSet(s) : IsGreedy(ToSet(s), InOrder(i, c), Overlap(c), K)
    BY DEF GreedySet, IsGreedy
  <2> HIDE DEF G
  <2>3. G \subseteq ToSet(s)
    BY <2>1, <2>2
  <2> QED
    BY <2>3 DEF G
<1>12. Wanted(i, c) \subseteq F
  <2>1. CASE c = Ignored
    BY <2>1 DEF Wanted
  <2>2. CASE c # Ignored
    BY <1>7, <1>10, <1>11, <2>2
  <2> QED
    BY <2>1, <2>2
<1>13. Len(s) \in Nat /\ Len(s) <= num_priors_
  BY <1>1, <1>2, <1>4, <1>6
<1> QED
  BY <1>9, <1>10, <1>12, <1>13 DEF s, F

LEMMA BestFirstCandidates ==
  ASSUME NEW c \in Labels
  PROVE  /\ BestFirst(c) = Candidates(n, c)
         /\ batch \in Batches /\ n \in Imgs => Len(BestFirst(c)) = NumScores(c)
<1>1. BestFirst(c) = Candidates(n, c)
  BY DEF BestFirst, Candidates, NumScores
<1>2. ASSUME batch \in Batches, n \in Imgs PROVE Len(BestFirst(c)) = NumScores(c)
  <2> DEFINE F == Found(n, c)
  <2>1. /\ IsFiniteSet(F) /\ Cardinality(F) \in Nat /\ StrictOrder(F, InOrder(n, c))
    BY <1>2, CandidateOrder
  <2>2. NumScores(c) \in Nat /\ NumScores(c) <= Cardinality(F)
    <3>1. top_k_ \in Nat \cup {-1}
      BY DetectionAssumption
    <3> QED
      BY <2>1, <3>1 DEF NumScores, Smaller
  <2>3. BestFirst(c) = SubSeq(Ranked(F, InOrder(n, c)), 1, NumScores(c))
    BY DEF BestFirst
  <2> HIDE DEF F
  <2> QED
    BY <2>1, <2>2, <2>3, FirstRanked
<1> QED
  BY <1>1, <1>2

(* The first cells of an array that was written.                           *)
LEMMA FirstCells ==
  ASSUME NEW a \in [Priors -> Priors], NEW m \in 0..num_priors_
  PROVE  /\ SubSeq(a, 1, m) \in Seq(Priors) /\ Len(SubSeq(a, 1, m)) = m
         /\ \A k \in 1..m : SubSeq(a, 1, m)[k] = a[k] /\ a[k] \in Priors
         /\ ToSet(SubSeq(a, 1, m)) = {a[k] : k \in 1..m}
<1>1. num_priors_ \in Nat
  BY DetectionAssumption
<1>2. a \in Seq(Priors) /\ Len(a) = num_priors_
  <2>1. a \in [1..num_priors_ -> Priors]
    BY DEF Priors
  <2> QED
    BY ONLY <1>1, <2>1, ListOf
<1>3. 1 \in 1..(Len(a) + 1) /\ m \in 0..Len(a)
  BY <1>1, <1>2
<1>4. /\ SubSeq(a, 1, m) \in Seq(Priors) /\ Len(SubSeq(a, 1, m)) = m
      /\ \A k \in 1..m : SubSeq(a, 1, m)[k] = a[k]
  BY <1>2, <1>3, SubSeqProperties
<1>5. \A k \in 1..m : a[k] \in Priors
  BY <1>1 DEF Priors
<1>6. DOMAIN SubSeq(a, 1, m) = 1..m
  BY <1>4, LenProperties
<1> QED
  BY <1>4, <1>5, <1>6 DEF ToSet

LEMMA Overwritten ==
  ASSUME NEW a \in [Priors -> Priors], NEW s \in Seq(Priors), Len(s) <= num_priors_
  PROVE  LET o == Overwrite(a, s) IN
         /\ o \in [Priors -> Priors]
         /\ \A k \in 1..Len(s) : o[k] = s[k]
         /\ SubSeq(o, 1, Len(s)) = s
<1> DEFINE o == Overwrite(a, s)
<1>1. num_priors_ \in Nat /\ Len(s) \in Nat /\ Len(s) \in 0..num_priors_ /\ DOMAIN s = 1..Len(s)
  BY DetectionAssumption, LenProperties
<1>2. \A k \in 1..Len(s) : s[k] \in Priors
  BY ElementOfSeq
<1>3. \A i \in Priors : i <= Len(s) => i \in 1..Len(s)
  BY <1>1 DEF Priors
<1>4. o \in [Priors -> Priors]
  BY <1>2, <1>3 DEF Overwrite
<1>5. \A k \in 1..Len(s) : k \in Priors /\ o[k] = s[k]
  BY <1>1 DEF Overwrite, Priors
<1> HIDE DEF o
<1> DEFINE t == SubSeq(o, 1, Len(s))
<1>6. t \in Seq(Priors) /\ Len(t) = Len(s) /\ \A k \in 1..Len(s) : t[k] = o[k]
  BY <1>1, <1>4, FirstCells
<1> HIDE DEF t
<1>7. t = s
  <2>1. \A k \in 1..Len(s) : t[k] = s[k]
    BY <1>5, <1>6
  <2> QED
    BY <1>6, <2>1, SeqEqual
<1> QED
  BY <1>4, <1>5, <1>7 DEF o, t

(* What is kept and wanted of an image changes only with the batch, its    *)
(* indices and its counts.                                                 *)
LEMMA SameBatch ==
  ASSUME batch' = batch
  PROVE  /\ \A i, c : /\ Found(i, c)' = Found(i, c)
                      /\ InOrder(i, c)' = InOrder(i, c)
                      /\ Wanted(i, c)' = Wanted(i, c)
         /\ \A i : WantedPairs(i)' = WantedPairs(i)
         /\ \A i, d : Conf(i, d)' = Conf(i, d)
<1>1. \A i, c : Found(i, c)' = Found(i, c)
  BY DEF Found
<1>2. \A i, c : InOrder(i, c)' = InOrder(i, c)
  BY DEF InOrder
<1>3. \A i, d : Conf(i, d)' = Conf(i, d)
  BY DEF Conf
<1>4. \A i, c : Wanted(i, c)' = Wanted(i, c)
  <2> SUFFICES ASSUME NEW i, NEW c PROVE Wanted(i, c)' = Wanted(i, c)
    OBVIOUS
  <2>1. Found(i, c)' = Found(i, c) /\ InOrder(i, c)' = InOrder(i, c)
    BY <1>1, <1>2
  <2> QED
    BY <2>1 DEF Wanted
<1>5. \A i : WantedPairs(i)' = WantedPairs(i)
  BY <1>4 DEF WantedPairs
<1> QED
  BY <1>1, <1>2, <1>3, <1>4, <1>5

LEMMA SameImage ==
  ASSUME batch' = batch, NEW i,
         \A c \in Labels : indices'[i][c] = indices[i][c] /\ detections'[i][c] = detections[i][c]
  PROVE  /\ \A c \in Labels : Kept(i, c)' = Kept(i, c)
         /\ KeptPairs(i)' = KeptPairs(i)
         /\ Chosen(i)' <=> Chosen(i)
<1>1. \A c \in Labels : Kept(i, c)' = Kept(i, c)
  BY DEF Kept
<1>2. KeptPairs(i)' = KeptPairs(i)
  BY <1>1 DEF KeptPairs
<1>3. WantedPairs(i)' = WantedPairs(i) /\ \A d : Conf(i, d)' = Conf(i, d)
  BY SameBatch
<1>4. Chosen(i)' <=> Chosen(i)
  BY <1>2, <1>3 DEF Chosen
<1> QED
  BY <1>1, <1>2, <1>4

(* Class c of image n is through with suppression.                         *)
KeptOfClass(c) ==
  /\ ToSet(Kept(n, c)) = Wanted(n, c)
  /\ \A j, k \in 1..detections[n][c] :
       j < k => <<indices[n][c][j], indices[n][c][k]>> \in InOrder(n, c)

LEMMA GreedilyByClass ==
  KeptGreedily <=> (execute = "nms" => \A c \in Labels : worker[c] = "done" => KeptOfClass(c))
BY DEF KeptGreedily, KeptOfClass

LEMMA DetectionInitInv == DetectionInit => DetectionInv
<1> SUFFICES ASSUME DetectionInit PROVE DetectionInv
  OBVIOUS
<1>1. execute = "idle"
  BY DEF DetectionInit
<1>2. DetectionTypes
  <2>1. 0 \in Imgs /\ 0 \in Labels /\ 1 \in Priors /\ 0 \in 0..num_priors_
    BY DetectionAssumption DEF Imgs, Labels, Priors
  <2>2. Zero \in RowType
    BY <2>1 DEF Zero, RowType
  <2> QED
    BY <2>1, <2>2 DEF DetectionInit, DetectionTypes
<1>3. RowsBeyond
  BY DEF DetectionInit, RowsBeyond
<1> QED
  BY <1>1, <1>2, <1>3 DEF DetectionInv, SliceHeld, ImagesToCome, KeptGreedily, ImagesChosen,
       RowsOfBatch, BestReported

LEMMA StartBatchInv ==
  ASSUME DetectionInv, StartBatch PROVE DetectionInv'
<1>1. /\ batch' \in Batches /\ execute' = "nms" /\ n' = 0
      /\ worker' = [c \in Labels |-> IF c = Ignored THEN "done" ELSE "collect"]
      /\ detections' = [i \in Imgs |-> [c \in Labels |-> 0]]
      /\ UNCHANGED <<buffer, indices, dst, boxs>>
  BY DEF StartBatch
<1>2. /\ DetectionTypes /\ RowsBeyond
  BY DEF DetectionInv
<1>3. 0 \in Imgs /\ 0 \in 0..num_priors_ /\ \A i \in Imgs : ~(i < 0)
  BY DetectionAssumption DEF Imgs
<1>4. DetectionTypes'
  BY <1>1, <1>2, <1>3 DEF DetectionTypes
<1>5. SliceHeld'
  BY <1>1 DEF SliceHeld
<1>6. ImagesToCome'
  BY <1>1 DEF ImagesToCome
<1>7. KeptGreedily'
  <2> SUFFICES ASSUME NEW c \in Labels, worker'[c] = "done" PROVE KeptOfClass(c)'
    BY DEF KeptGreedily, KeptOfClass
  <2>1. c = Ignored
    BY <1>1
  <2>2. Wanted(n, c)' = {}
    BY <2>1 DEF Wanted
  <2>3. detections'[n'][c] = 0 /\ indices'[n'][c] \in [Priors -> Priors]
    BY <1>1, <1>2, <1>3 DEF DetectionTypes
  <2>4. ToSet(Kept(n, c)') = {}
    <3>1. ToSet(SubSeq(indices'[n'][c], 1, 0)) = {indices'[n'][c][k] : k \in 1..0}
      BY <1>3, <2>3, FirstCells
    <3> QED
      BY <2>3, <3>1 DEF Kept
  <2> QED
    BY <2>2, <2>3, <2>4 DEF KeptOfClass
<1>8. ImagesChosen'
  BY <1>1, <1>3 DEF ImagesChosen
<1>9. RowsBeyond'
  BY <1>1, <1>2 DEF RowsBeyond
<1>10. RowsOfBatch' /\ BestReported'
  BY <1>1 DEF RowsOfBatch, BestReported
<1> QED
  BY <1>4, <1>5, <1>6, <1>7, <1>8, <1>9, <1>10 DEF DetectionInv

LEMMA CollectBoxesInv ==
  ASSUME DetectionInv, NEW c \in Labels, CollectBoxes(c) PROVE DetectionInv'
<1>1. /\ execute = "nms" /\ worker[c] = "collect"
      /\ indices' = [indices EXCEPT ![n][c] = Overwrite(@, AsFound(c))]
      /\ buffer' = [buffer EXCEPT ![c] = Overwrite(@, BestFirst(c))]
      /\ worker' = [worker EXCEPT ![c] = "suppress"]
      /\ UNCHANGED <<execute, batch, n, detections, dst, boxs>>
  BY DEF CollectBoxes, Slice
<1>2. /\ DetectionTypes /\ SliceHeld /\ ImagesToCome /\ KeptGreedily /\ ImagesChosen /\ RowsBeyond
  BY DEF DetectionInv
<1>3. /\ batch \in Batches /\ n \in Imgs
      /\ worker \in [Labels -> {"collect", "suppress", "done"}]
      /\ buffer \in [Labels -> [Priors -> Priors]]
      /\ indices \in [Imgs -> [Labels -> [Priors -> Priors]]]
  BY <1>1, <1>2 DEF DetectionTypes
<1>4. /\ AsFound(c) \in Seq(Priors) /\ Len(AsFound(c)) <= num_priors_
  <2> DEFINE F == Found(n, c)
  <2>1. /\ F \in SUBSET Priors /\ IsFiniteSet(F) /\ Cardinality(F) \in Nat
        /\ Cardinality(F) <= num_priors_
    BY <1>3, CandidateOrder
  <2>2. StrictOrder(F, Ascending)
    <3>1. \A x \in F : x \in Nat
      BY <2>1 DEF Priors
    <3>2. \A x, y \in F : <<x, y>> \in Ascending <=> x < y
      BY <3>1 DEF Ascending
    <3> QED
      BY <3>1, <3>2 DEF StrictOrder
  <2> HIDE DEF F
  <2>3. Ranked(F, Ascending) \in [1..Cardinality(F) -> F]
    BY <2>1, <2>2, RankedList
  <2>4. Ranked(F, Ascending) \in [1..Cardinality(F) -> Priors]
    BY <2>1, <2>3
  <2>5. Ranked(F, Ascending) \in Seq(Priors) /\ Len(Ranked(F, Ascending)) = Cardinality(F)
    BY <2>1, <2>4, ListOf
  <2> QED
    BY <2>1, <2>5 DEF AsFound, F
<1>5. /\ BestFirst(c) \in Seq(Priors) /\ Len(BestFirst(c)) <= num_priors_
      /\ Len(BestFirst(c)) = NumScores(c)
  <2>1. Sorts(Priors, Candidates(n, c), InOrder(n, c)) /\ Len(Candidates(n, c)) <= num_priors_
    BY <1>3, CandidatesSorted
  <2> QED
    BY <1>3, <2>1, BestFirstCandidates DEF Sorts
<1>6. /\ Overwrite(indices[n][c], AsFound(c)) \in [Priors -> Priors]
      /\ Overwrite(buffer[c], BestFirst(c)) \in [Priors -> Priors]
      /\ SubSeq(Overwrite(buffer[c], BestFirst(c)), 1, NumScores(c)) = BestFirst(c)
  <2>1. indices[n][c] \in [Priors -> Priors] /\ buffer[c] \in [Priors -> Priors]
    BY <1>3
  <2> QED
    BY <1>4, <1>5, <2>1, Overwritten
<1>7. DetectionTypes'
  <2>1. indices' \in [Imgs -> [Labels -> [Priors -> Priors]]]
    BY <1>1, <1>3, <1>6
  <2>2. buffer' \in [Labels -> [Priors -> Priors]]
    BY <1>1, <1>3, <1>6
  <2>3. worker' \in [Labels -> {"collect", "suppress", "done"}]
    BY <1>1, <1>3
  <2> QED
    BY <1>1, <1>2, <2>1, <2>2, <2>3 DEF DetectionTypes
<1>8. SliceHeld'
  <2>a. \A d \in Labels : worker'[d] # "done" => d # Ignored
    BY <1>1, <1>2, <1>3 DEF SliceHeld
  <2> SUFFICES ASSUME NEW d \in Labels, worker'[d] = "suppress"
               PROVE  SubSeq(buffer'[d], 1, NumScores(d)') = BestFirst(d)'
    BY <2>a DEF SliceHeld
  <2>1. BestFirst(d)' = BestFirst(d) /\ NumScores(d)' = NumScores(d)
    BY <1>1 DEF BestFirst, NumScores, Found, InOrder
  <2>2. CASE d = c
    BY <1>1, <1>3, <1>6, <2>1, <2>2
  <2>3. CASE d # c
    <3>1. worker[d] = "suppress" /\ buffer'[d] = buffer[d]
      BY <1>1, <1>3, <2>3
    <3>2. SubSeq(buffer[d], 1, NumScores(d)) = BestFirst(d)
      BY <1>1, <1>2, <3>1 DEF SliceHeld
    <3> QED
      BY <2>1, <3>1, <3>2
  <2> QED
    BY <2>2, <2>3
<1>9. ImagesToCome'
  BY <1>1, <1>2 DEF ImagesToCome
<1>10. KeptGreedily'
  <2> SUFFICES ASSUME NEW d \in Labels, worker'[d] = "done" PROVE KeptOfClass(d)'
    BY DEF KeptGreedily, KeptOfClass
  <2>1. d # c /\ worker[d] = "done"
    BY <1>1, <1>3
  <2>2. indices'[n][d] = indices[n][d]
    BY <1>1, <1>3, <2>1
  <2>3. KeptOfClass(d)
    BY <1>1, <1>2, <2>1, GreedilyByClass
  <2>4. Wanted(n, d)' = Wanted(n, d) /\ InOrder(n, d)' = InOrder(n, d)
    BY <1>1, SameBatch
  <2>5. Kept(n, d)' = Kept(n, d)
    BY <1>1, <2>2 DEF Kept
  <2> QED
    BY <1>1, <2>2, <2>3, <2>4, <2>5 DEF KeptOfClass
<1>11. ImagesChosen'
  <2> SUFFICES ASSUME NEW i \in Imgs, i < n PROVE Chosen(i)'
    BY <1>1 DEF ImagesChosen
  <2>1. Chosen(i)
    BY <1>1, <1>2 DEF ImagesChosen
  <2>2. \A d \in Labels : indices'[i][d] = indices[i][d] /\ detections'[i][d] = detections[i][d]
    <3>1. i # n
      BY <1>3 DEF Imgs
    <3> QED
      BY <1>1, <1>3, <3>1
  <2> QED
    BY <1>1, <2>1, <2>2, SameImage
<1>12. RowsBeyond'
  BY <1>1, <1>2 DEF RowsBeyond
<1>13. RowsOfBatch' /\ BestReported'
  BY <1>1 DEF RowsOfBatch, BestReported
<1> QED
  BY <1>7, <1>8, <1>9, <1>10, <1>11, <1>12, <1>13 DEF DetectionInv

LEMMA SuppressBoxesInv ==
  ASSUME DetectionInv, NEW c \in Labels, SuppressBoxes(c) PROVE DetectionInv'
<1> DEFINE s == Candidates(n, c)
           kept == KeepLoop(s, num_priors_, Overlap(c))
<1>1. /\ DetectionTypes /\ SliceHeld /\ ImagesToCome /\ KeptGreedily /\ ImagesChosen /\ RowsBeyond
  BY DEF DetectionInv
<1>2. execute = "nms" /\ worker[c] = "suppress"
  BY DEF SuppressBoxes
<1>3. SubSeq(buffer[c], 1, NumScores(c)) = s /\ c # Ignored
  <2>1. SubSeq(buffer[c], 1, NumScores(c)) = BestFirst(c) /\ c # Ignored
    BY <1>1, <1>2 DEF SliceHeld
  <2> QED
    BY <2>1, BestFirstCandidates
<1> HIDE DEF s
<1>4. /\ indices' = [indices EXCEPT ![n][c] = Overwrite(@, kept)]
      /\ detections' = [detections EXCEPT ![n][c] = Len(kept)]
      /\ worker' = [worker EXCEPT ![c] = "done"]
      /\ UNCHANGED <<execute, batch, n, buffer, dst, boxs>>
  BY <1>3 DEF SuppressBoxes, Slice
<1>5. /\ batch \in Batches /\ n \in Imgs
      /\ worker \in [Labels -> {"collect", "suppress", "done"}]
      /\ indices \in [Imgs -> [Labels -> [Priors -> Priors]]]
      /\ detections \in [Imgs -> [Labels -> 0..num_priors_]]
  BY <1>1, <1>2 DEF DetectionTypes
<1>6. /\ Sorts(Priors, s, InOrder(n, c)) /\ Len(s) \in Nat /\ Len(s) <= num_priors_
      /\ Wanted(n, c) = GreedySet(ToSet(s), InOrder(n, c), Overlap(c))
  BY <1>3, <1>5, CandidatesSorted DEF s
<1>7. num_priors_ \in Nat
  BY DetectionAssumption
<1>8. PICK pos : GreedyAt(Priors, s, num_priors_, Overlap(c), Len(s), kept, pos)
  <2>1. s \in Seq(Priors)
    BY <1>6 DEF Sorts
  <2> QED
    BY <1>7, <2>1, KeepLoopGreedy
<1> HIDE DEF kept
<1>9. /\ ToSet(kept) = Wanted(n, c)
      /\ kept \in Seq(Priors) /\ Len(kept) \in Nat /\ Len(kept) <= Len(s)
      /\ \A j, k \in 1..Len(kept) : j < k => <<kept[j], kept[k]>> \in InOrder(n, c)
  BY <1>6, <1>7, <1>8, AllAreGreedy
<1>10. Len(kept) \in 0..num_priors_
  BY <1>6, <1>7, <1>9
<1> DEFINE o == Overwrite(indices[n][c], kept)
<1>11. /\ o \in [Priors -> Priors]
       /\ \A k \in 1..Len(kept) : o[k] = kept[k]
       /\ SubSeq(o, 1, Len(kept)) = kept
  <2>1. indices[n][c] \in [Priors -> Priors]
    BY <1>5
  <2> QED
    BY <1>7, <1>9, <1>10, <2>1, Overwritten
<1>12. indices'[n][c] = o /\ detections'[n][c] = Len(kept)
  BY <1>4, <1>5
<1> HIDE DEF o
<1>13. DetectionTypes'
  <2>1. indices' \in [Imgs -> [Labels -> [Priors -> Priors]]]
    BY <1>4, <1>5, <1>11 DEF o
  <2>2. detections' \in [Imgs -> [Labels -> 0..num_priors_]]
    BY <1>4, <1>5, <1>10
  <2>3. worker' \in [Labels -> {"collect", "suppress", "done"}]
    BY <1>4, <1>5
  <2> QED
    BY <1>4, <1>1, <2>1, <2>2, <2>3 DEF DetectionTypes
<1>14. SliceHeld'
  <2> SUFFICES ASSUME NEW d \in Labels
               PROVE  /\ worker'[d] = "suppress" => SubSeq(buffer'[d], 1, NumScores(d)') = BestFirst(d)'
                      /\ worker'[d] # "done" => d # Ignored
    BY DEF SliceHeld
  <2>1. BestFirst(d)' = BestFirst(d) /\ NumScores(d)' = NumScores(d)
    BY <1>4 DEF BestFirst, NumScores, Found, InOrder
  <2>2. worker'[d] = worker[d] \/ worker'[d] = "done"
    BY <1>4, <1>5
  <2> QED
    BY <1>1, <1>2, <1>4, <2>1, <2>2 DEF SliceHeld
<1>15. ImagesToCome'
  <2> SUFFICES ASSUME NEW i \in Imgs, NEW d \in Labels, i > n PROVE detections'[i][d] = 0
    BY <1>4 DEF ImagesToCome
  <2>1. i # n
    BY <1>5 DEF Imgs
  <2> QED
    BY <1>1, <1>2, <1>4, <1>5, <2>1 DEF ImagesToCome
<1>16. KeptGreedily'
  <2> SUFFICES ASSUME NEW d \in Labels, worker'[d] = "done" PROVE KeptOfClass(d)'
    BY DEF KeptGreedily, KeptOfClass
  <2>1. Wanted(n, d)' = Wanted(n, d) /\ InOrder(n, d)' = InOrder(n, d)
    BY <1>4, SameBatch
  <2>2. CASE d = c
    <3>1. Kept(n, c)' = kept
      BY <1>4, <1>11, <1>12 DEF Kept
    <3> QED
      BY <1>4, <1>9, <1>11, <1>12, <2>1, <2>2, <3>1 DEF KeptOfClass
  <2>3. CASE d # c
    <3>1. /\ indices'[n][d] = indices[n][d] /\ detections'[n][d] = detections[n][d]
          /\ worker[d] = "done"
      BY <1>4, <1>5, <2>3
    <3>2. KeptOfClass(d)
      BY <1>1, <1>2, <3>1, GreedilyByClass
    <3>3. Kept(n, d)' = Kept(n, d)
      BY <1>4, <3>1 DEF Kept
    <3> QED
      BY <1>4, <2>1, <3>1, <3>2, <3>3 DEF KeptOfClass
  <2> QED
    BY <2>2, <2>3
<1>17. ImagesChosen'
  <2> SUFFICES ASSUME NEW i \in Imgs, i < n PROVE Chosen(i)'
    BY <1>2, <1>4 DEF ImagesChosen
  <2>1. Chosen(i)
    BY <1>1, <1>2 DEF ImagesChosen
  <2>2. \A d \in Labels : indices'[i][d] = indices[i][d] /\ detections'[i][d] = detections[i][d]
    <3>1. i # n
      BY <1>5 DEF Imgs
    <3> QED
      BY <1>4, <1>5, <3>1
  <2> QED
    BY <1>4, <2>1, <2>2, SameImage
<1>18. RowsBeyond'
  BY <1>1, <1>4 DEF RowsBeyond
<1>19. RowsOfBatch' /\ BestReported'
  BY <1>2, <1>4 DEF RowsOfBatch, BestReported
<1> QED
  BY <1>13, <1>14, <1>15, <1>16, <1>17, <1>18, <1>19 DEF DetectionInv

(* Different elements of a finite set have as many different images.       *)
LEMMA OneToOne ==
  ASSUME NEW S, IsFiniteSet(S), NEW T, NEW f \in [S -> T],
         \A x, y \in S : f[x] = f[y] => x = y, \A y \in T : \E x \in S : f[x] = y
  PROVE  IsFiniteSet(T) /\ Cardinality(T) = Cardinality(S) /\ Cardinality(S) \in Nat
<1>1. f \in Surjection(S, T) /\ f \in Injection(S, T)
  BY DEF Surjection, Injection, IsInjective
<1>2. IsFiniteSet(T) /\ Cardinality(T) = Cardinality(S)
  BY <1>1, FS_Surjection
<1>3. Cardinality(S) \in Nat
  BY FS_CardinalityType
<1> QED
  BY <1>2, <1>3

LEMMA DifferentElements ==
  ASSUME NEW A, NEW s \in Seq(A), \A j, k \in 1..Len(s) : s[j] = s[k] => j = k
  PROVE  /\ IsFiniteSet(ToSet(s)) /\ Cardinality(ToSet(s)) = Len(s)
<1>1. Len(s) \in Nat /\ s \in [1..Len(s) -> A] /\ DOMAIN s = 1..Len(s)
  BY LenProperties
<1>2. \A k \in Nat : IsFiniteSet(1..k) /\ Cardinality(1..k) = k
  BY FS_Interval
<1> DEFINE D == 1..Len(s)
<1>3. IsFiniteSet(D) /\ Cardinality(D) = Len(s) /\ s \in [D -> A]
      /\ \A j, k \in D : s[j] = s[k] => j = k
  BY <1>1, <1>2
<1>4. ToSet(s) = {s[k] : k \in D}
  BY <1>1 DEF ToSet
<1> HIDE DEF D
<1> DEFINE T == ToSet(s)
<1>5. s \in [D -> T] /\ \A y \in T : \E k \in D : s[k] = y
  BY <1>3, <1>4
<1> HIDE DEF T
<1>6. IsFiniteSet(T) /\ Cardinality(T) = Cardinality(D)
  BY <1>3, <1>5, OneToOne, ZenonT(40)
<1> QED
  BY <1>3, <1>6 DEF T

(* The detections of one class in a list of detections.                    *)
LEMMA LabelsOfList ==
  ASSUME NEW s \in Seq(Labels \X Priors), \A j, k \in 1..Len(s) : s[j] = s[k] => j = k,
         NEW c \in Labels
  PROVE  LET t == OfLabel(s, c) IN
         /\ t \in Seq(Priors) /\ Len(t) \in 0..num_priors_
         /\ \A j, k \in 1..Len(t) : t[j] = t[k] => j = k
         /\ ToSet(t) = {p \in Priors : <<c, p>> \in ToSet(s)}
<1> DEFINE places == {k \in DOMAIN s : s[k][1] = c}
           m == Cardinality(places)
           order == Ranked(places, Ascending)
           mine == Pick(s, places)
           t == OfLabel(s, c)
<1>1. Len(s) \in Nat /\ DOMAIN s = 1..Len(s) /\ \A k \in 1..Len(s) : s[k] \in Labels \X Priors
  BY LenProperties, ElementOfSeq
<1>2. places \in SUBSET (1..Len(s)) /\ places = {k \in 1..Len(s) : s[k][1] = c}
  BY <1>1
<1>3. /\ m \in Nat /\ mine \in Seq(Labels \X Priors) /\ Len(mine) = m
      /\ order \in [1..m -> places]
      /\ \A k \in 1..m : mine[k] = s[order[k]]
      /\ \A p \in places : \E k \in 1..m : order[k] = p
      /\ \A j, k \in 1..m : j < k => order[j] < order[k]
  <2> HIDE DEF places
  <2>1. PICK A : A = Labels \X Priors
    OBVIOUS
  <2>2. s \in Seq(A) /\ places \in SUBSET (1..Len(s))
    BY <1>2, <2>1
  <2>3. /\ m \in Nat /\ mine \in Seq(A) /\ Len(mine) = m
        /\ order \in [1..m -> places]
        /\ \A k \in 1..m : mine[k] = s[order[k]]
        /\ \A p \in places : \E k \in 1..m : order[k] = p
        /\ \A j, k \in 1..m : j < k => order[j] < order[k]
    BY ONLY <2>2, PickedList
  <2> QED
    BY <2>1, <2>3
<1>4. t = [k \in 1..m |-> mine[k][2]]
  <2>1. DOMAIN mine = 1..m
    BY <1>3, LenProperties
  <2> QED
    BY <2>1 DEF OfLabel
<1> HIDE DEF places, m, order, mine, t
<1>5. \A k \in 1..m : order[k] \in 1..Len(s) /\ s[order[k]] = <<c, t[k]>> /\ t[k] \in Priors
  <2> SUFFICES ASSUME NEW k \in 1..m
               PROVE  order[k] \in 1..Len(s) /\ s[order[k]] = <<c, t[k]>> /\ t[k] \in Priors
    OBVIOUS
  <2>1. order[k] \in 1..Len(s) /\ s[order[k]][1] = c
    BY <1>2, <1>3
  <2>2. s[order[k]] \in Labels \X Priors /\ t[k] = s[order[k]][2]
    BY <1>1, <1>3, <1>4, <2>1
  <2>3. PICK d \in Labels \X Priors : d = s[order[k]]
    BY <2>2
  <2>4. d = <<d[1], d[2]>> /\ d[2] \in Priors
    OBVIOUS
  <2> QED
    BY <2>1, <2>2, <2>3, <2>4
<1>6. t \in [1..m -> Priors]
  BY <1>4, <1>5
<1>7. t \in Seq(Priors) /\ Len(t) = m
  <2>1. m \in Nat
    BY <1>3
  <2> QED
    BY ONLY <1>6, <2>1, ListOf
<1>8. ASSUME NEW j \in 1..m, NEW k \in 1..m, t[j] = t[k] PROVE j = k
  <2>1. s[order[j]] = s[order[k]]
    BY <1>5, <1>8
  <2>2. order[j] = order[k]
    BY <1>5, <2>1
  <2>3. ~(j < k) /\ ~(k < j)
    <3>1. order[j] \in Nat
      BY <1>1, <1>5
    <3> QED
      BY <1>3, <2>2, <3>1
  <2> QED
    BY <1>3, <2>3
<1>9. ToSet(t) = {p \in Priors : <<c, p>> \in ToSet(s)}
  <2>1. ToSet(t) = {t[k] : k \in 1..m} /\ ToSet(s) = {s[k] : k \in 1..Len(s)}
    BY <1>1, <1>6 DEF ToSet
  <2>2. ASSUME NEW k \in 1..m PROVE t[k] \in Priors /\ <<c, t[k]>> \in ToSet(s)
    BY <1>5, <2>1
  <2>3. ASSUME NEW p \in Priors, <<c, p>> \in ToSet(s) PROVE p \in ToSet(t)
    <3>1. PICK i \in 1..Len(s) : s[i] = <<c, p>>
      BY <2>1, <2>3
    <3>2. i \in places
      BY <1>2, <3>1
    <3>3. PICK k \in 1..m : order[k] = i
      BY <1>3, <3>2
    <3>4. k \in 1..m /\ t[k] = p
      BY <1>5, <3>1, <3>3
    <3> HIDE DEF m, t
    <3> QED
      BY <2>1, <3>4, SMTT(40)
  <2> QED
    BY <2>1, <2>2, <2>3, SMTT(40)
<1>10. m <= num_priors_
  <2>1. t \in Injection(1..m, Priors)
    BY <1>6, <1>8 DEF Injection, IsInjective
  <2>2. num_priors_ \in Nat
    BY DetectionAssumption
  <2>3. \A k \in Nat : IsFiniteSet(1..k) /\ Cardinality(1..k) = k
    BY FS_Interval
  <2>4. IsFiniteSet(Priors) /\ Cardinality(Priors) = num_priors_ /\ Cardinality(1..m) = m
    BY <1>3, <2>2, <2>3 DEF Priors
  <2> QED
    BY <2>1, <2>4, FS_Injection
<1>11. m \in 0..num_priors_
  BY <1>3, <1>10, DetectionAssumption
<1> QED
  BY <1>7, <1>8, <1>9, <1>11 DEF t

(* The kept detections of an image.                                        *)
LEMMA PairsKept ==
  ASSUME DetectionTypes, NEW i \in Imgs
  PROVE  /\ \A c \in Labels : ToSet(Kept(i, c)) = {indices[i][c][k] : k \in 1..detections[i][c]}
         /\ \A c \in Labels : \A k \in 1..detections[i][c] : indices[i][c][k] \in Priors
         /\ KeptPairs(i) \in SUBSET (Labels \X Priors)
         /\ \A c, p : <<c, p>> \in KeptPairs(i) <=>
              c \in Labels /\ \E k \in 1..detections[i][c] : p = indices[i][c][k]
         /\ IsFiniteSet(KeptPairs(i)) /\ Cardinality(KeptPairs(i)) \in Nat
<1>1. \A c \in Labels : indices[i][c] \in [Priors -> Priors] /\ detections[i][c] \in 0..num_priors_
  BY DEF DetectionTypes
<1>2. \A c \in Labels :
        /\ ToSet(Kept(i, c)) = {indices[i][c][k] : k \in 1..detections[i][c]}
        /\ \A k \in 1..detections[i][c] : indices[i][c][k] \in Priors
  BY <1>1, FirstCells DEF Kept
<1>3. \A d : d \in KeptPairs(i) <=>
        \E c \in Labels : \E k \in 1..detections[i][c] : d = <<c, indices[i][c][k]>>
  BY <1>2 DEF KeptPairs
<1>4. KeptPairs(i) \in SUBSET (Labels \X Priors)
  BY <1>2, <1>3
<1>5. \A c, p : <<c, p>> \in KeptPairs(i) <=>
        c \in Labels /\ \E k \in 1..detections[i][c] : p = indices[i][c][k]
  BY <1>3
<1>6. IsFiniteSet(Labels \X Priors)
  <2>1. num_classes_ - 1 \in Int /\ num_priors_ \in Int /\ 0 \in Int /\ 1 \in Int
    BY DetectionAssumption
  <2>2. IsFiniteSet(Labels)
    BY <2>1, FS_Interval DEF Labels
  <2>3. IsFiniteSet(Priors)
    BY <2>1, FS_Interval DEF Priors
  <2> QED
    BY <2>2, <2>3, FS_Product
<1>7. IsFiniteSet(KeptPairs(i)) /\ Cardinality(KeptPairs(i)) \in Nat
  BY <1>4, <1>6, FS_Subset, FS_CardinalityType
<1> QED
  BY <1>2, <1>4, <1>5, <1>7

(* When all threads have joined, an image has the pairs that are wanted,   *)
(* each of them once.                                                      *)
LEMMA AllThreadsDone ==
  ASSUME DetectionInv, execute = "nms", \A c \in Labels : worker[c] = "done"
  PROVE  /\ KeptPairs(n) = WantedPairs(n)
         /\ \A c \in Labels : \A j, k \in 1..detections[n][c] :
              indices[n][c][j] = indices[n][c][k] => j = k
<1>1. DetectionTypes /\ KeptGreedily
  BY DEF DetectionInv
<1>2. batch \in Batches /\ n \in Imgs
  BY <1>1 DEF DetectionTypes
<1>3. \A c \in Labels : KeptOfClass(c)
  BY <1>1, GreedilyByClass
<1>4. KeptPairs(n) = WantedPairs(n)
  BY <1>3 DEF KeptPairs, WantedPairs, KeptOfClass
<1>5. ASSUME NEW c \in Labels, NEW j \in 1..detections[n][c], NEW k \in 1..detections[n][c],
             indices[n][c][j] = indices[n][c][k]
      PROVE  j = k
  <2> DEFINE p == indices[n][c][j]
  <2>1. detections[n][c] \in Nat
    BY <1>1, <1>2 DEF DetectionTypes
  <2>2. p \in Found(n, c)
    <3>1. p \in ToSet(Kept(n, c))
      BY <1>1, <1>2, PairsKept
    <3>2. p \in Wanted(n, c)
      BY <1>3, <3>1 DEF KeptOfClass
    <3> QED
      BY <1>2, <3>2, CandidatesSorted
  <2>3. <<p, p>> \notin InOrder(n, c)
    BY <1>2, <2>2, CandidateOrder DEF StrictOrder
  <2>4. ~(j < k) /\ ~(k < j)
    BY <1>3, <1>5, <2>3 DEF KeptOfClass
  <2> QED
    BY <2>1, <2>4
<1> QED
  BY <1>4, <1>5

(* The best keep_top_k_ of them.                                           *)
LEMMA TopChosen ==
  ASSUME DetectionInv, KeepTopK, NEW i \in Imgs, i = n
  PROVE  /\ indices'[i] \in [Labels -> [Priors -> Priors]]
         /\ detections'[i] \in [Labels -> 0..num_priors_]
         /\ Chosen(i)'
<1>1. DetectionTypes
  BY DEF DetectionInv
<1>2. /\ execute = "nms" /\ \A c \in Labels : worker[c] = "done"
      /\ batch' = batch
      /\ Cardinality(KeptPairs(n)) > keep_top_k_ =>
           \E top \in TopOrders(KeptPairs(n), keep_top_k_) :
              /\ indices' = [indices EXCEPT ![n] =
                   [c \in Labels |-> Overwrite(@[c], OfLabel(top, c))]]
              /\ detections' = [detections EXCEPT ![n] =
                   [c \in Labels |-> Len(OfLabel(top, c))]]
      /\ ~(Cardinality(KeptPairs(n)) > keep_top_k_) => UNCHANGED <<indices, detections>>
  BY DEF KeepTopK
<1>3. /\ KeptPairs(i) = WantedPairs(i)
      /\ \A c \in Labels : \A j, k \in 1..detections[i][c] :
           indices[i][c][j] = indices[i][c][k] => j = k
  BY <1>2, AllThreadsDone
<1>4. /\ indices \in [Imgs -> [Labels -> [Priors -> Priors]]]
      /\ detections \in [Imgs -> [Labels -> 0..num_priors_]]
  BY <1>1 DEF DetectionTypes
<1>5. /\ KeptPairs(i) \in SUBSET (Labels \X Priors)
      /\ Cardinality(KeptPairs(i)) \in Nat
  BY <1>1, PairsKept
<1>6. keep_top_k_ \in Nat
  BY DetectionAssumption
<1>7. WantedPairs(i)' = WantedPairs(i) /\ \A d : Conf(i, d)' = Conf(i, d)
  BY <1>2, SameBatch
<1>8. CASE ~(Cardinality(KeptPairs(i)) > keep_top_k_)
  <2>1. indices' = indices /\ detections' = detections
    BY <1>2, <1>8
  <2>2. Chosen(i)
    BY <1>3, <1>5, <1>6, <1>8 DEF Chosen, Smaller
  <2>3. Chosen(i)'
    BY <1>2, <2>1, <2>2, SameImage
  <2> QED
    BY <1>4, <2>1, <2>3
<1>9. CASE Cardinality(KeptPairs(i)) > keep_top_k_
  <2> DEFINE S == KeptPairs(i)
  <2>1. PICK top \in TopOrders(S, keep_top_k_) :
           /\ indices' = [indices EXCEPT ![i] = [c \in Labels |-> Overwrite(@[c], OfLabel(top, c))]]
           /\ detections' = [detections EXCEPT ![i] = [c \in Labels |-> Len(OfLabel(top, c))]]
    BY <1>2, <1>9
  <2>2. /\ top \in [1..keep_top_k_ -> S]
        /\ \A j, k \in 1..keep_top_k_ : top[j] = top[k] => j = k
        /\ \A d \in S \ ToSet(top) : \A k \in 1..keep_top_k_ : Conf(i, top[k]) >= Conf(i, d)
    BY <2>1 DEF TopOrders, IsInjective
  <2> HIDE DEF S
  <2>3. top \in Seq(S) /\ Len(top) = keep_top_k_ /\ ToSet(top) = {top[k] : k \in 1..keep_top_k_}
    <3>1. top \in Seq(S) /\ Len(top) = keep_top_k_
      BY <1>6, <2>2, ListOf
    <3> QED
      BY <2>2, <3>1 DEF ToSet
  <2>4. top \in Seq(Labels \X Priors)
    <3>1. PICK A : A = Labels \X Priors
      OBVIOUS
    <3>2. \A k \in 1..keep_top_k_ : top[k] \in A
      BY <1>5, <2>2, <3>1 DEF S
    <3>3. top \in [1..keep_top_k_ -> A]
      BY <2>2, <3>2
    <3>4. top \in Seq(A)
      BY ONLY <1>6, <3>3, ListOf
    <3> QED
      BY <3>1, <3>4
  <2>5. ASSUME NEW c \in Labels
        PROVE  /\ OfLabel(top, c) \in Seq(Priors) /\ Len(OfLabel(top, c)) \in 0..num_priors_
               /\ \A j, k \in 1..Len(OfLabel(top, c)) :
                    OfLabel(top, c)[j] = OfLabel(top, c)[k] => j = k
               /\ ToSet(OfLabel(top, c)) = {p \in Priors : <<c, p>> \in ToSet(top)}
    BY <2>2, <2>3, <2>4, LabelsOfList
  <2>6. ASSUME NEW c \in Labels
        PROVE  /\ detections'[i][c] = Len(OfLabel(top, c))
               /\ indices'[i][c] \in [Priors -> Priors]
               /\ \A k \in 1..Len(OfLabel(top, c)) : indices'[i][c][k] = OfLabel(top, c)[k]
               /\ Kept(i, c)' = OfLabel(top, c)
    <3>1. /\ detections'[i][c] = Len(OfLabel(top, c))
          /\ indices'[i][c] = Overwrite(indices[i][c], OfLabel(top, c))
      BY <1>4, <2>1
    <3>2. indices[i][c] \in [Priors -> Priors] /\ Len(OfLabel(top, c)) <= num_priors_
      BY <1>4, <2>5, DetectionAssumption
    <3>3. /\ indices'[i][c] \in [Priors -> Priors]
          /\ \A k \in 1..Len(OfLabel(top, c)) : indices'[i][c][k] = OfLabel(top, c)[k]
          /\ SubSeq(indices'[i][c], 1, Len(OfLabel(top, c))) = OfLabel(top, c)
      <4>1. PICK t : t = OfLabel(top, c)
        OBVIOUS
      <4>2. PICK a : a = indices[i][c]
        OBVIOUS
      <4>3. t \in Seq(Priors) /\ a \in [Priors -> Priors] /\ Len(t) <= num_priors_
        BY <2>5, <3>2, <4>1, <4>2
      <4>4. /\ Overwrite(a, t) \in [Priors -> Priors]
            /\ \A k \in 1..Len(t) : Overwrite(a, t)[k] = t[k]
            /\ SubSeq(Overwrite(a, t), 1, Len(t)) = t
        BY ONLY <4>3, Overwritten
      <4> QED
        BY <3>1, <4>1, <4>2, <4>4
    <3> QED
      BY <3>1, <3>3 DEF Kept
  <2>7. KeptPairs(i)' = ToSet(top)
    <3>1. KeptPairs(i)' = UNION {{<<c, p>> : p \in ToSet(OfLabel(top, c))} : c \in Labels}
      BY <2>6 DEF KeptPairs
    <3>2. \A d \in ToSet(top) : d \in Labels \X Priors
      BY <2>3, <2>4, ElementOfSeq
    <3> QED
      BY <2>5, <3>1, <3>2
  <2>8. ToSet(top) \subseteq S
    BY <2>2, <2>3
  <2>9. Cardinality(ToSet(top)) = keep_top_k_
    BY <2>2, <2>3, DifferentElements
  <2>10. keep_top_k_ = Smaller(keep_top_k_, Cardinality(WantedPairs(i)))
    BY <1>3, <1>5, <1>6, <1>9 DEF Smaller
  <2>11. \A d \in ToSet(top), e \in S \ ToSet(top) : Conf(i, d) >= Conf(i, e)
    BY <2>2, <2>3
  <2>12. \A c \in Labels : \A j, k \in 1..detections'[i][c] :
           indices'[i][c][j] = indices'[i][c][k] => j = k
    BY <2>5, <2>6
  <2>13. Chosen(i)'
    BY <1>3, <1>7, <2>7, <2>8, <2>9, <2>10, <2>11, <2>12 DEF Chosen, S
  <2>14. indices'[i] \in [Labels -> [Priors -> Priors]]
    BY <1>4, <2>1, <2>6
  <2>15. detections'[i] \in [Labels -> 0..num_priors_]
    BY <1>4, <2>1, <2>5, <2>6
  <2> QED
    BY <2>13, <2>14, <2>15
<1> QED
  BY <1>8, <1>9

LEMMA KeepTopKInv ==
  ASSUME DetectionInv, KeepTopK PROVE DetectionInv'
<1>1. /\ DetectionTypes /\ ImagesToCome /\ ImagesChosen /\ RowsBeyond
  BY DEF DetectionInv
<1>2. /\ execute = "nms" /\ NextImage /\ UNCHANGED <<batch, buffer, dst, boxs>>
  BY DEF KeepTopK
<1>3. /\ n \in Imgs /\ batch \in Batches
      /\ indices \in [Imgs -> [Labels -> [Priors -> Priors]]]
      /\ detections \in [Imgs -> [Labels -> 0..num_priors_]]
      /\ worker \in [Labels -> {"collect", "suppress", "done"}]
  BY <1>1, <1>2 DEF DetectionTypes
<1>4. num_batch_ \in Nat /\ num_priors_ \in Nat /\ Imgs = 0..(num_batch_ - 1)
  BY DetectionAssumption DEF Imgs
<1>5. /\ indices'[n] \in [Labels -> [Priors -> Priors]]
      /\ detections'[n] \in [Labels -> 0..num_priors_]
  BY <1>3, TopChosen
<1>6. /\ DOMAIN indices' = Imgs /\ DOMAIN detections' = Imgs
      /\ indices' = [i \in Imgs |-> indices'[i]] /\ detections' = [i \in Imgs |-> detections'[i]]
      /\ \A i \in Imgs : i # n => indices'[i] = indices[i] /\ detections'[i] = detections[i]
  <2>1. CASE UNCHANGED <<indices, detections>>
    BY <1>3, <2>1
  <2>2. CASE \E top : /\ indices' = [indices EXCEPT ![n] =
                            [c \in Labels |-> Overwrite(@[c], OfLabel(top, c))]]
                      /\ detections' = [detections EXCEPT ![n] =
                            [c \in Labels |-> Len(OfLabel(top, c))]]
    BY <1>3, <2>2
  <2> QED
    BY <2>1, <2>2 DEF KeepTopK
<1>7. \A i \in Imgs : i = n \/ i < n \/ i > n
  BY <1>3, <1>4
<1>8. \/ /\ execute' = "nms" /\ n' = n + 1 /\ n' \in Imgs
         /\ worker' = [c \in Labels |-> IF c = Ignored THEN "done" ELSE "collect"]
      \/ /\ execute' = "write" /\ n' = n /\ worker' = worker /\ n + 1 >= num_batch_
  BY <1>2, <1>3, <1>4 DEF NextImage
<1>9. DetectionTypes'
  <2>1. /\ indices' \in [Imgs -> [Labels -> [Priors -> Priors]]]
        /\ detections' \in [Imgs -> [Labels -> 0..num_priors_]]
    BY <1>3, <1>5, <1>6
  <2>2. worker' \in [Labels -> {"collect", "suppress", "done"}] /\ n' \in Imgs
        /\ execute' \in {"nms", "write"}
    BY <1>3, <1>8
  <2> QED
    BY <1>1, <1>2, <1>3, <2>1, <2>2 DEF DetectionTypes
<1>10. SliceHeld'
  BY <1>8 DEF SliceHeld
<1>11. ImagesToCome'
  <2> SUFFICES ASSUME execute' = "nms", NEW i \in Imgs, NEW c \in Labels, i > n'
               PROVE  detections'[i][c] = 0
    BY DEF ImagesToCome
  <2>1. i > n /\ i # n
    BY <1>3, <1>4, <1>8
  <2> QED
    BY <1>1, <1>2, <1>6, <2>1 DEF ImagesToCome
<1>12. KeptGreedily'
  <2> SUFFICES ASSUME execute' = "nms", NEW c \in Labels, worker'[c] = "done"
               PROVE  KeptOfClass(c)'
    BY DEF KeptGreedily, KeptOfClass
  <2>1. c = Ignored /\ n' = n + 1 /\ n' \in Imgs
    BY <1>8
  <2>2. n' > n /\ n' # n
    BY <1>3, <1>4, <2>1
  <2>3. detections'[n'][c] = 0 /\ indices'[n'][c] \in [Priors -> Priors]
    BY <1>1, <1>2, <1>3, <1>6, <2>1, <2>2 DEF ImagesToCome
  <2>4. Wanted(n, c)' = {}
    BY <2>1 DEF Wanted
  <2>5. ToSet(Kept(n, c)') = {}
    <3>1. 0 \in 0..num_priors_
      BY <1>4
    <3>2. ToSet(SubSeq(indices'[n'][c], 1, 0)) = {indices'[n'][c][k] : k \in 1..0}
      BY <2>3, <3>1, FirstCells
    <3> QED
      BY <2>3, <3>2 DEF Kept
  <2> QED
    BY <2>3, <2>4, <2>5 DEF KeptOfClass
<1>13. ImagesChosen'
  <2> SUFFICES ASSUME NEW i \in Imgs, execute' = "nms" => i < n' PROVE Chosen(i)'
    BY <1>8 DEF ImagesChosen
  <2>1. i = n \/ i < n
    BY <1>3, <1>4, <1>8
  <2>2. CASE i = n
    BY <2>2, TopChosen
  <2>3. CASE i < n
    <3>1. i # n
      BY <1>3, <1>4, <2>3
    <3>2. Chosen(i)
      BY <1>1, <1>2, <2>3 DEF ImagesChosen
    <3> QED
      BY <1>2, <1>6, <3>1, <3>2, SameImage
  <2> QED
    BY <2>1, <2>2, <2>3
<1>14. RowsBeyond'
  BY <1>1, <1>2 DEF RowsBeyond
<1>15. RowsOfBatch' /\ BestReported'
  BY <1>8 DEF RowsOfBatch, BestReported
<1> QED
  BY <1>9, <1>10, <1>11, <1>12, <1>13, <1>14, <1>15 DEF DetectionInv

(* A set that is small enough can be numbered.                             *)
LEMMA Numbered ==
  ASSUME NEW S, IsFiniteSet(S), NEW N \in Nat, Cardinality(S) <= N
  PROVE  \E g \in [S -> 1..N] : \A x, y \in S : g[x] = g[y] => x = y
<1>1. Cardinality(S) \in Nat /\ ExistsBijection(1..Cardinality(S), S)
  BY FS_CardinalityType
<1>2. ExistsBijection(S, 1..Cardinality(S))
  BY <1>1, Fun_ExistsBijSymmetric
<1>3. PICK g : g \in Bijection(S, 1..Cardinality(S))
  BY <1>2 DEF ExistsBijection
<1>4. g \in [S -> 1..Cardinality(S)] /\ \A x, y \in S : g[x] = g[y] => x = y
  BY <1>3 DEF Bijection, Injection, IsInjective
<1>5. g \in [S -> 1..N]
  BY <1>1, <1>4
<1> QED
  BY <1>4, <1>5

(* The rows of a batch whose images are through.                           *)
RowsFit ==
  /\ Cardinality(KeptPlaces) \in Nat
  /\ Cardinality(KeptPlaces) <= num_batch_ * keep_top_k_
  /\ LET R == Ranked(KeptPlaces, Earlier) IN
       /\ R \in [1..Cardinality(KeptPlaces) -> KeptPlaces]
       /\ \A q \in KeptPlaces : \E k \in 1..Cardinality(KeptPlaces) : R[k] = q
       /\ \A j, k \in 1..Cardinality(KeptPlaces) : R[j] = R[k] => j = k
       /\ \A j, k \in 1..Cardinality(KeptPlaces) : j < k => R[j][1] <= R[k][1]
  /\ \A q \in KeptPlaces :
       /\ q[1] \in Imgs /\ q[2] \in Labels /\ q[3] \in 1..detections[q[1]][q[2]]
       /\ Row(q) \in RowType /\ (LastRow(Row(q)) <=> Row(q).confidence = 0)

LEMMA AllRowsFit ==
  ASSUME DetectionTypes, execute \in {"write", "read"}, \A i \in Imgs : Chosen(i)
  PROVE  RowsFit
<1> DEFINE K == KeptPlaces
<1>1. /\ batch \in Batches
      /\ indices \in [Imgs -> [Labels -> [Priors -> Priors]]]
      /\ detections \in [Imgs -> [Labels -> 0..num_priors_]]
  BY DEF DetectionTypes
<1>2. num_batch_ \in Nat /\ num_priors_ \in Nat /\ keep_top_k_ \in Nat /\ num_classes_ \in Nat
  BY DetectionAssumption
<1>3. ASSUME NEW q \in K
      PROVE  /\ q = <<q[1], q[2], q[3]>>
             /\ q[1] \in Imgs /\ q[2] \in Labels /\ q[3] \in 1..detections[q[1]][q[2]]
  <2>1. q \in Imgs \X Labels \X Priors /\ q[3] <= detections[q[1]][q[2]]
    BY DEF KeptPlaces
  <2>2. q = <<q[1], q[2], q[3]>> /\ q[1] \in Imgs /\ q[2] \in Labels /\ q[3] \in Priors
    BY <2>1
  <2>3. q[3] \in 1..detections[q[1]][q[2]]
    BY <1>1, <1>2, <2>1, <2>2 DEF Priors
  <2> QED
    BY <2>2, <2>3
<1> DEFINE Pair(q) == <<q[2], indices[q[1]][q[2]][q[3]]>>
<1>4. \A q \in K : Pair(q) \in KeptPairs(q[1])
  BY <1>3, PairsKept
<1>5. \A q, r \in K : q[1] = r[1] /\ Pair(q) = Pair(r) => q = r
  <2> SUFFICES ASSUME NEW q \in K, NEW r \in K, q[1] = r[1], Pair(q) = Pair(r) PROVE q = r
    OBVIOUS
  <2>1. q[2] = r[2] /\ indices[q[1]][q[2]][q[3]] = indices[q[1]][q[2]][r[3]]
    OBVIOUS
  <2>2. q[3] = r[3]
    BY <1>3, <2>1 DEF Chosen
  <2> QED
    BY <1>3, <2>1, <2>2
<1>6. \A i \in Imgs : IsFiniteSet(KeptPairs(i)) /\ Cardinality(KeptPairs(i)) <= keep_top_k_
  <2> SUFFICES ASSUME NEW i \in Imgs
               PROVE  IsFiniteSet(KeptPairs(i)) /\ Cardinality(KeptPairs(i)) <= keep_top_k_
    OBVIOUS
  <2>1. /\ IsFiniteSet(KeptPairs(i)) /\ Cardinality(KeptPairs(i)) \in Nat
        /\ Cardinality(KeptPairs(i)) = Smaller(keep_top_k_, Cardinality(WantedPairs(i)))
    BY PairsKept DEF Chosen
  <2> QED
    BY <1>2, <2>1 DEF Smaller
<1> DEFINE Num(i) == CHOOSE g \in [KeptPairs(i) -> 1..keep_top_k_] :
                       \A x, y \in KeptPairs(i) : g[x] = g[y] => x = y
<1>7. ASSUME NEW i \in Imgs
      PROVE  /\ Num(i) \in [KeptPairs(i) -> 1..keep_top_k_]
             /\ \A x, y \in KeptPairs(i) : Num(i)[x] = Num(i)[y] => x = y
  <2>1. \E g \in [KeptPairs(i) -> 1..keep_top_k_] :
          \A x, y \in KeptPairs(i) : g[x] = g[y] => x = y
    BY <1>2, <1>6, Numbered
  <2> QED
    BY <2>1
<1> DEFINE f == [q \in K |-> <<q[1], Num(q[1])[Pair(q)]>>]
<1> HIDE DEF Num, Pair, K
<1>8. f \in Injection(K, Imgs \X (1..keep_top_k_))
  <2>1. \A q \in K : <<q[1], Num(q[1])[Pair(q)]>> \in Imgs \X (1..keep_top_k_)
    BY <1>3, <1>4, <1>7
  <2>2. f \in [K -> Imgs \X (1..keep_top_k_)]
    BY <2>1
  <2>3. ASSUME NEW q \in K, NEW r \in K, f[q] = f[r] PROVE q = r
    <3>1. q[1] = r[1] /\ Num(q[1])[Pair(q)] = Num(q[1])[Pair(r)]
      BY <2>3
    <3>2. Pair(q) = Pair(r)
      BY <1>3, <1>4, <1>7, <3>1
    <3> QED
      BY <1>5, <3>1, <3>2
  <2> HIDE DEF f
  <2> QED
    BY <2>2, <2>3 DEF Injection, IsInjective
<1>9. /\ IsFiniteSet(Imgs \X (1..keep_top_k_))
      /\ Cardinality(Imgs \X (1..keep_top_k_)) = num_batch_ * keep_top_k_
  <2>1. \A k \in Nat : IsFiniteSet(1..k) /\ Cardinality(1..k) = k
    BY FS_Interval
  <2>2. IsFiniteSet(Imgs) /\ Cardinality(Imgs) = num_batch_
    <3>1. num_batch_ - 1 \in Int /\ 0 \in Int /\ num_batch_ > 0
      BY DetectionAssumption
    <3>2. /\ IsFiniteSet(0..(num_batch_ - 1))
          /\ Cardinality(0..(num_batch_ - 1))
               = IF 0 > num_batch_ - 1 THEN 0 ELSE num_batch_ - 1 - 0 + 1
      BY <3>1, FS_Interval
    <3> QED
      BY <1>2, <3>1, <3>2 DEF Imgs
  <2>3. IsFiniteSet(1..keep_top_k_) /\ Cardinality(1..keep_top_k_) = keep_top_k_
    BY <1>2, <2>1
  <2> QED
    BY <2>2, <2>3, FS_Product
<1>10. IsFiniteSet(K) /\ Cardinality(K) \in Nat /\ Cardinality(K) <= num_batch_ * keep_top_k_
  <2>1. IsFiniteSet(K) /\ Cardinality(K) <= Cardinality(Imgs \X (1..keep_top_k_))
    <3> HIDE DEF f
    <3> QED
      BY <1>8, <1>9, FS_Injection
  <2> QED
    BY <1>9, <2>1, FS_CardinalityType
<1>11. StrictOrder(K, Earlier)
  <2>1. \A q \in K : q[1] \in Int /\ q[2] \in Int /\ q[3] \in Int
    BY <1>1, <1>2, <1>3 DEF Imgs, Labels
  <2>2. \A q, r \in K : <<q, r>> \in Earlier <=>
          \/ q[1] < r[1]
          \/ q[1] = r[1] /\ q[2] < r[2]
          \/ q[1] = r[1] /\ q[2] = r[2] /\ q[3] < r[3]
    BY DEF Earlier, K
  <2>3. \A q, r \in K : q[1] = r[1] /\ q[2] = r[2] /\ q[3] = r[3] => q = r
    BY <1>3
  <2> QED
    BY <2>1, <2>2, <2>3 DEF StrictOrder
<1>12. LET R == Ranked(K, Earlier) IN
         /\ R \in [1..Cardinality(K) -> K]
         /\ \A q \in K : \E k \in 1..Cardinality(K) : R[k] = q
         /\ \A j, k \in 1..Cardinality(K) : R[j] = R[k] => j = k
         /\ \A j, k \in 1..Cardinality(K) : j < k => <<R[j], R[k]>> \in Earlier
  BY <1>10, <1>11, RankedList
<1>b. \A q, r \in K : <<q, r>> \in Earlier => q[1] <= r[1]
  <2>1. \A q \in K : q[1] \in Int
    BY <1>2, <1>3 DEF Imgs
  <2> QED
    BY <2>1 DEF Earlier
<1>c. LET R == Ranked(K, Earlier) IN
        \A j, k \in 1..Cardinality(K) : j < k => R[j][1] <= R[k][1]
  BY <1>12, <1>b
<1>13. ASSUME NEW q \in K
       PROVE  Row(q) \in RowType /\ (LastRow(Row(q)) <=> Row(q).confidence = 0)
  <2> DEFINE i == q[1]
             c == q[2]
             p == indices[i][c][q[3]]
  <2>1. i \in Imgs /\ c \in Labels /\ <<c, p>> \in KeptPairs(i)
    BY <1>3, <1>4 DEF Pair
  <2>2. p \in Wanted(i, c)
    <3>1. <<c, p>> \in WantedPairs(i)
      BY <2>1 DEF Chosen
    <3> HIDE DEF p, c
    <3> QED
      BY <3>1 DEF WantedPairs
  <2>3. p \in Found(i, c)
    BY <1>1, <2>1, <2>2, CandidatesSorted
  <2>4. p \in Priors /\ batch.conf[i][c][p] \in Int
    BY <1>1, <2>1, <2>3, CandidateOrder
  <2>5. Row(q) = [imgid |-> i, classid |-> c, confidence |-> batch.conf[i][c][p], box |-> p]
    BY DEF Row, Conf
  <2>6. i \in Int /\ 0 <= i /\ i < num_batch_ /\ p \in 0..num_priors_
    <3> HIDE DEF i, c, p
    <3>1. i \in Int /\ 0 <= i /\ i < num_batch_
      BY <1>2, <2>1 DEF Imgs
    <3>2. p \in 0..num_priors_
      BY <1>2, <2>4 DEF Priors
    <3> QED
      BY <3>1, <3>2
  <2> HIDE DEF i, c, p
  <2> QED
    BY <1>2, <2>1, <2>4, <2>5, <2>6 DEF RowType, LastRow
<1> QED
  BY <1>3, <1>10, <1>12, <1>13, <1>c DEF RowsFit, K

LEMMA WriteRowsInv ==
  ASSUME DetectionInv, WriteRows PROVE DetectionInv'
<1> DEFINE M == Cardinality(KeptPlaces)
           R == Ranked(KeptPlaces, Earlier)
           room == num_batch_ * keep_top_k_
<1>1. DetectionTypes /\ ImagesChosen /\ RowsBeyond
  BY DEF DetectionInv
<1>2. /\ execute = "write" /\ execute' = "read"
      /\ UNCHANGED <<batch, n, worker, buffer, indices, detections, boxs>>
  BY DEF WriteRows
<1>3. \A i \in Imgs : Chosen(i)
  BY <1>1, <1>2 DEF ImagesChosen
<1>4. RowsFit
  BY <1>1, <1>2, <1>3, AllRowsFit
<1>5. /\ M \in Nat /\ M <= room /\ R \in [1..M -> KeptPlaces]
      /\ \A q \in KeptPlaces : Row(q) \in RowType
  BY <1>4 DEF RowsFit
<1>6. room \in Nat /\ room <= maxProposalCount /\ maxProposalCount \in Nat
  BY DetectionAssumption
<1>7. Len(Written) = M /\ \A k \in 1..M : Written[k] = Row(R[k]) /\ Row(R[k]) \in RowType
  <2> DEFINE r(k) == Row(R[k])
  <2>1. Written = [k \in 1..M |-> r(k)]
    BY DEF Written
  <2>2. \A k \in 1..M : r(k) \in RowType
    BY <1>5
  <2> HIDE DEF r, M
  <2>3. Written \in [1..M -> RowType]
    BY <2>1, <2>2
  <2>4. M \in Nat
    BY <1>5
  <2>5. Len(Written) = M
    BY <2>3, <2>4, ListOf
  <2> QED
    BY <2>1, <2>2, <2>5 DEF r
<1>8. dst' = [k \in Rows |->
                CASE k <= M -> Written[k]
                  [] k = M + 1 /\ k <= room -> Marker
                  [] k > M + 1 /\ k <= room -> Zero
                  [] OTHER -> dst[k]]
  BY <1>7 DEF WriteRows
<1> HIDE DEF M, R, room
<1>9. Rows = 1..maxProposalCount
  BY DEF Rows
<1>10. ASSUME NEW k \in Rows
       PROVE  /\ k <= M => dst'[k] = Row(R[k]) /\ k \in 1..M
              /\ k = M + 1 /\ k <= room => dst'[k] = Marker
              /\ k > M + 1 /\ k <= room => dst'[k] = Zero
              /\ k > room => dst'[k] = dst[k]
  BY <1>5, <1>6, <1>7, <1>8, <1>9
<1>11. Zero \in RowType /\ Marker \in RowType /\ LastRow(Zero) /\ LastRow(Marker)
  <2>1. 0 \in Labels /\ 0 \in 0..num_priors_
    BY DetectionAssumption DEF Labels
  <2> QED
    BY <2>1 DEF Zero, Marker, RowType, LastRow
<1>12. DetectionTypes'
  <2>1. dst \in [Rows -> RowType]
    BY <1>1 DEF DetectionTypes
  <2>2. ASSUME NEW k \in Rows PROVE dst'[k] \in RowType
    <3>1. k \in Int
      BY <1>9
    <3>2. k <= M \/ (k = M + 1 /\ k <= room) \/ (k > M + 1 /\ k <= room) \/ k > room
      BY <1>5, <1>6, <3>1
    <3> QED
      BY <1>7, <1>10, <1>11, <2>1, <3>2
  <2>3. dst' \in [Rows -> RowType]
    BY <1>8, <2>2
  <2> QED
    BY <1>1, <1>2, <2>3 DEF DetectionTypes
<1>13. RowsBeyond'
  BY <1>1, <1>10 DEF RowsBeyond, room
<1>14. ImagesChosen'
  BY <1>2, <1>3, SameImage DEF ImagesChosen
<1>15. RowsOfBatch'
  <2>1. KeptPlaces' = KeptPlaces
    BY <1>2 DEF KeptPlaces
  <2>2. Earlier' = Earlier
    BY <2>1 DEF Earlier
  <2>3. M' = M /\ R' = R
    BY <2>1, <2>2 DEF M, R
  <2>4. \A q : Row(q)' = Row(q)
    BY <1>2 DEF Row, Conf
  <2>5. ASSUME NEW k \in Rows, k = M + 1 PROVE LastRow(dst'[k])
    <3>1. CASE k <= room
      BY <1>10, <1>11, <2>5, <3>1
    <3>2. CASE ~(k <= room)
      <4>1. k > room
        BY <1>6, <1>9, <3>2
      <4>2. dst'[k] = Zero
        BY <1>1, <1>10, <4>1 DEF RowsBeyond, room
      <4> QED
        BY <1>11, <4>2
    <3> QED
      BY <3>1, <3>2
  <2>6. \A k \in Rows : /\ k <= M => dst'[k] = Row(R[k])'
                        /\ k = M + 1 => LastRow(dst'[k])
    BY <1>10, <2>3, <2>4, <2>5
  <2>7. \A k \in Rows : /\ k <= M => dst'[k] = Row(R[k])'
                        /\ k = M + 1 => LastRow(dst[k])'
    BY <2>6 DEF LastRow
  <2> QED
    BY <2>1, <2>2, <2>7 DEF RowsOfBatch, M, R
<1>16. SliceHeld' /\ ImagesToCome' /\ KeptGreedily' /\ BestReported'
  BY <1>2 DEF SliceHeld, ImagesToCome, KeptGreedily, BestReported
<1> QED
  BY <1>12, <1>13, <1>14, <1>15, <1>16 DEF DetectionInv

(* What the caller gets of image i.                                        *)
Reported(i) ==
  /\ Given(i) \subseteq WantedPairs(i)
  /\ \A d \in Given(i) : Conf(i, d) # 0
  /\ Cardinality(Given(i)) = Len(boxs[i])
  /\ Len(boxs[i]) <= keep_top_k_
  /\ confidence_threshold_ >= 0 \/ ~Cut(i) =>
       /\ Len(boxs[i]) = Smaller(keep_top_k_, Cardinality(WantedPairs(i)))
       /\ \A d \in Given(i), e \in WantedPairs(i) \ Given(i) : Conf(i, d) >= Conf(i, e)

(* With a threshold of 0 or more nothing of confidence 0 is kept.          *)
LEMMA NothingCut ==
  ASSUME batch \in Batches, NEW i \in Imgs, confidence_threshold_ >= 0
  PROVE  ~Cut(i)
<1> SUFFICES ASSUME NEW j \in 0..i, NEW d \in WantedPairs(j), Conf(j, d) = 0 PROVE FALSE
  BY DEF Cut
<1>1. j \in Imgs
  BY DetectionAssumption DEF Imgs
<1>2. PICK c \in Labels : \E p \in Wanted(j, c) : d = <<c, p>>
  BY DEF WantedPairs
<1>3. PICK p \in Wanted(j, c) : d = <<c, p>>
  BY <1>2
<1>4. p \in Found(j, c)
  BY <1>1, CandidatesSorted
<1>5. Conf(j, d) \in Int /\ Conf(j, d) > confidence_threshold_
  BY <1>1, <1>3, <1>4, CandidateOrder DEF Conf
<1> QED
  BY <1>5, DetectionAssumption

LEMMA ReadRowsInv ==
  ASSUME DetectionInv, ReadRows PROVE DetectionInv'
<1> DEFINE M == Cardinality(KeptPlaces)
           R == Ranked(KeptPlaces, Earlier)
           Pair(q) == <<q[2], indices[q[1]][q[2]][q[3]]>>
           P == Proposals
           places(i) == {k \in 1..P : dst[k].imgid = i}
<1>1. DetectionTypes /\ ImagesChosen /\ RowsBeyond /\ RowsOfBatch
  BY DEF DetectionInv
<1>2. /\ execute = "read" /\ execute' = "done"
      /\ boxs' = [i \in 0..num_batch_ |-> Pick(dst, {k \in 1..Proposals : dst[k].imgid = i})]
      /\ UNCHANGED <<batch, n, worker, buffer, indices, detections, dst>>
  BY DEF ReadRows
<1>3. \A i \in Imgs : Chosen(i)
  BY <1>1, <1>2 DEF ImagesChosen
<1>4. RowsFit
  BY <1>1, <1>2, <1>3, AllRowsFit
<1>5. /\ M \in Nat /\ M <= num_batch_ * keep_top_k_ /\ R \in [1..M -> KeptPlaces]
      /\ \A q \in KeptPlaces : \E k \in 1..M : R[k] = q
      /\ \A j, k \in 1..M : R[j] = R[k] => j = k
      /\ \A j, k \in 1..M : j < k => R[j][1] <= R[k][1]
      /\ \A q \in KeptPlaces :
           /\ q[1] \in Imgs /\ q[2] \in Labels /\ q[3] \in 1..detections[q[1]][q[2]]
           /\ Row(q) \in RowType /\ (LastRow(Row(q)) <=> Row(q).confidence = 0)
  BY <1>4 DEF RowsFit
<1>6. M <= maxProposalCount /\ maxProposalCount \in Nat /\ num_batch_ \in Nat /\ num_priors_ \in Nat
  <2>1. num_batch_ * keep_top_k_ <= maxProposalCount /\ num_batch_ * keep_top_k_ \in Nat
        /\ maxProposalCount \in Nat /\ num_batch_ \in Nat /\ num_priors_ \in Nat
    BY DetectionAssumption
  <2>2. PICK room : room = num_batch_ * keep_top_k_
    OBVIOUS
  <2> QED
    BY <1>5, <2>1, <2>2
<1>7. \A k \in Rows : /\ k <= M => dst[k] = Row(R[k])
                      /\ k = M + 1 => LastRow(dst[k])
  BY <1>1, <1>2 DEF RowsOfBatch
<1> HIDE DEF M, R
<1>8. 1..M \subseteq Rows /\ \A k \in 1..M : dst[k] = Row(R[k]) /\ R[k] \in KeptPlaces
  BY <1>5, <1>6, <1>7 DEF Rows
<1>a. \A q : Row(q).imgid = q[1] /\ Row(q).classid = q[2] /\ Row(q).box = Pair(q)[2]
  BY DEF Row
<1>9. /\ P \in 0..M
      /\ \A k \in 1..P : ~LastRow(dst[k])
      /\ P < M => P + 1 \in 1..M /\ LastRow(dst[P + 1])
  <2> DEFINE stops == {k \in Rows : LastRow(dst[k])}
  <2>1. stops \in SUBSET Nat
    BY <1>6 DEF Rows
  <2>2. CASE stops = {}
    <3>1. M + 1 \notin Rows
      BY <1>7, <2>2
    <3>2. M = maxProposalCount /\ P = maxProposalCount
      BY <1>5, <1>6, <2>2, <3>1 DEF Rows, Proposals
    <3>3. \A k \in 1..P : ~LastRow(dst[k])
      BY <2>2, <3>2 DEF Rows
    <3> HIDE DEF P
    <3> QED
      BY <1>5, <3>2, <3>3
  <2>3. CASE stops # {}
    <3> DEFINE stop == Min(stops)
    <3> HIDE DEF stops
    <3>1. stop \in stops /\ \A y \in stops : stop <= y
      BY <2>1, <2>3, SmallestOne
    <3>2. P = stop - 1
      BY <2>3 DEF Proposals, stops
    <3> HIDE DEF stop, P
    <3>3. stop \in 1..maxProposalCount /\ LastRow(dst[stop])
      BY <3>1 DEF stops, Rows
    <3>4. M + 1 \in Rows => stop <= M + 1
      BY <1>7, <3>1 DEF stops
    <3>5. stop <= M + 1
      BY <1>5, <1>6, <3>3, <3>4 DEF Rows
    <3>6. ASSUME NEW k \in 1..P PROVE ~LastRow(dst[k])
      <4>1. k \in Rows /\ k < stop
        BY <1>6, <3>2, <3>3 DEF Rows
      <4> QED
        BY <1>6, <3>1, <3>3, <4>1 DEF stops, Rows
    <3>7. P + 1 = stop
      BY <3>2, <3>3
    <3> QED
      BY <1>5, <3>2, <3>3, <3>5, <3>6, <3>7
  <2> QED
    BY <2>2, <2>3
<1> HIDE DEF P
<1>10. dst \in Seq(RowType) /\ Len(dst) = maxProposalCount
  <2>1. dst \in [1..maxProposalCount -> RowType]
    BY <1>1 DEF DetectionTypes, Rows
  <2> QED
    BY <1>6, <2>1, ListOf
<1>11. ASSUME NEW i \in 0..num_batch_
       PROVE  /\ places(i) \in SUBSET (1..Len(dst))
              /\ places(i) = {k \in 1..P : R[k][1] = i}
              /\ boxs'[i] = Pick(dst, places(i))
  <2>1. places(i) \in SUBSET (1..Len(dst))
    BY <1>5, <1>6, <1>9, <1>10
  <2>2. \A k \in 1..P : k \in 1..M
    BY <1>5, <1>9
  <2>3. places(i) = {k \in 1..P : R[k][1] = i}
    BY <1>8, <1>a, <2>2
  <2> QED
    BY <1>2, <2>1, <2>3 DEF P
<1> HIDE DEF places
<1>12. ASSUME NEW i \in 0..num_batch_
       PROVE  /\ IsFiniteSet(places(i)) /\ boxs'[i] \in Seq(RowType)
              /\ Len(boxs'[i]) = Cardinality(places(i)) /\ Cardinality(places(i)) \in Nat
              /\ \A x : x \in ToSet(boxs'[i]) <=> \E k \in places(i) : x = dst[k]
  <2> DEFINE s == places(i)
             t == Pick(dst, s)
             order == Ranked(s, Ascending)
  <2>1. /\ IsFiniteSet(s) /\ Cardinality(s) \in Nat
        /\ t \in Seq(RowType) /\ Len(t) = Cardinality(s)
        /\ order \in [1..Cardinality(s) -> s]
        /\ \A k \in 1..Cardinality(s) : t[k] = dst[order[k]]
        /\ \A p \in s : \E k \in 1..Cardinality(s) : order[k] = p
    <3> HIDE DEF s
    <3>1. s \in SUBSET (1..Len(dst))
      BY <1>11 DEF s
    <3> QED
      BY <1>10, <3>1, PickedList
  <2>2. boxs'[i] = t
    BY <1>11
  <2> HIDE DEF t, order, s
  <2>3. ToSet(t) = {t[k] : k \in 1..Cardinality(s)}
    <3>1. DOMAIN t = 1..Cardinality(s)
      BY <2>1, LenProperties
    <3> QED
      BY <3>1 DEF ToSet
  <2>4. ASSUME NEW x, x \in ToSet(t) PROVE \E k \in s : x = dst[k]
    BY <2>1, <2>3, <2>4
  <2>5. ASSUME NEW k \in s PROVE dst[k] \in ToSet(t)
    BY <2>1, <2>3
  <2> QED
    BY <2>1, <2>2, <2>4, <2>5 DEF s
<1>13. boxs'[num_batch_] = <<>>
  <2>1. num_batch_ \in 0..num_batch_ /\ num_batch_ \notin Imgs
    BY <1>6 DEF Imgs
  <2>2. places(num_batch_) = {}
    <3>1. \A k \in 1..P : k \in 1..M
      BY <1>5, <1>9
    <3> QED
      BY <1>5, <1>8, <1>11, <2>1, <3>1
  <2>3. Len(boxs'[num_batch_]) = 0 /\ boxs'[num_batch_] \in Seq(RowType)
    BY <1>12, <2>1, <2>2, FS_EmptySet
  <2> QED
    BY <2>3, EmptySeq
<1>14. ASSUME NEW i \in Imgs
       PROVE  LET given == {<<row.classid, row.box>> : row \in ToSet(boxs'[i])} IN
              /\ given \in SUBSET KeptPairs(i)
              /\ \A d \in given : Conf(i, d) # 0
              /\ Cardinality(given) = Len(boxs'[i])
              /\ ~Cut(i) => given = KeptPairs(i)
  <2>1. i \in 0..num_batch_ /\ i \in Nat
    BY <1>6 DEF Imgs
  <2> DEFINE D == places(i)
             given == {<<row.classid, row.box>> : row \in ToSet(boxs'[i])}
  <2>2. /\ D = {k \in 1..P : R[k][1] = i} /\ IsFiniteSet(D)
        /\ Len(boxs'[i]) = Cardinality(D)
        /\ \A x : x \in ToSet(boxs'[i]) <=> \E k \in D : x = dst[k]
    BY <1>11, <1>12, <2>1
  <2> HIDE DEF D
  <2>3. \A q \in KeptPlaces : q = <<q[1], q[2], q[3]>>
    BY DEF KeptPlaces
  <2>4. \A k \in D : /\ k \in 1..M /\ R[k] \in KeptPlaces /\ R[k][1] = i
                     /\ dst[k].classid = Pair(R[k])[1] /\ dst[k].box = Pair(R[k])[2]
    <3>1. \A k \in 1..P : k \in 1..M
      BY <1>5, <1>9
    <3> QED
      BY <1>8, <1>a, <2>2, <3>1
  <2>5. \A c, p : <<c, p>> \in KeptPairs(i) <=>
          c \in Labels /\ \E k \in 1..detections[i][c] : p = indices[i][c][k]
    BY <1>1, PairsKept
  <2>6. \A k \in D : Pair(R[k]) \in KeptPairs(i)
    BY <1>5, <2>4, <2>5
  <2>7. ASSUME NEW j \in D, NEW k \in D, Pair(R[j]) = Pair(R[k]) PROVE j = k
    <3> DEFINE q == R[j]
               r == R[k]
    <3>1. q \in KeptPlaces /\ r \in KeptPlaces /\ q[1] = i /\ r[1] = i
      BY <2>4
    <3>2. q[2] = r[2] /\ indices[i][q[2]][q[3]] = indices[i][q[2]][r[3]]
      BY <2>7, <3>1
    <3>3. q[2] \in Labels /\ q[3] \in 1..detections[i][q[2]] /\ r[3] \in 1..detections[i][q[2]]
      BY <1>5, <3>1, <3>2
    <3> HIDE DEF q, r
    <3>4. q[3] = r[3]
      BY <1>3, <3>2, <3>3 DEF Chosen
    <3>5. q = r
      BY <2>3, <3>1, <3>2, <3>4
    <3> QED
      BY <1>5, <2>4, <3>5 DEF q, r
  <2>8. \A k \in D : <<dst[k].classid, dst[k].box>> = Pair(R[k])
    BY <2>4
  <2>9. \A k \in D : Conf(i, Pair(R[k])) # 0
    <3> SUFFICES ASSUME NEW k \in D PROVE Conf(i, Pair(R[k])) # 0
      OBVIOUS
    <3>1. k \in 1..M /\ k \in 1..P /\ R[k] \in KeptPlaces /\ R[k][1] = i
      BY <2>2, <2>4
    <3>2. ~LastRow(Row(R[k]))
      BY <1>8, <1>9, <3>1
    <3>3. Row(R[k]).confidence # 0
      BY <1>5, <3>1, <3>2
    <3>4. Row(R[k]).confidence = Conf(i, Pair(R[k]))
      BY <3>1 DEF Row
    <3> QED
      BY <3>3, <3>4
  <2> HIDE DEF Pair
  <2>10. /\ \A k \in D : Pair(R[k]) \in given
         /\ \A d \in given : \E k \in D : Pair(R[k]) = d
    BY <2>2, <2>8
  <2> HIDE DEF given
  <2>11. given \in SUBSET KeptPairs(i) /\ \A d \in given : Conf(i, d) # 0
    BY <2>6, <2>9, <2>10
  <2>12. Cardinality(given) = Len(boxs'[i])
    <3> DEFINE h == [k \in D |-> Pair(R[k])]
    <3>1. /\ h \in [D -> given]
          /\ \A j, k \in D : h[j] = h[k] => j = k
          /\ \A d \in given : \E k \in D : h[k] = d
      BY <2>7, <2>10
    <3> HIDE DEF h
    <3> QED
      BY <2>2, <3>1, OneToOne
  <2>13. ASSUME ~Cut(i), NEW d \in KeptPairs(i) PROVE d \in given
    <3>a. PICK c \in Labels : \E m \in 1..detections[i][c] : d = <<c, indices[i][c][m]>>
      <4>1. d \in Labels \X Priors
        BY <1>1, PairsKept
      <4>2. d = <<d[1], d[2]>>
        BY <4>1
      <4> QED
        BY <2>5, <4>2
    <3>1. PICK m \in 1..detections[i][c] : d = <<c, indices[i][c][m]>>
      BY <3>a
    <3>2. <<i, c, m>> \in KeptPlaces
      <4>1. detections[i][c] \in 0..num_priors_
        BY <1>1 DEF DetectionTypes
      <4>2. m \in Priors /\ m <= detections[i][c]
        BY <1>6, <4>1 DEF Priors
      <4> QED
        BY <4>2 DEF KeptPlaces
    <3>3. PICK k \in 1..M : R[k] = <<i, c, m>>
      BY <1>5, <3>2
    <3>4. k <= P
      <4> SUFFICES ASSUME ~(k <= P) PROVE FALSE
        OBVIOUS
      <4>1. P < M /\ P + 1 \in 1..M /\ LastRow(dst[P + 1]) /\ P + 1 <= k
        BY <1>5, <1>9
      <4> DEFINE q == R[P + 1]
                 j == q[1]
                 e == Pair(q)
      <4>2. q \in KeptPlaces /\ Row(q).confidence = 0 /\ j \in Imgs
        BY <1>5, <1>8, <4>1
      <4>3. j <= i
        <5>1. R[k][1] = i
          BY <3>3
        <5>2. CASE P + 1 = k
          BY <2>1, <5>1, <5>2
        <5>3. CASE P + 1 # k
          <6>1. P + 1 < k
            BY <1>5, <4>1, <5>3
          <6> QED
            BY <1>5, <4>1, <5>1, <6>1
        <5> QED
          BY <5>2, <5>3
      <4>4. j \in 0..i
        BY <1>6, <2>1, <4>2, <4>3 DEF Imgs
      <4>5. e = <<q[2], indices[j][q[2]][q[3]]>>
        BY DEF Pair
      <4>6. Conf(j, e) = 0
        BY <4>2, <4>5 DEF Row
      <4>7. e \in KeptPairs(j)
        <5>1. q[2] \in Labels /\ q[3] \in 1..detections[j][q[2]]
          BY <1>5, <4>2
        <5> HIDE DEF q, j, e
        <5>2. <<q[2], indices[j][q[2]][q[3]]>> \in KeptPairs(j)
          BY <1>1, <4>2, <5>1, PairsKept
        <5> QED
          BY <4>5, <5>2
      <4>8. e \in WantedPairs(j)
        BY <1>3, <4>2, <4>7 DEF Chosen
      <4> QED
        BY <2>13, <4>4, <4>6, <4>8 DEF Cut
    <3>5. k \in D
      BY <1>9, <2>2, <3>3, <3>4
    <3>6. Pair(R[k]) = d
      BY <3>1, <3>3 DEF Pair
    <3> QED
      BY <2>10, <3>5, <3>6
  <2> QED
    BY <2>11, <2>12, <2>13 DEF given
<1>15. BestReported'
  <2>1. ASSUME NEW i \in Imgs PROVE Reported(i)'
    <3>1. WantedPairs(i)' = WantedPairs(i) /\ \A d : Conf(i, d)' = Conf(i, d)
      BY <1>2, SameBatch
    <3>2. Cut(i)' <=> Cut(i)
      BY <1>2, SameBatch DEF Cut
    <3>3. /\ Given(i)' \in SUBSET KeptPairs(i)
          /\ \A d \in Given(i)' : Conf(i, d) # 0
          /\ Cardinality(Given(i)') = Len(boxs'[i])
          /\ ~Cut(i) => Given(i)' = KeptPairs(i)
      BY <1>14 DEF Given
    <3>4. confidence_threshold_ >= 0 => ~Cut(i)
      BY <1>1, <1>2, NothingCut DEF DetectionTypes
    <3>5. /\ IsFiniteSet(KeptPairs(i)) /\ Cardinality(KeptPairs(i)) \in Nat
          /\ Cardinality(KeptPairs(i)) <= keep_top_k_
      <4>1. IsFiniteSet(KeptPairs(i)) /\ Cardinality(KeptPairs(i)) \in Nat
        BY <1>1, PairsKept
      <4>2. Cardinality(KeptPairs(i)) = Smaller(keep_top_k_, Cardinality(WantedPairs(i)))
        BY <1>3 DEF Chosen
      <4>3. keep_top_k_ \in Nat
        BY DetectionAssumption
      <4> QED
        BY <4>1, <4>2, <4>3 DEF Smaller
    <3>6. Len(boxs'[i]) <= keep_top_k_
      <4>1. Cardinality(Given(i)') <= Cardinality(KeptPairs(i)) /\ Cardinality(Given(i)') \in Nat
        BY <3>3, <3>5, FS_Subset, FS_CardinalityType
      <4> QED
        BY <3>3, <3>5, <4>1, DetectionAssumption
    <3> QED
      BY <1>3, <3>1, <3>2, <3>3, <3>4, <3>6 DEF Chosen, Reported
  <2> QED
    BY <1>13, <2>1 DEF BestReported, Reported
<1>16. /\ DetectionTypes' /\ RowsBeyond'
  BY <1>1, <1>2 DEF DetectionTypes, RowsBeyond
<1>17. SliceHeld' /\ ImagesToCome' /\ KeptGreedily' /\ ImagesChosen' /\ RowsOfBatch'
  BY <1>2 DEF SliceHeld, ImagesToCome, KeptGreedily, ImagesChosen, RowsOfBatch
<1> QED
  BY <1>15, <1>16, <1>17 DEF DetectionInv

LEMMA DetectionSameInv ==
  ASSUME DetectionInv, UNCHANGED detectionVars PROVE DetectionInv'
<1>1. UNCHANGED <<execute, batch, n, worker, buffer, indices, detections, dst, boxs>>
  BY DEF detectionVars
<1>2. DetectionTypes' /\ ImagesToCome' /\ RowsBeyond'
  BY <1>1 DEF DetectionInv, DetectionTypes, ImagesToCome, RowsBeyond
<1>3. \A c : /\ BestFirst(c)' = BestFirst(c) /\ NumScores(c)' = NumScores(c)
             /\ Wanted(n, c)' = Wanted(n, c) /\ InOrder(n, c)' = InOrder(n, c)
  <2>1. \A c : BestFirst(c)' = BestFirst(c) /\ NumScores(c)' = NumScores(c)
    BY <1>1 DEF BestFirst, NumScores, Found, InOrder
  <2>2. \A c : Wanted(n, c)' = Wanted(n, c) /\ InOrder(n, c)' = InOrder(n, c)
    BY <1>1, SameBatch
  <2> QED
    BY <2>1, <2>2
<1>4. SliceHeld'
  BY <1>1, <1>3 DEF DetectionInv, SliceHeld
<1>5. KeptGreedily'
  <2>1. \A c : Kept(n, c)' = Kept(n, c)
    BY <1>1 DEF Kept
  <2> QED
    BY <1>1, <1>3, <2>1 DEF DetectionInv, KeptGreedily
<1>6. ImagesChosen'
  <2>1. \A i : Chosen(i)' <=> Chosen(i)
    BY <1>1, SameImage
  <2> QED
    BY <1>1, <2>1 DEF DetectionInv, ImagesChosen
<1>7. RowsOfBatch'
  <2>1. KeptPlaces' = KeptPlaces
    BY <1>1 DEF KeptPlaces
  <2>2. Earlier' = Earlier
    BY <2>1 DEF Earlier
  <2>3. \A q : Row(q)' = Row(q)
    BY <1>1 DEF Row, Conf
  <2>4. \A k : LastRow(dst[k])' <=> LastRow(dst[k])
    BY <1>1 DEF LastRow
  <2> QED
    BY <1>1, <2>1, <2>2, <2>3, <2>4 DEF DetectionInv, RowsOfBatch
<1>8. BestReported'
  <2>2. \A i : WantedPairs(i)' = WantedPairs(i) /\ \A d : Conf(i, d)' = Conf(i, d)
    BY <1>1, SameBatch
  <2>3. \A i : (Cut(i)' <=> Cut(i)) /\ Given(i)' = Given(i)
    BY <1>1, SameBatch DEF Cut, Given
  <2> QED
    BY <1>1, <2>2, <2>3 DEF DetectionInv, BestReported
<1> QED
  BY <1>2, <1>4, <1>5, <1>6, <1>7, <1>8 DEF DetectionInv

-----------------------------------------------------------------------------
(* The proposing and the pooling layer.                                    *)

(* In a sorted list every element stands behind those that come before it. *)
LEMMA PlaceIsRank ==
  ASSUME NEW A, NEW s, NEW better, Sorts(A, s, better), NEW k \in 1..Len(s)
  PROVE  Cardinality({y \in ToSet(s) : <<y, s[k]>> \in better}) = k - 1
<1> DEFINE T == {y \in ToSet(s) : <<y, s[k]>> \in better}
           D == 1..(k - 1)
<1>1. /\ s \in Seq(A) /\ Len(s) \in Nat /\ DOMAIN s = 1..Len(s)
      /\ \A i, j \in 1..Len(s) : <<s[i], s[j]>> \in better <=> i < j
      /\ \A i, j \in 1..Len(s) : s[i] = s[j] => i = j
  BY LenProperties DEF Sorts
<1>2. /\ \A j \in D : j \in 1..Len(s) /\ j < k
      /\ \A j \in 1..Len(s) : j < k => j \in D
  BY <1>1
<1>3. /\ \A j \in D : s[j] \in T
      /\ \A y \in T : \E j \in D : s[j] = y
  BY <1>1, <1>2 DEF ToSet
<1>4. IsFiniteSet(D) /\ Cardinality(D) = k - 1
  <2>1. k - 1 \in Nat
    BY <1>1
  <2>2. \A i \in Nat : IsFiniteSet(1..i) /\ Cardinality(1..i) = i
    BY FS_Interval
  <2> QED
    BY <2>1, <2>2
<1> HIDE DEF T, D
<1> DEFINE f == [j \in D |-> s[j]]
<1>5. f \in [D -> T] /\ (\A i, j \in D : f[i] = f[j] => i = j) /\ \A y \in T : \E j \in D : f[j] = y
  BY <1>1, <1>2, <1>3
<1> HIDE DEF f
<1>6. Cardinality(T) = Cardinality(D)
  BY <1>4, <1>5, OneToOne
<1> QED
  BY <1>4, <1>6 DEF T

(* A sorted list of the first elements of a sorted list is its beginning.  *)
LEMMA Beginning ==
  ASSUME NEW A, NEW t, NEW u, NEW better, Sorts(A, t, better), Sorts(A, u, better),
         ToSet(t) \subseteq ToSet(u),
         \A x \in ToSet(u) : \A k \in 1..Len(t) : <<x, t[k]>> \in better => x \in ToSet(t)
  PROVE  \A k \in 1..Len(t) : k \in 1..Len(u) /\ u[k] = t[k]
<1> SUFFICES ASSUME NEW k \in 1..Len(t) PROVE k \in 1..Len(u) /\ u[k] = t[k]
  OBVIOUS
<1>1. /\ Len(t) \in Nat /\ DOMAIN t = 1..Len(t) /\ Len(u) \in Nat /\ DOMAIN u = 1..Len(u)
  BY LenProperties DEF Sorts
<1>2. t[k] \in ToSet(t)
  BY <1>1 DEF ToSet
<1>3. PICK j \in 1..Len(u) : u[j] = t[k]
  BY <1>1, <1>2 DEF ToSet
<1> DEFINE Sooner(s, x) == {y \in ToSet(s) : <<y, x>> \in better}
<1>4. Sooner(t, t[k]) = Sooner(u, u[j])
  BY <1>3
<1>5. Cardinality(Sooner(t, t[k])) = k - 1
  BY PlaceIsRank
<1>6. Cardinality(Sooner(u, u[j])) = j - 1
  BY PlaceIsRank
<1> HIDE DEF Sooner
<1>7. j = k
  BY <1>1, <1>4, <1>5, <1>6
<1> QED
  BY <1>3, <1>7

(* What the loops keep is the beginning of the greedy set, as much of it   *)
(* as there is room for.                                                   *)
LEMMA GreedyFirst ==
  ASSUME NEW A, NEW s, NEW better, NEW overlaps, Sorts(A, s, better),
         NEW limit \in Nat, NEW kept, NEW pos,
         GreedyAt(A, s, limit, overlaps, Len(s), kept, pos)
  PROVE  LET G == GreedySet(ToSet(s), better, overlaps) IN
         /\ G \subseteq ToSet(s) /\ Sorts(A, kept, better) /\ ToSet(kept) \subseteq G
         /\ Len(kept) \in Nat /\ Len(kept) <= limit
         /\ Len(kept) = Smaller(Cardinality(G), limit)
         /\ \A x \in G : \A k \in 1..Len(kept) : <<x, kept[k]>> \in better => x \in ToSet(kept)
<1> DEFINE N == Len(s)
           m == Len(kept)
           G == GreedySet(ToSet(s), better, overlaps)
<1>1. /\ s \in Seq(A) /\ N \in Nat /\ DOMAIN s = 1..N
      /\ \A i, j \in 1..N : <<s[i], s[j]>> \in better <=> i < j
      /\ \A i, j \in 1..N : s[i] = s[j] => i = j
  BY LenProperties DEF Sorts
<1>2. /\ kept \in Seq(A) /\ m \in Nat /\ m <= limit /\ DOMAIN kept = 1..m
      /\ pos \in [1..m -> 1..N]
      /\ \A k \in 1..m : kept[k] = s[pos[k]]
      /\ \A j, k \in 1..m : j < k => pos[j] < pos[k]
  BY LenProperties DEF GreedyAt
<1>3. /\ G \subseteq ToSet(s)
      /\ \A q \in 1..N : m < limit \/ (\E k \in 1..m : q <= pos[k]) =>
           (s[q] \in G <=> \E k \in 1..m : pos[k] = q)
  BY KeptAreGreedy
<1>4. ToSet(s) = {s[q] : q \in 1..N} /\ ToSet(kept) = {kept[k] : k \in 1..m}
  BY <1>1, <1>2 DEF ToSet
<1> HIDE DEF G, m, N
<1>5. \A k \in 1..m : pos[k] \in 1..N /\ pos[k] \in Nat
  BY <1>1, <1>2
<1>6. \A j, k \in 1..m : pos[j] < pos[k] <=> j < k
  <2> SUFFICES ASSUME NEW j \in 1..m, NEW k \in 1..m, pos[j] < pos[k] PROVE j < k
    BY <1>2
  <2>1. ~(k < j) /\ j # k
    BY <1>2, <1>5
  <2> QED
    BY <1>2, <2>1
<1>7. \A j, k \in 1..m : pos[j] = pos[k] => j = k
  <2> SUFFICES ASSUME NEW j \in 1..m, NEW k \in 1..m, pos[j] = pos[k] PROVE j = k
    OBVIOUS
  <2>1. ~(k < j) /\ ~(j < k)
    BY <1>5, <1>6
  <2> QED
    BY <1>2, <2>1
<1>8. Sorts(A, kept, better)
  <2>1. \A j, k \in 1..m : <<kept[j], kept[k]>> \in better <=> j < k
    BY <1>1, <1>2, <1>5, <1>6
  <2>2. \A j, k \in 1..m : kept[j] = kept[k] => j = k
    BY <1>1, <1>2, <1>5, <1>7
  <2> QED
    BY <1>2, <2>1, <2>2 DEF Sorts, m
<1>9. \A k \in 1..m : kept[k] \in G
  <2> SUFFICES ASSUME NEW k \in 1..m PROVE kept[k] \in G
    OBVIOUS
  <2>1. \E j \in 1..m : pos[k] <= pos[j]
    BY <1>5
  <2> QED
    BY <1>2, <1>3, <1>5, <2>1
<1>10. ASSUME NEW x \in G, m < limit \/ \E k \in 1..m : <<x, kept[k]>> \in better
       PROVE  x \in ToSet(kept)
  <2>1. PICK q \in 1..N : x = s[q]
    BY <1>3, <1>4
  <2>2. m < limit \/ \E k \in 1..m : q <= pos[k]
    <3>1. ASSUME NEW k \in 1..m, <<x, kept[k]>> \in better PROVE q <= pos[k]
      <4>1. q < pos[k]
        BY <1>1, <1>2, <1>5, <2>1, <3>1
      <4> QED
        BY <1>1, <1>5, <4>1
    <3> QED
      BY <1>10, <3>1
  <2>3. PICK k \in 1..m : pos[k] = q
    BY <1>3, <2>1, <2>2
  <2> QED
    BY <1>2, <1>4, <2>1, <2>3
<1>11. IsFiniteSet(G) /\ Cardinality(G) \in Nat
  <2>1. IsFiniteSet(ToSet(s))
    BY <1>1, DifferentElements DEF N
  <2> QED
    BY <1>3, <2>1, FS_Subset, FS_CardinalityType
<1>12. ToSet(kept) \in SUBSET G /\ Cardinality(ToSet(kept)) = m /\ IsFiniteSet(ToSet(kept))
  <2>1. kept \in Seq(A) /\ \A j, k \in 1..Len(kept) : kept[j] = kept[k] => j = k
    BY <1>8 DEF Sorts
  <2>2. IsFiniteSet(ToSet(kept)) /\ Cardinality(ToSet(kept)) = Len(kept)
    BY ONLY <2>1, DifferentElements
  <2> QED
    BY <1>4, <1>9, <2>2 DEF m
<1>13. m = Smaller(Cardinality(G), limit)
  <2>1. m <= Cardinality(G)
    BY <1>11, <1>12, FS_Subset
  <2>2. CASE m < limit
    <3>1. G = ToSet(kept)
      BY <1>10, <1>12, <2>2
    <3>2. m = Cardinality(G)
      BY <1>12, <3>1
    <3> QED
      BY <1>2, <2>2, <3>2 DEF Smaller
  <2>3. CASE m = limit
    BY <1>2, <1>11, <2>1, <2>3 DEF Smaller
  <2> QED
    BY <1>2, <2>2, <2>3
<1>14. \A x \in G : \A k \in 1..m : <<x, kept[k]>> \in better => x \in ToSet(kept)
  BY <1>10
<1> QED
  BY <1>2, <1>3, <1>8, <1>12, <1>13, <1>14 DEF G, m

(* Boxes that do not touch share nothing, so that the test of Proposal     *)
(* decides nothing that the quotient does not.                             *)
Box == [x0 : Int, y0 : Int, x1 : Int, y1 : Int]

LEMMA Products ==
  ASSUME NEW x \in Nat, NEW y \in Nat
  PROVE  x * y \in Nat /\ (x = 0 \/ y = 0 => x * y = 0)
OBVIOUS

LEMMA AreaIsNat ==
  ASSUME NEW b \in Box
  PROVE  /\ Area(b) \in Nat
         /\ b.x1 < b.x0 \/ b.y1 < b.y0 => Area(b) = 0
<1> DEFINE h == Larger(0, b.y1 - b.y0 + 1)
           w == Larger(0, b.x1 - b.x0 + 1)
<1>1. b.x0 \in Int /\ b.x1 \in Int /\ b.y0 \in Int /\ b.y1 \in Int
  BY DEF Box
<1>2. h \in Nat /\ w \in Nat /\ (b.y1 < b.y0 => h = 0) /\ (b.x1 < b.x0 => w = 0)
  BY <1>1 DEF Larger
<1>3. Area(b) = h * w
  BY DEF Area
<1> HIDE DEF h, w
<1> QED
  BY <1>2, <1>3, Products

LEMMA SameOverlaps ==
  ASSUME NEW a \in Box, NEW b \in Box
  PROVE  IouOverlaps(a, b) <=> RoiOverlaps(b, a)
<1> DEFINE i == Intersect(a, b)
<1>1. /\ a.x0 \in Int /\ a.x1 \in Int /\ a.y0 \in Int /\ a.y1 \in Int
      /\ b.x0 \in Int /\ b.x1 \in Int /\ b.y0 \in Int /\ b.y1 \in Int
  BY DEF Box
<1>2. i = Intersect(b, a) /\ i \in Box
  BY <1>1 DEF Intersect, Larger, Smaller, Box
<1>3. ~(a.x0 <= b.x1 /\ a.y0 <= b.y1 /\ b.x0 <= a.x1 /\ b.y0 <= a.y1) =>
        Area(a) = 0 \/ Area(b) = 0 \/ i.x1 < i.x0 \/ i.y1 < i.y0
  BY <1>1 DEF Intersect, Larger, Smaller
<1> HIDE DEF i
<1>4. /\ Area(i) \in Nat /\ Area(a) \in Nat /\ Area(b) \in Nat
      /\ i.x1 < i.x0 \/ i.y1 < i.y0 => Area(i) = 0
  BY <1>2, AreaIsNat
<1>5. Exceeds(Area(i), Area(a) + Area(b) - Area(i)) <=> RoiOverlaps(b, a)
  <2>1. Area(a) + Area(b) - Area(i) = Area(b) + Area(a) - Area(i)
    BY <1>4
  <2> QED
    BY <1>2, <2>1 DEF RoiOverlaps
<1>6. IouOverlaps(a, b) <=>
        /\ a.x0 <= b.x1 /\ a.y0 <= b.y1 /\ b.x0 <= a.x1 /\ b.y0 <= a.y1
        /\ Exceeds(Area(i), Area(a) + Area(b) - Area(i))
  BY DEF IouOverlaps, RoiOverlaps, i
<1>7. ~(a.x0 <= b.x1 /\ a.y0 <= b.y1 /\ b.x0 <= a.x1 /\ b.y0 <= a.y1) =>
        i.x1 < i.x0 \/ i.y1 < i.y0
  BY <1>1 DEF i, Intersect, Larger, Smaller
<1>8. Area(i) = 0 => ~Exceeds(Area(i), Area(a) + Area(b) - Area(i))
  <2> SUFFICES ASSUME Area(i) = 0 PROVE ~Exceeds(0, Area(a) + Area(b) - 0)
    OBVIOUS
  <2>1. PICK whole \in Nat : whole = Area(a) + Area(b) - 0
    BY <1>4
  <2>2. 0 * ThresholdDen = 0 /\ ThresholdNum * whole \in Nat
    BY ThresholdAssumption, Products
  <2> QED
    BY <2>1, <2>2 DEF Exceeds
<1> QED
  BY <1>4, <1>5, <1>6, <1>7, <1>8

(* The names of what RegionsOfPicture speaks of.                           *)
Entering ==
  IF proposer = "Proposal" THEN ToSet(proposals)
  ELSE {a \in ToSet(proposals) : picture.score[a] > 0}

EarlierProposal ==
  {r \in Anchors \X Anchors : \E j, k \in DOMAIN proposals :
     j < k /\ r = <<proposals[j], proposals[k]>>}

GreedyRegions == GreedySet(Entering, EarlierProposal, Overlapping(RoiOverlaps))

WantedRegions ==
  SubSeq(Pick(proposals, {k \in DOMAIN proposals : proposals[k] \in GreedyRegions}), 1,
         Smaller(Cardinality(GreedyRegions), post_nms_topn_))

LEMMA RegionsByName ==
  RegionsOfPicture <=>
    (rpn = "done" =>
       /\ Len(pooled) >= Len(WantedRegions)
       /\ SubSeq(pooled, 1, Len(WantedRegions)) = WantedRegions
       /\ proposer = "Proposal" => Len(pooled) = Len(WantedRegions))
BY DEF RegionsOfPicture, WantedRegions, GreedyRegions, EarlierProposal, Entering

(* The list that the loops suppress.                                       *)
EnterList ==
  IF proposer = "Proposal" THEN proposals
  ELSE Pick(proposals, {k \in DOMAIN proposals : picture.score[proposals[k]] > 0})

ProposalsListed ==
  /\ proposals \in Seq(Anchors)
  /\ \A j, k \in 1..Len(proposals) : proposals[j] = proposals[k] => j = k

LEMMA ProposalPlaces ==
  ASSUME ProposalsListed
  PROVE  /\ proposals \in Seq(Anchors) /\ Len(proposals) \in Nat
         /\ DOMAIN proposals = 1..Len(proposals)
         /\ \A k \in 1..Len(proposals) : proposals[k] \in Anchors
         /\ \A j, k \in 1..Len(proposals) : proposals[j] = proposals[k] => j = k
         /\ \A j, k \in 1..Len(proposals) :
              <<proposals[j], proposals[k]>> \in EarlierProposal <=> j < k
<1>1. /\ proposals \in Seq(Anchors) /\ Len(proposals) \in Nat
      /\ DOMAIN proposals = 1..Len(proposals)
      /\ \A k \in 1..Len(proposals) : proposals[k] \in Anchors
      /\ \A j, k \in 1..Len(proposals) : proposals[j] = proposals[k] => j = k
  BY LenProperties, ElementOfSeq DEF ProposalsListed
<1>2. ASSUME NEW j \in 1..Len(proposals), NEW k \in 1..Len(proposals), j < k
      PROVE  <<proposals[j], proposals[k]>> \in EarlierProposal
  BY <1>1, <1>2 DEF EarlierProposal
<1>3. ASSUME NEW j \in 1..Len(proposals), NEW k \in 1..Len(proposals),
             <<proposals[j], proposals[k]>> \in EarlierProposal
      PROVE  j < k
  <2>1. PICK x \in 1..Len(proposals), y \in 1..Len(proposals) :
          x < y /\ <<proposals[j], proposals[k]>> = <<proposals[x], proposals[y]>>
    BY <1>1, <1>3 DEF EarlierProposal
  <2>2. x = j /\ y = k
    BY <1>1, <2>1
  <2> QED
    BY <2>1, <2>2
<1> QED
  BY <1>1, <1>2, <1>3

(* A part of the proposals, in their order.                                *)
LEMMA PartSorted ==
  ASSUME ProposalsListed, NEW places \in SUBSET (1..Len(proposals))
  PROVE  /\ Sorts(Anchors, Pick(proposals, places), EarlierProposal)
         /\ ToSet(Pick(proposals, places)) = {proposals[k] : k \in places}
<1> DEFINE t == Pick(proposals, places)
           m == Cardinality(places)
           order == Ranked(places, Ascending)
<1>1. /\ proposals \in Seq(Anchors) /\ Len(proposals) \in Nat
      /\ DOMAIN proposals = 1..Len(proposals)
      /\ \A k \in 1..Len(proposals) : proposals[k] \in Anchors
      /\ \A j, k \in 1..Len(proposals) : proposals[j] = proposals[k] => j = k
  BY ProposalPlaces
<1>2. /\ m \in Nat /\ t \in Seq(Anchors) /\ Len(t) = m
      /\ order \in [1..m -> places]
      /\ \A k \in 1..m : t[k] = proposals[order[k]]
      /\ \A p \in places : \E k \in 1..m : order[k] = p
      /\ \A j, k \in 1..m : j < k => order[j] < order[k]
  <2>1. PICK s : s = proposals
    OBVIOUS
  <2>2. s \in Seq(Anchors) /\ places \in SUBSET (1..Len(s))
    BY <1>1, <2>1
  <2>3. /\ Cardinality(places) \in Nat
        /\ Pick(s, places) \in Seq(Anchors) /\ Len(Pick(s, places)) = Cardinality(places)
        /\ order \in [1..Cardinality(places) -> places]
        /\ \A k \in 1..Cardinality(places) : Pick(s, places)[k] = s[order[k]]
        /\ \A p \in places : \E k \in 1..Cardinality(places) : order[k] = p
        /\ \A j, k \in 1..Cardinality(places) : j < k => order[j] < order[k]
    BY ONLY <2>2, PickedList
  <2> QED
    BY <2>1, <2>3
<1>3. DOMAIN t = 1..m
  BY <1>2, LenProperties
<1> HIDE DEF t, m, order
<1>4. \A k \in 1..m : order[k] \in 1..Len(proposals) /\ order[k] \in places
  BY <1>2
<1>5. \A j, k \in 1..Len(proposals) : <<proposals[j], proposals[k]>> \in EarlierProposal <=> j < k
  BY ProposalPlaces
<1>6. \A j, k \in 1..m : order[j] < order[k] <=> j < k
  <2> SUFFICES ASSUME NEW j \in 1..m, NEW k \in 1..m, order[j] < order[k] PROVE j < k
    BY <1>2
  <2>1. order[j] \in Nat /\ order[k] \in Nat
    BY <1>1, <1>4
  <2>2. ~(k < j) /\ j # k
    BY <1>2, <2>1
  <2> QED
    BY <1>2, <2>2
<1>7. \A j, k \in 1..m : order[j] = order[k] => j = k
  <2> SUFFICES ASSUME NEW j \in 1..m, NEW k \in 1..m, order[j] = order[k] PROVE j = k
    OBVIOUS
  <2>1. order[j] \in Nat
    BY <1>1, <1>4
  <2>2. ~(k < j) /\ ~(j < k)
    BY <1>2, <2>1
  <2> QED
    BY <1>2, <2>2
<1>8. Sorts(Anchors, t, EarlierProposal)
  <2>1. \A j, k \in 1..m : <<t[j], t[k]>> \in EarlierProposal <=> j < k
    <3> SUFFICES ASSUME NEW j \in 1..m, NEW k \in 1..m
                 PROVE  <<t[j], t[k]>> \in EarlierProposal <=> j < k
      OBVIOUS
    <3>1. PICK p, q : p = order[j] /\ q = order[k]
      OBVIOUS
    <3>2. p \in 1..Len(proposals) /\ q \in 1..Len(proposals) /\ (p < q <=> j < k)
      BY <1>4, <1>6, <3>1
    <3>3. t[j] = proposals[p] /\ t[k] = proposals[q]
      BY <1>2, <3>1
    <3> QED
      BY <1>5, <3>2, <3>3
  <2>2. \A j, k \in 1..m : t[j] = t[k] => j = k
    BY <1>1, <1>2, <1>4, <1>7
  <2> QED
    BY <1>2, <2>1, <2>2 DEF Sorts
<1>9. ToSet(t) = {proposals[k] : k \in places}
  <2>1. ToSet(t) = {t[k] : k \in 1..m}
    BY <1>3 DEF ToSet
  <2>2. \A k \in 1..m : t[k] \in {proposals[j] : j \in places}
    BY <1>2, <1>4
  <2>3. ASSUME NEW j \in places PROVE \E k \in 1..m : t[k] = proposals[j]
    BY <1>2
  <2> QED
    BY <2>1, <2>2, <2>3
<1> QED
  BY <1>8, <1>9 DEF t

LEMMA EnterSorted ==
  ASSUME ProposalsListed
  PROVE  Sorts(Anchors, EnterList, EarlierProposal) /\ ToSet(EnterList) = Entering
<1>1. /\ proposals \in Seq(Anchors) /\ Len(proposals) \in Nat
      /\ DOMAIN proposals = 1..Len(proposals)
      /\ \A k \in 1..Len(proposals) : proposals[k] \in Anchors
      /\ \A j, k \in 1..Len(proposals) : proposals[j] = proposals[k] => j = k
      /\ \A j, k \in 1..Len(proposals) :
           <<proposals[j], proposals[k]>> \in EarlierProposal <=> j < k
  BY ProposalPlaces
<1>2. CASE proposer = "Proposal"
  BY <1>1, <1>2 DEF Sorts, EnterList, Entering
<1>3. CASE proposer # "Proposal"
  <2> DEFINE places == {k \in DOMAIN proposals : picture.score[proposals[k]] > 0}
  <2>1. places \in SUBSET (1..Len(proposals))
    BY <1>1
  <2>2. EnterList = Pick(proposals, places)
    BY <1>3 DEF EnterList
  <2>3. Entering = {proposals[k] : k \in places}
    BY <1>1, <1>3 DEF Entering, ToSet
  <2> HIDE DEF places
  <2> QED
    BY <2>1, <2>2, <2>3, PartSorted
<1> QED
  BY <1>2, <1>3

(* What the loops keep of it is what RegionsOfPicture wants.               *)
LEMMA RegionsKept ==
  ASSUME ProposalsListed, NEW kept, NEW pos,
         GreedyAt(Anchors, EnterList, post_nms_topn_, Overlapping(RoiOverlaps), Len(EnterList), kept, pos)
  PROVE  kept = WantedRegions /\ kept \in Seq(Anchors) /\ Len(kept) <= post_nms_topn_
<1> DEFINE G == GreedyRegions
           places == {k \in DOMAIN proposals : proposals[k] \in G}
           u == Pick(proposals, places)
           size == Smaller(Cardinality(G), post_nms_topn_)
<1>1. post_nms_topn_ \in Nat
  BY ProposalAssumption
<1>2. Sorts(Anchors, EnterList, EarlierProposal) /\ ToSet(EnterList) = Entering
  BY EnterSorted
<1>3. /\ G \subseteq Entering /\ Sorts(Anchors, kept, EarlierProposal) /\ ToSet(kept) \subseteq G
      /\ Len(kept) \in Nat /\ Len(kept) <= post_nms_topn_
      /\ Len(kept) = size
      /\ \A x \in G : \A k \in 1..Len(kept) : <<x, kept[k]>> \in EarlierProposal => x \in ToSet(kept)
  <2>1. PICK O : O = Overlapping(RoiOverlaps)
    OBVIOUS
  <2>2. G = GreedySet(ToSet(EnterList), EarlierProposal, O)
    BY <1>2, <2>1 DEF GreedyRegions
  <2>3. GreedyAt(Anchors, EnterList, post_nms_topn_, O, Len(EnterList), kept, pos)
    BY <2>1
  <2> HIDE DEF G
  <2> QED
    BY <1>1, <1>2, <2>2, <2>3, GreedyFirst
<1> HIDE DEF G
<1>4. /\ proposals \in Seq(Anchors) /\ DOMAIN proposals = 1..Len(proposals)
  BY LenProperties DEF ProposalsListed
<1>5. G \subseteq ToSet(proposals)
  <2>1. Entering \subseteq ToSet(proposals)
    BY DEF Entering
  <2> QED
    BY <1>3, <2>1
<1>6. Sorts(Anchors, u, EarlierProposal) /\ ToSet(u) = {proposals[k] : k \in places}
  BY <1>4, PartSorted
<1>7. ToSet(u) = G
  BY <1>4, <1>5, <1>6 DEF ToSet
<1> HIDE DEF u, size
<1>8. \A k \in 1..Len(kept) : k \in 1..Len(u) /\ u[k] = kept[k]
  BY <1>3, <1>6, <1>7, Beginning
<1>9. u \in Seq(Anchors) /\ Len(u) \in Nat /\ kept \in Seq(Anchors)
  BY <1>3, <1>6, LenProperties DEF Sorts
<1>10. size \in 0..Len(u)
  <2>1. CASE Len(kept) = 0
    BY <1>3, <1>9, <2>1
  <2>2. CASE Len(kept) # 0
    <3>1. Len(kept) \in 1..Len(kept)
      BY <1>3, <2>2
    <3>2. Len(kept) \in 1..Len(u)
      BY <1>8, <3>1
    <3> QED
      BY <1>3, <1>9, <3>2
  <2> QED
    BY <2>1, <2>2
<1>11. /\ SubSeq(u, 1, size) \in Seq(Anchors) /\ Len(SubSeq(u, 1, size)) = size
       /\ \A k \in 1..size : SubSeq(u, 1, size)[k] = u[k]
  <2>1. 1 \in 1..(Len(u) + 1)
    BY <1>9
  <2> QED
    BY <1>9, <1>10, <2>1, SubSeqProperties
<1>12. kept = SubSeq(u, 1, size)
  <2>1. \A k \in 1..Len(kept) : SubSeq(u, 1, size)[k] = kept[k]
    BY <1>3, <1>8, <1>11
  <2> QED
    BY <1>3, <1>9, <1>11, <2>1, SeqEqual
<1> QED
  BY <1>3, <1>9, <1>12 DEF WantedRegions, u, size, G

(* The invariant of the proposing and the pooling layer.                   *)
RegionTypes ==
  /\ rpn \in {"idle", "sort", "nms", "retrieve", "pool", "done"}
  /\ proposer \in ProposalLayers
  /\ rpn # "idle" => picture \in Pictures
  /\ res \in Seq(Anchors)
  /\ rois \in [Regions -> [batch_ind : Int, anchor : 0..num_proposals]]

\* What suppression kept is what is wanted.
RegionsSuppressed ==
  rpn \in {"retrieve", "pool"} => res = WantedRegions /\ Len(res) <= post_nms_topn_

\* SimplerNMS never writes a marker.
NoMarker == proposer = "SimplerNMS" => \A r \in Regions : rois[r].batch_ind # -1

\* The blob begins with them, and Proposal marks their end.
RegionsInBlob ==
  rpn = "pool" =>
    \A r \in Regions :
      /\ r <= Len(res) => rois[r] = Region(res[r])
      /\ r = Len(res) + 1 /\ proposer = "Proposal" => rois[r] = Terminal

ProposalInv ==
  /\ RegionTypes /\ ProposalsListed /\ RegionsSuppressed /\ NoMarker
  /\ RegionsInBlob /\ RegionsOfPicture

LEMMA ProposalInitInv == ProposalInit => ProposalInv
<1> SUFFICES ASSUME ProposalInit PROVE ProposalInv
  OBVIOUS
<1>1. <<>> \in Seq(Anchors) /\ Len(<<>>) = 0
  BY EmptySeq
<1>2. /\ rpn = "idle" /\ proposer \in ProposalLayers /\ proposals = <<>> /\ res = <<>>
      /\ rois = [r \in Regions |-> Blank]
  BY DEF ProposalInit
<1>3. Blank \in [batch_ind : Int, anchor : 0..num_proposals] /\ Blank.batch_ind = 0
  BY ProposalAssumption DEF Blank
<1>4. RegionTypes
  BY <1>1, <1>2, <1>3 DEF RegionTypes
<1>5. ProposalsListed
  BY <1>1, <1>2 DEF ProposalsListed
<1>6. NoMarker
  BY <1>2, <1>3 DEF NoMarker
<1> QED
  BY <1>2, <1>4, <1>5, <1>6 DEF ProposalInv, RegionsSuppressed, RegionsInBlob, RegionsOfPicture

LEMMA StartPictureInv ==
  ASSUME ProposalInv, StartPicture PROVE ProposalInv'
BY DEF ProposalInv, StartPicture, RegionTypes, ProposalsListed, RegionsSuppressed, NoMarker,
       RegionsInBlob, RegionsOfPicture

(* SimplerNMS sorts the anchors that are large enough.                     *)
LEMMA SimplerListed ==
  ASSUME picture \in Pictures
  PROVE  /\ SimplerOrder \in Seq(Anchors)
         /\ \A j, k \in 1..Len(SimplerOrder) : SimplerOrder[j] = SimplerOrder[k] => j = k
<1> DEFINE large  == Anchors \ picture.small
           before == {r \in Anchors \X Anchors :
                        \/ picture.score[r[1]] > picture.score[r[2]]
                        \/ picture.score[r[1]] = picture.score[r[2]] /\ r[1] > r[2]}
           size   == Smaller(Cardinality(large), pre_nms_topn_)
           score  == picture.score
<1>1. num_proposals \in Nat /\ pre_nms_topn_ \in Nat /\ score \in [Anchors -> Int]
  BY ProposalAssumption
<1>2. IsFiniteSet(Anchors)
  BY <1>1, FS_Interval DEF Anchors
<1>3. large \in SUBSET Anchors /\ IsFiniteSet(large) /\ Cardinality(large) \in Nat
  BY <1>2, FS_Subset, FS_CardinalityType
<1>4. StrictOrder(large, before)
  <2>1. \A a, b \in large : <<a, b>> \in before <=>
          \/ score[a] > score[b]
          \/ score[a] = score[b] /\ a > b
    OBVIOUS
  <2>2. \A a \in large : score[a] \in Int /\ a \in Int
    BY <1>1 DEF Anchors
  <2> HIDE DEF score, before, large
  <2> QED
    BY <2>1, <2>2 DEF StrictOrder
<1>5. size \in Nat /\ size <= Cardinality(large)
  BY <1>1, <1>3 DEF Smaller
<1>6. SimplerOrder = SubSeq(Ranked(large, before), 1, size)
  BY DEF SimplerOrder
<1> HIDE DEF large, before, size
<1>7. Sorts(large, SimplerOrder, before)
  BY <1>3, <1>4, <1>5, <1>6, FirstRanked
<1>8. /\ SimplerOrder \in Seq(large)
      /\ \A j, k \in 1..Len(SimplerOrder) : SimplerOrder[j] = SimplerOrder[k] => j = k
  BY <1>7 DEF Sorts
<1>9. SimplerOrder \in Seq(Anchors)
  <2>1. PICK s : s = SimplerOrder
    OBVIOUS
  <2>2. s \in Seq(large)
    BY <1>8, <2>1
  <2>3. Len(s) \in Nat /\ s \in [1..Len(s) -> large]
    BY <2>2, LenProperties
  <2>4. s \in [1..Len(s) -> Anchors]
    BY <1>3, <2>3
  <2>5. s \in Seq(Anchors)
    BY ONLY <2>3, <2>4, ListOf
  <2> QED
    BY <2>1, <2>5
<1> QED
  BY <1>8, <1>9

LEMMA SortProposalsInv ==
  ASSUME ProposalInv, SortProposals PROVE ProposalInv'
<1>1. /\ rpn = "sort" /\ rpn' = "nms" /\ UNCHANGED <<proposer, picture, res, rois, pooled>>
      /\ \/ proposals' \in ProposalOrders
         \/ proposals' = SimplerOrder
  BY DEF SortProposals
<1>2. RegionTypes /\ NoMarker
  BY DEF ProposalInv
<1>3. /\ proposals' \in Seq(Anchors)
      /\ \A j, k \in 1..Len(proposals') : proposals'[j] = proposals'[k] => j = k
  <2>1. CASE proposals' \in ProposalOrders
    <3> DEFINE size == Smaller(num_proposals, pre_nms_topn_)
    <3>1. size \in Nat
      BY ProposalAssumption DEF Smaller
    <3>2. PICK s : s = proposals'
      OBVIOUS
    <3>3. s \in [1..size -> Anchors] /\ \A j, k \in 1..size : s[j] = s[k] => j = k
      BY <2>1, <3>2 DEF ProposalOrders, IsInjective
    <3> HIDE DEF size
    <3>4. s \in Seq(Anchors) /\ Len(s) = size
      BY ONLY <3>1, <3>3, ListOf
    <3> QED
      BY <3>2, <3>3, <3>4
  <2>2. CASE proposals' = SimplerOrder
    <3>1. picture \in Pictures
      BY <1>1, <1>2 DEF RegionTypes
    <3> QED
      BY <2>2, <3>1, SimplerListed
  <2> QED
    BY <1>1, <2>1, <2>2
<1>4. ProposalsListed'
  BY <1>3 DEF ProposalsListed
<1>5. RegionTypes' /\ NoMarker'
  BY <1>1, <1>2 DEF RegionTypes, NoMarker
<1> QED
  BY <1>1, <1>4, <1>5 DEF ProposalInv, RegionsSuppressed, RegionsInBlob, RegionsOfPicture

LEMMA SuppressProposalsInv ==
  ASSUME ProposalInv, SuppressProposals PROVE ProposalInv'
<1>1. /\ rpn = "nms" /\ rpn' = "retrieve"
      /\ UNCHANGED <<proposer, picture, proposals, rois, pooled>>
      /\ \/ /\ proposer = "Proposal"
            /\ res' = KillLoop(proposals, post_nms_topn_, Overlapping(IouOverlaps))
         \/ /\ proposer = "SimplerNMS"
            /\ res' = KeepLoop(Pick(proposals, {k \in DOMAIN proposals :
                                                  picture.score[proposals[k]] > 0}),
                               post_nms_topn_, Overlapping(RoiOverlaps))
  BY DEF SuppressProposals
<1>2. RegionTypes /\ NoMarker /\ ProposalsListed
  BY DEF ProposalInv
<1>3. post_nms_topn_ \in Nat
  BY ProposalAssumption
<1>4. \E pos : GreedyAt(Anchors, EnterList, post_nms_topn_, Overlapping(RoiOverlaps),
                        Len(EnterList), res', pos)
  <2>1. PICK s : s = EnterList
    OBVIOUS
  <2>2. s \in Seq(Anchors)
    BY <1>2, <2>1, EnterSorted DEF Sorts
  <2>3. PICK O : O = Overlapping(RoiOverlaps)
    OBVIOUS
  <2>4. CASE proposer = "Proposal"
    <3>1. PICK K : K = Overlapping(IouOverlaps)
      OBVIOUS
    <3>2. \A p, q \in 1..Len(s) : <<s[p], s[q]>> \in K <=> <<s[q], s[p]>> \in O
      <4>1. \A a \in Anchors : Roi(a) \in Box
        <5>1. picture \in Pictures
          BY <1>1, <1>2 DEF RegionTypes
        <5> QED
          BY <5>1, ProposalAssumption DEF Roi, Box
      <4>2. \A a, b \in Anchors : <<a, b>> \in K <=> IouOverlaps(Roi(a), Roi(b))
        BY <3>1 DEF Overlapping
      <4>3. \A a, b \in Anchors : <<b, a>> \in O <=> RoiOverlaps(Roi(b), Roi(a))
        BY <2>3 DEF Overlapping
      <4>4. \A a, b \in Anchors : <<a, b>> \in K <=> <<b, a>> \in O
        BY <4>1, <4>2, <4>3, SameOverlaps
      <4>5. \A p \in 1..Len(s) : s[p] \in Anchors
        BY <2>2, ElementOfSeq
      <4> QED
        BY <4>4, <4>5
    <3>3. res' = KillLoop(s, post_nms_topn_, K)
      BY <1>1, <2>1, <2>4, <3>1 DEF EnterList
    <3>4. \E pos : GreedyAt(Anchors, s, post_nms_topn_, O, Len(s), KillLoop(s, post_nms_topn_, K), pos)
      BY ONLY <1>3, <2>2, <3>2, KillLoopGreedy
    <3> QED
      BY <2>1, <2>3, <3>3, <3>4
  <2>5. CASE proposer # "Proposal"
    <3>1. res' = KeepLoop(s, post_nms_topn_, O)
      BY <1>1, <2>1, <2>3, <2>5 DEF EnterList
    <3>2. \E pos : GreedyAt(Anchors, s, post_nms_topn_, O, Len(s), KeepLoop(s, post_nms_topn_, O), pos)
      BY ONLY <1>3, <2>2, KeepLoopGreedy
    <3> QED
      BY <2>1, <2>3, <3>1, <3>2
  <2> QED
    BY <2>4, <2>5
<1>5. res' = WantedRegions /\ res' \in Seq(Anchors) /\ Len(res') <= post_nms_topn_
  BY <1>2, <1>4, RegionsKept
<1>6. WantedRegions' = WantedRegions
  BY <1>1 DEF WantedRegions, GreedyRegions, EarlierProposal, Entering, Overlapping, Roi
<1>7. RegionTypes' /\ NoMarker' /\ ProposalsListed'
  BY <1>1, <1>2, <1>5 DEF RegionTypes, NoMarker, ProposalsListed
<1> QED
  BY <1>1, <1>5, <1>6, <1>7 DEF ProposalInv, RegionsSuppressed, RegionsInBlob, RegionsOfPicture

LEMMA RetrieveRoisInv ==
  ASSUME ProposalInv, RetrieveRois PROVE ProposalInv'
<1>1. /\ rpn = "retrieve" /\ rpn' = "pool"
      /\ rois' = [r \in Regions |->
           CASE r <= Len(res) -> Region(res[r])
             [] r > Len(res) /\ proposer = "SimplerNMS" -> rois[r]
             [] r = Len(res) + 1 /\ proposer = "Proposal" -> Terminal
             [] r > Len(res) + 1 /\ proposer = "Proposal" -> Blank]
      /\ UNCHANGED <<proposer, picture, proposals, res, pooled>>
  BY DEF RetrieveRois
<1>2. RegionTypes /\ NoMarker /\ ProposalsListed /\ RegionsSuppressed
  BY DEF ProposalInv
<1>3. /\ res \in Seq(Anchors) /\ Len(res) \in Nat
      /\ \A k \in 1..Len(res) : res[k] \in Anchors
      /\ proposer = "Proposal" \/ proposer = "SimplerNMS"
  BY <1>2, LenProperties, ElementOfSeq, ProposalAssumption DEF RegionTypes
<1>4. /\ num_proposals \in Nat /\ \A r \in Regions : r \in Nat /\ r >= 1
  BY ProposalAssumption DEF Regions
<1> DEFINE T == [batch_ind : Int, anchor : 0..num_proposals]
<1>5. Blank \in T /\ Terminal \in T /\ \A a \in Anchors : Region(a) \in T
  BY <1>4 DEF Blank, Terminal, Region, Anchors
<1>6. Blank.batch_ind = 0 /\ \A a \in Anchors : Region(a).batch_ind = 0
  BY DEF Blank, Region
<1>7. ASSUME NEW r \in Regions
      PROVE  \/ r <= Len(res) /\ r \in 1..Len(res) /\ rois'[r] = Region(res[r])
             \/ r > Len(res) /\ proposer = "SimplerNMS" /\ rois'[r] = rois[r]
             \/ r = Len(res) + 1 /\ proposer = "Proposal" /\ rois'[r] = Terminal
             \/ r > Len(res) + 1 /\ proposer = "Proposal" /\ rois'[r] = Blank
  BY <1>1, <1>3, <1>4
<1>8. RegionTypes'
  <2>1. ASSUME NEW r \in Regions PROVE rois'[r] \in T
    <3>1. rois[r] \in T
      BY <1>2 DEF RegionTypes
    <3> HIDE DEF T
    <3> QED
      BY <1>3, <1>5, <1>7, <3>1
  <2>2. rois' \in [Regions -> T]
    <3> HIDE DEF T
    <3> QED
      BY <1>1, <2>1
  <2> QED
    BY <1>1, <1>2, <2>2 DEF RegionTypes
<1>9. NoMarker'
  <2> SUFFICES ASSUME proposer = "SimplerNMS", NEW r \in Regions PROVE rois'[r].batch_ind # -1
    BY <1>1 DEF NoMarker
  <2>1. rois'[r] = rois[r] \/ (r \in 1..Len(res) /\ rois'[r] = Region(res[r]))
    BY <1>3, <1>7
  <2> QED
    BY <1>2, <1>3, <1>6, <2>1 DEF NoMarker
<1>10. RegionsInBlob'
  BY <1>1, <1>3, <1>4, <1>7 DEF RegionsInBlob
<1>11. WantedRegions' = WantedRegions
  BY <1>1 DEF WantedRegions, GreedyRegions, EarlierProposal, Entering, Overlapping, Roi
<1>12. RegionsSuppressed' /\ ProposalsListed'
  BY <1>1, <1>2, <1>11 DEF RegionsSuppressed, ProposalsListed
<1> QED
  BY <1>1, <1>8, <1>9, <1>10, <1>12 DEF ProposalInv, RegionsOfPicture

LEMMA PoolRoisInv ==
  ASSUME ProposalInv, PoolRois PROVE ProposalInv'
<1>1. /\ rpn = "pool" /\ rpn' = "done"
      /\ pooled' = [r \in 1..real_rois |-> rois[r].anchor]
      /\ UNCHANGED <<proposer, picture, proposals, res, rois>>
  BY DEF PoolRois
<1>2. RegionTypes /\ NoMarker /\ ProposalsListed /\ RegionsInBlob
  BY DEF ProposalInv
<1>3. /\ res = WantedRegions /\ Len(res) <= post_nms_topn_ /\ res \in Seq(Anchors)
      /\ Len(res) \in Nat /\ post_nms_topn_ \in Nat
      /\ proposer = "Proposal" \/ proposer = "SimplerNMS"
  BY <1>1, LenProperties, ProposalAssumption DEF ProposalInv, RegionsSuppressed, RegionTypes
<1>4. Regions = 1..post_nms_topn_
  BY DEF Regions
<1>5. \A r \in 1..Len(res) : r \in Regions /\ rois[r].anchor = res[r] /\ rois[r].batch_ind # -1
  <2> SUFFICES ASSUME NEW r \in 1..Len(res)
               PROVE  r \in Regions /\ rois[r].anchor = res[r] /\ rois[r].batch_ind # -1
    OBVIOUS
  <2>1. r \in Regions /\ r <= Len(res)
    BY <1>3, <1>4
  <2>2. rois[r] = Region(res[r])
    BY <1>1, <1>2, <2>1 DEF RegionsInBlob
  <2> QED
    BY <2>1, <2>2 DEF Region
<1>6. /\ real_rois \in Nat /\ Len(res) <= real_rois /\ real_rois <= post_nms_topn_
      /\ proposer = "Proposal" => real_rois = Len(res)
  <2> DEFINE ends == {r \in Regions : rois[r].batch_ind = -1}
  <2>1. CASE ends = {}
    <3>1. real_rois = post_nms_topn_
      BY <2>1 DEF real_rois
    <3>2. ASSUME proposer = "Proposal" PROVE Len(res) = post_nms_topn_
      <4>1. Len(res) + 1 \notin Regions
        <5>1. SUFFICES ASSUME Len(res) + 1 \in Regions PROVE FALSE
          OBVIOUS
        <5>2. rois[Len(res) + 1] = Terminal
          BY <1>1, <1>2, <1>3, <3>2, <5>1 DEF RegionsInBlob
        <5> QED
          BY <2>1, <5>1, <5>2 DEF Terminal
      <4> QED
        BY <1>3, <1>4, <4>1
    <3> QED
      BY <1>3, <3>1, <3>2
  <2>2. CASE ends # {}
    <3>1. proposer = "Proposal"
      BY <1>2, <1>3, <2>2 DEF NoMarker
    <3>2. \A r \in ends : r \in Regions /\ Len(res) + 1 <= r
      BY <1>3, <1>4, <1>5
    <3>3. Len(res) + 1 \in Regions
      BY <1>3, <1>4, <2>2, <3>2
    <3>4. rois[Len(res) + 1] = Terminal
      BY <1>1, <1>2, <1>3, <3>1, <3>3 DEF RegionsInBlob
    <3>5. Len(res) + 1 \in ends
      BY <3>3, <3>4 DEF Terminal
    <3>6. real_rois = Min(ends) - 1
      BY <2>2 DEF real_rois
    <3> HIDE DEF ends
    <3>7. \A x \in ends : (\A y \in ends : x <= y) => x = Len(res) + 1
      BY <1>3, <1>4, <3>2, <3>5
    <3>8. Min(ends) = Len(res) + 1
      BY <1>3, <3>2, <3>5, <3>7 DEF Min
    <3> QED
      BY <1>3, <3>6, <3>8
  <2> QED
    BY <2>1, <2>2
<1>7. PICK m : m = real_rois
  OBVIOUS
<1>8. PICK p : p = pooled'
  OBVIOUS
<1>9. /\ m \in Nat /\ Len(res) <= m /\ m <= post_nms_topn_ /\ (proposer = "Proposal" => m = Len(res))
      /\ p = [r \in 1..m |-> rois[r].anchor]
  BY <1>1, <1>6, <1>7, <1>8
<1>10. p \in Seq(0..num_proposals) /\ Len(p) = m
  <2>1. \A r \in 1..m : rois[r].anchor \in 0..num_proposals
    <3>1. \A r \in 1..m : r \in Regions
      BY <1>3, <1>4, <1>9
    <3> QED
      BY <1>2, <3>1 DEF RegionTypes
  <2>2. p \in [1..m -> 0..num_proposals]
    BY <1>9, <2>1
  <2>3. m \in Nat
    BY <1>9
  <2> QED
    BY ONLY <2>2, <2>3, ListOf
<1>11. SubSeq(p, 1, Len(res)) = res
  <2>1. PICK s : s = res
    OBVIOUS
  <2>2. s \in Seq(Anchors) /\ Len(s) \in Nat /\ Len(s) <= m /\ \A r \in 1..Len(s) : r \in 1..m /\ p[r] = s[r]
    BY <1>3, <1>5, <1>9, <2>1
  <2>3. 1 \in 1..(Len(p) + 1) /\ Len(s) \in 0..Len(p)
    BY <1>9, <1>10, <2>2
  <2> DEFINE t == SubSeq(p, 1, Len(s))
  <2>4. t \in Seq(0..num_proposals) /\ Len(t) = Len(s) /\ \A r \in 1..Len(s) : t[r] = p[r]
    <3>1. PICK A : A = 0..num_proposals
      OBVIOUS
    <3>2. p \in Seq(A)
      BY <1>10, <3>1
    <3>3. /\ SubSeq(p, 1, Len(s)) \in Seq(A) /\ Len(SubSeq(p, 1, Len(s))) = Len(s) - 1 + 1
          /\ \A r \in 1..(Len(s) - 1 + 1) : SubSeq(p, 1, Len(s))[r] = p[1 + r - 1]
      BY <2>3, <3>2, SubSeqProperties
    <3> QED
      BY <2>2, <3>1, <3>3
  <2>5. s \in Seq(0..num_proposals)
    <3>1. \A r \in 1..Len(s) : s[r] \in 0..num_proposals
      BY <2>2, ElementOfSeq, ProposalAssumption DEF Anchors
    <3>2. s \in [1..Len(s) -> 0..num_proposals]
      BY <2>2, <3>1, LenProperties
    <3>3. Len(s) \in Nat
      BY <2>2
    <3> QED
      BY ONLY <3>2, <3>3, ListOf
  <2> HIDE DEF t
  <2>6. t = s
    BY <2>2, <2>4, <2>5, SeqEqual
  <2> QED
    BY <2>1, <2>6 DEF t
<1>12. WantedRegions' = WantedRegions
  BY <1>1 DEF WantedRegions, GreedyRegions, EarlierProposal, Entering, Overlapping, Roi
<1>13. RegionsOfPicture'
  <2>1. /\ Len(pooled') >= Len(WantedRegions)
        /\ SubSeq(pooled', 1, Len(WantedRegions)) = WantedRegions
        /\ proposer = "Proposal" => Len(pooled') = Len(WantedRegions)
    BY <1>3, <1>8, <1>9, <1>10, <1>11
  <2>2. /\ Len(pooled') >= Len(WantedRegions')
        /\ SubSeq(pooled', 1, Len(WantedRegions')) = WantedRegions'
        /\ proposer' = "Proposal" => Len(pooled') = Len(WantedRegions')
    BY <1>1, <1>12, <2>1
  <2> QED
    BY <2>2 DEF RegionsOfPicture, WantedRegions, GreedyRegions, EarlierProposal, Entering
<1>14. RegionTypes' /\ NoMarker' /\ ProposalsListed'
  BY <1>1, <1>2 DEF RegionTypes, NoMarker, ProposalsListed
<1> QED
  BY <1>1, <1>13, <1>14 DEF ProposalInv, RegionsSuppressed, RegionsInBlob

LEMMA ProposalSameInv ==
  ASSUME ProposalInv, UNCHANGED proposalVars PROVE ProposalInv'
<1>1. UNCHANGED <<rpn, proposer, picture, proposals, res, rois, pooled>>
  BY DEF proposalVars
<1>2. WantedRegions' = WantedRegions
  BY <1>1 DEF WantedRegions, GreedyRegions, EarlierProposal, Entering, Overlapping, Roi
<1>3. RegionsOfPicture'
  <2>1. rpn = "done" =>
          /\ Len(pooled) >= Len(WantedRegions)
          /\ SubSeq(pooled, 1, Len(WantedRegions)) = WantedRegions
          /\ proposer = "Proposal" => Len(pooled) = Len(WantedRegions)
    BY RegionsByName DEF ProposalInv
  <2>2. rpn' = "done" =>
          /\ Len(pooled') >= Len(WantedRegions')
          /\ SubSeq(pooled', 1, Len(WantedRegions')) = WantedRegions'
          /\ proposer' = "Proposal" => Len(pooled') = Len(WantedRegions')
    BY <1>1, <1>2, <2>1
  <2> QED
    BY <2>2 DEF RegionsOfPicture, WantedRegions, GreedyRegions, EarlierProposal, Entering
<1>4. /\ RegionTypes' /\ NoMarker' /\ ProposalsListed' /\ RegionsSuppressed' /\ RegionsInBlob'
  BY <1>1, <1>2 DEF ProposalInv, RegionTypes, NoMarker, ProposalsListed, RegionsSuppressed,
       RegionsInBlob
<1> QED
  BY <1>3, <1>4 DEF ProposalInv

-----------------------------------------------------------------------------
(* The library.                                                            *)

LayersInv == DetectionInv /\ ProposalInv

LEMMA LayersNext ==
  ASSUME LayersInv, [Next]_vars PROVE LayersInv'
<1>1. DetectionInv /\ ProposalInv
  BY DEF LayersInv
<1>2. CASE layersIdle
  <2>1. UNCHANGED detectionVars /\ UNCHANGED proposalVars
    BY <1>2 DEF layersIdle
  <2> QED
    BY <1>1, <2>1, DetectionSameInv, ProposalSameInv DEF LayersInv
<1>3. CASE ExecuteDetection
  <2>1. DetectionNext /\ UNCHANGED proposalVars
    BY <1>3 DEF ExecuteDetection
  <2>2. DetectionInv'
    BY <1>1, <2>1, StartBatchInv, CollectBoxesInv, SuppressBoxesInv, KeepTopKInv, WriteRowsInv,
       ReadRowsInv DEF DetectionNext
  <2> QED
    BY <1>1, <2>1, <2>2, ProposalSameInv DEF LayersInv
<1>4. CASE ExecuteProposal
  <2>1. ProposalNext /\ UNCHANGED detectionVars
    BY <1>4 DEF ExecuteProposal
  <2>2. ProposalInv'
    BY <1>1, <2>1, StartPictureInv, SortProposalsInv, SuppressProposalsInv, RetrieveRoisInv,
       PoolRoisInv DEF ProposalNext
  <2> QED
    BY <1>1, <2>1, <2>2, DetectionSameInv DEF LayersInv
<1>5. CASE ExecuteGrid \/ ExecuteAnswer
  <2>1. UNCHANGED detectionVars /\ UNCHANGED proposalVars
    BY <1>5 DEF ExecuteGrid, ExecuteAnswer
  <2> QED
    BY <1>1, <2>1, DetectionSameInv, ProposalSameInv DEF LayersInv
<1>6. CASE UNCHANGED vars
  <2>1. UNCHANGED detectionVars /\ UNCHANGED proposalVars
    BY <1>6 DEF vars
  <2> QED
    BY <1>1, <2>1, DetectionSameInv, ProposalSameInv DEF LayersInv
<1>7. Next => layersIdle \/ Execute
  BY DEF Next, GetFactoryFor, Construct, GetSupportedConfigurations, InitLayer
<1> QED
  BY <1>2, <1>3, <1>4, <1>5, <1>6, <1>7 DEF Execute

LEMMA LayersInvariant == Spec => []LayersInv
<1>1. Init => LayersInv
  BY DetectionInitInv, ProposalInitInv DEF Init, LayersInv
<1>2. LayersInv /\ [Next]_vars => LayersInv'
  BY LayersNext
<1> QED
  BY <1>1, <1>2, PTL DEF Spec

(* DetectionOutput: whatever the order of the OpenMP threads, a thread     *)
(* that is done has kept the greedy set of its class, best first.          *)
THEOREM ThreadsKeepGreedily == Spec => []KeptGreedily
<1>1. LayersInv => KeptGreedily
  BY DEF LayersInv, DetectionInv
<1> QED
  BY <1>1, LayersInvariant, PTL

(* DetectionOutput and Detector::InsertImage: for every image of the batch *)
(* the caller gets no more than keep_top_k_ of the boxes that suppression  *)
(* keeps, each once, and nothing that earlier batches left in the blob.    *)
(* They are all it should get, the best ones, unless a threshold below     *)
(* zero lets a box of confidence zero through: the reader ends there.      *)
THEOREM BestAreReported == Spec => []BestReported
<1>1. LayersInv => BestReported
  BY DEF LayersInv, DetectionInv
<1> QED
  BY <1>1, LayersInvariant, PTL

(* Proposal, SimplerNMS and PSROIPooling: the regions that are pooled      *)
(* begin with the greedy set of this picture's proposals, and with         *)
(* Proposal they are nothing else.                                         *)
THEOREM RegionsArePooled == Spec => []RegionsOfPicture
<1>1. LayersInv => RegionsOfPicture
  BY DEF LayersInv, ProposalInv
<1> QED
  BY <1>1, LayersInvariant, PTL

-----------------------------------------------------------------------------
(* Cells of a blob: a place is a number in mixed radices.                  *)

(* One more digit, with a definition that is expanded only where it has to *)
(* be: the provers are to take a product of unknowns as it stands.         *)
Place(a, N, b) == a * N + b

LEMMA Digits ==
  ASSUME NEW N \in Nat, NEW a \in Int, NEW c \in Int,
         NEW b \in Cells(N), NEW d \in Cells(N), Place(a, N, b) = Place(c, N, d)
  PROVE  a = c /\ b = d
<1>0. a * N + b = c * N + d
  BY DEF Place
<1>1. b \in Int /\ d \in Int /\ 0 <= b /\ b < N /\ 0 <= d /\ d < N
  BY DEF Cells
<1>2. CASE a > c
  <2>1. (a - c) * N >= 1 * N /\ (a - c) * N = a * N - c * N
    BY <1>2
  <2> QED
    BY <1>0, <1>1, <2>1
<1>3. CASE a < c
  <2>1. (c - a) * N >= 1 * N /\ (c - a) * N = c * N - a * N
    BY <1>3
  <2> QED
    BY <1>0, <1>1, <2>1
<1> QED
  BY <1>0, <1>1, <1>2, <1>3

LEMMA DigitRange ==
  ASSUME NEW N \in Nat, NEW A \in Nat, NEW a \in Cells(A), NEW b \in Cells(N)
  PROVE  Place(a, N, b) \in Cells(A * N)
<1>1. a \in Nat /\ a + 1 <= A /\ b \in Nat /\ b < N
  BY DEF Cells
<1>2. (a + 1) * N <= A * N /\ (a + 1) * N = a * N + N /\ a * N \in Nat
  BY <1>1
<1> QED
  BY <1>1, <1>2 DEF Cells, Place

LEMMA DigitType ==
  ASSUME NEW N \in Nat, NEW a \in Int, NEW b \in Cells(N)
  PROVE  Place(a, N, b) \in Int
BY DEF Cells, Place

LEMMA DigitParts ==
  ASSUME NEW N \in Nat \ {0}, NEW x \in Int
  PROVE  /\ x \div N \in Int /\ x % N \in Cells(N)
         /\ x = Place(x \div N, N, x % N)
BY DEF Cells, Place

LEMMA PartsOf ==
  ASSUME NEW N \in Nat \ {0}, NEW a \in Int, NEW b \in Cells(N)
  PROVE  Place(a, N, b) \div N = a /\ Place(a, N, b) % N = b
<1> DEFINE x == Place(a, N, b)
           q == x \div N
           r == x % N
<1>1. x \in Int
  BY DigitType
<1>2. q \in Int /\ r \in Cells(N) /\ x = Place(q, N, r)
  <2> HIDE DEF x
  <2> QED
    BY <1>1, DigitParts
<1> HIDE DEF q, r
<1>3. q = a /\ r = b
  BY <1>2, Digits
<1> QED
  BY <1>3 DEF q, r

LEMMA PartsRange ==
  ASSUME NEW N \in Nat \ {0}, NEW A \in Nat, NEW x \in Cells(A * N)
  PROVE  x \div N \in Cells(A) /\ x % N \in Cells(N)
<1> DEFINE q == x \div N
           r == x % N
<1>1. x \in Nat /\ x < A * N
  BY DEF Cells
<1>2. q \in Int /\ r \in Cells(N) /\ x = q * N + r
  BY <1>1, DigitParts DEF Place
<1> HIDE DEF q, r
<1>3. r \in Nat /\ r < N
  BY <1>2 DEF Cells
<1>4. q >= 0
  <2>1. ASSUME q <= -1 PROVE FALSE
    <3>1. q * N <= (-1) * N
      BY <1>2, <2>1
    <3> QED
      BY <1>1, <1>2, <1>3, <3>1
  <2> QED
    BY <1>2, <2>1
<1>5. q < A
  <2>1. ASSUME q >= A PROVE FALSE
    <3>1. q * N >= A * N
      BY <1>2, <2>1
    <3> QED
      BY <1>1, <1>2, <1>3, <3>1
  <2> QED
    BY <1>2, <2>1
<1> QED
  BY <1>2, <1>4, <1>5 DEF q, r, Cells

(* What a blob holds after a loop: a cell that one value was stored in,    *)
(* and a cell that no iteration stored into.                               *)
LEMMA StoredOnce ==
  ASSUME NEW blob, NEW stores, NEW d \in DOMAIN blob, NEW v, <<d, v>> \in stores,
         \A p \in stores : p[1] = d => p[2] = v
  PROVE  Stored(blob, stores)[d] = v
<1> DEFINE at == {p[2] : p \in {q \in stores : q[1] = d}}
<1>1. at = {v}
  <2>1. <<d, v>>[1] = d /\ <<d, v>>[2] = v
    OBVIOUS
  <2>2. v \in at
    BY <2>1
  <2>3. \A w \in at : w = v
    OBVIOUS
  <2> HIDE DEF at
  <2> QED
    BY <2>2, <2>3
<1>2. Stored(blob, stores)[d] = IF at = {} THEN blob[d]
                                ELSE IF Cardinality(at) = 1 THEN CHOOSE w \in at : TRUE ELSE Clash
  BY DEF Stored
<1> HIDE DEF at
<1>3. Cardinality({v}) = 1
  BY FS_Singleton
<1> QED
  BY <1>1, <1>2, <1>3

LEMMA StoredElsewhere ==
  ASSUME NEW blob, NEW stores, NEW d \in DOMAIN blob, \A p \in stores : p[1] # d
  PROVE  Stored(blob, stores)[d] = blob[d]
<1>1. {p[2] : p \in {q \in stores : q[1] = d}} = {}
  OBVIOUS
<1> QED
  BY <1>1 DEF Stored

LEMMA StoredDomain ==
  ASSUME NEW blob, NEW stores PROVE DOMAIN Stored(blob, stores) = DOMAIN blob
BY DEF Stored

(* A place of a blob with four dimensions.                                 *)
Place4(C, H, W, i) == Place(Place(Place(i[1], C, i[2]), H, i[3]), W, i[4])

LEMMA FourDigits ==
  ASSUME NEW B \in Nat, NEW C \in Nat, NEW H \in Nat, NEW W \in Nat,
         NEW i \in Cells(B) \X Cells(C) \X Cells(H) \X Cells(W),
         NEW j \in Cells(B) \X Cells(C) \X Cells(H) \X Cells(W),
         Place4(C, H, W, i) = Place4(C, H, W, j)
  PROVE  i = j
<1>1. /\ i = <<i[1], i[2], i[3], i[4]>> /\ j = <<j[1], j[2], j[3], j[4]>>
      /\ i[1] \in Int /\ j[1] \in Int /\ i[2] \in Cells(C) /\ j[2] \in Cells(C)
      /\ i[3] \in Cells(H) /\ j[3] \in Cells(H) /\ i[4] \in Cells(W) /\ j[4] \in Cells(W)
  BY DEF Cells
<1> DEFINE p(k) == Place(k[1], C, k[2])
           q(k) == Place(p(k), H, k[3])
<1>2. p(i) \in Int /\ p(j) \in Int
  BY <1>1, DigitType
<1>3. q(i) \in Int /\ q(j) \in Int
  BY <1>1, <1>2, DigitType
<1>4. q(i) = q(j) /\ i[4] = j[4]
  BY <1>1, <1>3, Digits DEF Place4
<1>5. p(i) = p(j) /\ i[3] = j[3]
  BY <1>1, <1>2, <1>4, Digits
<1>6. i[1] = j[1] /\ i[2] = j[2]
  BY <1>1, <1>5, Digits
<1> QED
  BY <1>1, <1>4, <1>5, <1>6

LEMMA FourRange ==
  ASSUME NEW B \in Nat, NEW C \in Nat, NEW H \in Nat, NEW W \in Nat,
         NEW i \in Cells(B) \X Cells(C) \X Cells(H) \X Cells(W)
  PROVE  Place4(C, H, W, i) \in Cells(B * C * H * W)
<1> DEFINE p == Place(i[1], C, i[2])
           q == Place(p, H, i[3])
<1>1. B * C \in Nat /\ p \in Cells(B * C)
  BY DigitRange
<1> HIDE DEF p
<1>2. (B * C) * H \in Nat /\ q \in Cells((B * C) * H)
  BY <1>1, DigitRange
<1> HIDE DEF q
<1>3. Place(q, W, i[4]) \in Cells(((B * C) * H) * W)
  BY <1>2, DigitRange
<1> QED
  BY <1>3 DEF p, q, Place4

-----------------------------------------------------------------------------
(* ReorgYolo.                                                              *)

LEMMA ReorgBlocks ==
  ASSUME NEW s \in ReorgNodes
  PROVE  /\ s.stride \in Nat \ {0} /\ ic_off(s) \in Nat \ {0}
         /\ s.IC = (s.stride * s.stride) * ic_off(s)
<1>1. s.IC \in Nat /\ s.stride \in Nat \ {0} /\ s.IC % (s.stride * s.stride) = 0
      /\ s.IC >= s.stride * s.stride
  BY GridAssumption
<1> DEFINE N == s.stride * s.stride
           C == s.IC
           k == C \div N
<1>2. N \in Nat \ {0}
  <2>1. \A t \in Nat \ {0} : t * t \in Nat /\ t * t # 0
    OBVIOUS
  <2> QED
    BY <1>1, <2>1
<1>3. C \in Nat /\ C % N = 0 /\ C >= N
  BY <1>1
<1> HIDE DEF N, C
<1>4. k \in Int /\ C = k * N
  <2>1. k \in Int /\ C = k * N + (C % N)
    BY <1>2, <1>3, DigitParts DEF Place
  <2> HIDE DEF k
  <2> QED
    BY <1>2, <1>3, <2>1
<1> HIDE DEF k
<1>5. k >= 1
  <2>1. ASSUME k <= 0 PROVE FALSE
    <3>1. k * N <= 0 * N
      BY <1>2, <1>4, <2>1
    <3> QED
      BY <1>2, <1>3, <1>4, <3>1
  <2> QED
    BY <1>4, <2>1
<1>6. C = N * k
  BY <1>2, <1>4
<1>7. k = ic_off(s)
  BY DEF k, N, C, ic_off
<1> QED
  BY <1>1, <1>4, <1>5, <1>6, <1>7 DEF N, C

(* The pixel that the place of a block reads in the channel of row u and   *)
(* column v of the block.                                                  *)
LEMMA BlockCell ==
  ASSUME NEW t \in Nat \ {0}, NEW k \in Nat \ {0}, NEW u \in Cells(t), NEW v \in Cells(t),
         NEW oc \in Cells(k)
  PROVE  LET o == Place(u, t, v)
             c == Place(o, k, oc)
         IN  /\ c \in Cells((t * t) * k)
             /\ c \div k = o /\ c % k = oc
             /\ o \div t = u /\ o % t = v
<1> DEFINE o == Place(u, t, v)
<1>1. o \in Int /\ o \div t = u /\ o % t = v
  <2>1. u \in Int /\ t \in Nat
    BY DEF Cells
  <2> QED
    BY <2>1, PartsOf, DigitType
<1>2. t * t \in Nat /\ o \in Cells(t * t)
  BY DigitRange
<1> HIDE DEF o
<1>3. Place(o, k, oc) \in Cells((t * t) * k)
  BY <1>2, DigitRange
<1>4. Place(o, k, oc) \div k = o /\ Place(o, k, oc) % k = oc
  BY <1>1, PartsOf
<1> QED
  BY <1>1, <1>3, <1>4 DEF o

(* Every pixel of the large picture is copied to the one place for it.     *)
LEMMA ReorgGrid ==
  ASSUME NEW s \in ReorgNodes, ReorgYolo(s)
  PROVE  ReorgRight(s)'
<1> DEFINE I == Cells(s.B) \X Cells(s.IC) \X Cells(s.IH) \X Cells(s.IW)
           cell(i) == Place4(s.IC, s.IH, s.IW, i)
           value(i) == [fn |-> "copy", of |-> SrcIndex(s, i[1], i[2], i[3], i[4])]
           size == s.B * s.IC * s.IH * s.IW
           stores == {<<cell(i), value(i)>> : i \in I}
           t == s.stride
           k == ic_off(s)
<1>1. grid' = Stored(Blob(size), stores)
  BY DEF ReorgYolo, Fill, Place4, Place
<1>2. /\ s.B \in Nat /\ s.IC \in Nat /\ s.IH \in Nat /\ s.IW \in Nat
      /\ t \in Nat \ {0} /\ k \in Nat \ {0} /\ s.IC = (t * t) * k
  BY ReorgBlocks, GridAssumption
<1>3. ASSUME NEW b \in Cells(s.B), NEW oc \in Cells(k), NEW y \in Cells(s.IH * t),
             NEW x \in Cells(s.IW * t)
      PROVE  LET channel == ((y % t) * t + (x % t)) * k + oc
                 out == ((b * s.IC + channel) * s.IH + (y \div t)) * s.IW + (x \div t)
                 pixel == ((b * k + oc) * s.IH * t + y) * s.IW * t + x
             IN  grid'[out] = [fn |-> "copy", of |-> pixel]
  <2> DEFINE u == y % t
             v == x % t
             o == Place(u, t, v)
             c == Place(o, k, oc)
             i == <<b, c, y \div t, x \div t>>
             pixel == ((b * k + oc) * s.IH * t + y) * s.IW * t + x
  <2>1. /\ u \in Cells(t) /\ y \div t \in Cells(s.IH) /\ y = (y \div t) * t + u
        /\ v \in Cells(t) /\ x \div t \in Cells(s.IW) /\ x = (x \div t) * t + v
    <3>1. y \in Int /\ x \in Int
      BY DEF Cells
    <3> QED
      BY <1>2, <3>1, PartsRange, DigitParts DEF Place
  <2>2. c \in Cells(s.IC) /\ c \div k = o /\ c % k = oc /\ o \div t = u /\ o % t = v
    <3> HIDE DEF u, v, k, t
    <3> QED
      BY <1>2, <2>1, BlockCell
  <2> HIDE DEF u, v, o, c, k, t
  <2>3. i \in I
    BY <1>2, <2>1, <2>2
  <2>4. SrcIndex(s, b, c, y \div t, x \div t) = pixel
    BY <2>1, <2>2 DEF SrcIndex, t, k
  <2>5. value(i) = [fn |-> "copy", of |-> pixel]
    <3> HIDE DEF pixel
    <3> QED
      BY <2>4
  <2> HIDE DEF pixel, value, i
  <2>6. cell(i) \in DOMAIN Blob(size)
    BY <1>2, <2>3, FourRange DEF Blob
  <2>7. \A p \in stores : p[1] = cell(i) => p[2] = value(i)
    <3>1. ASSUME NEW j \in I, cell(j) = cell(i) PROVE j = i
      BY <1>2, <2>3, <3>1, FourDigits
    <3> HIDE DEF I, cell
    <3> QED
      BY <3>1
  <2>8. <<cell(i), value(i)>> \in stores
    BY <2>3
  <2> HIDE DEF stores, size, cell
  <2>9. grid'[cell(i)] = value(i)
    BY <1>1, <2>6, <2>7, <2>8, StoredOnce
  <2> QED
    BY <2>5, <2>9 DEF cell, Place4, Place, i, c, o, u, v, pixel
<1> QED
  BY <1>3 DEF ReorgRight

-----------------------------------------------------------------------------
(* PriorBox.                                                               *)

Different(r) == \A j, k \in 1..Len(r) : r[j] = r[k] => j = k

LEMMA OneMore ==
  ASSUME NEW A, NEW r \in Seq(A), NEW e \in A, e \notin ToSet(r), Different(r)
  PROVE  LET t == Append(r, e) IN
         /\ t \in Seq(A) /\ Len(t) = Len(r) + 1 /\ Different(t)
         /\ ToSet(t) = ToSet(r) \cup {e}
         /\ \A k \in 1..Len(r) : t[k] = r[k]
<1> DEFINE t == Append(r, e)
           l == Len(r)
<1>1. /\ t \in Seq(A) /\ Len(t) = l + 1 /\ l \in Nat
      /\ \A k \in 1..l : t[k] = r[k]
      /\ t[l + 1] = e
  BY AppendProperties, LenProperties
<1>2. DOMAIN t = 1..(l + 1) /\ DOMAIN r = 1..l
  BY <1>1, LenProperties
<1> HIDE DEF t, l
<1>3. \A k \in 1..(l + 1) : k \in 1..l \/ k = l + 1
  BY <1>1
<1>4. 1..l \subseteq 1..(l + 1) /\ l + 1 \in 1..(l + 1)
  BY <1>1
<1>5. ToSet(t) = {t[k] : k \in 1..(l + 1)} /\ ToSet(r) = {r[k] : k \in 1..l}
  BY <1>2 DEF ToSet
<1>6. ToSet(t) = ToSet(r) \cup {e}
  BY <1>1, <1>3, <1>4, <1>5
<1>7. \A k \in 1..l : t[k] # e
  BY <1>1, <1>5
<1>8. \A j, k \in 1..l : t[j] = t[k] => j = k
  BY <1>1 DEF Different, l
<1>9. Different(t)
  BY <1>1, <1>3, <1>7, <1>8 DEF Different
<1> QED
  BY <1>1, <1>6, <1>9 DEF t, l

Ratios == (Nat \ {0}) \X (Nat \ {0})

(* The ratios that are listed when k have been read.                       *)
Read(s, k) ==
  {s.ratios[j] : j \in 1..k}
  \cup IF s.flip THEN {Flipped(s.ratios[j]) : j \in 1..k} ELSE {}

RatiosListed(s, k, r) ==
  /\ r \in Seq(Ratios) /\ Len(r) >= 1 /\ r[1] = <<1, 1>>
  /\ Different(r)
  /\ ToSet(r) = {<<1, 1>>} \cup Read(s, k)

MoreRatios(s, r, k) ==
  CASE s.ratios[k] \in ToSet(r) -> r
    [] s.ratios[k] \notin ToSet(r) /\ s.flip -> r \o <<s.ratios[k], Flipped(s.ratios[k])>>
    [] s.ratios[k] \notin ToSet(r) /\ ~s.flip -> Append(r, s.ratios[k])

LEMMA ReadMore ==
  ASSUME NEW s, NEW k \in Nat \ {0}
  PROVE  Read(s, k) = Read(s, k - 1) \cup {s.ratios[k]}
                      \cup IF s.flip THEN {Flipped(s.ratios[k])} ELSE {}
<1>1. 1..k = 1..(k - 1) \cup {k}
  OBVIOUS
<1> QED
  BY <1>1 DEF Read

LEMMA RatiosStep ==
  ASSUME NEW s \in PriorNodes, NEW k \in 1..Len(s.ratios), NEW r, RatiosListed(s, k - 1, r)
  PROVE  RatiosListed(s, k, MoreRatios(s, r, k))
<1> DEFINE a == s.ratios[k]
           f == Flipped(a)
<1>1. s.ratios \in Seq(Ratios) /\ s.flip \in BOOLEAN /\ k \in Nat \ {0}
      /\ DOMAIN s.ratios = 1..Len(s.ratios)
  BY GridAssumption, LenProperties DEF Ratios
<1>2. a \in Ratios /\ a = <<a[1], a[2]>> /\ f = <<a[2], a[1]>> /\ f \in Ratios
  BY <1>1, ElementOfSeq DEF Flipped, Ratios
<1>3. a = f => a = <<1, 1>>
  BY <1>1, <1>2, GridAssumption
<1>4. Read(s, k) = Read(s, k - 1) \cup {a} \cup IF s.flip THEN {f} ELSE {}
  BY <1>1, ReadMore
<1>5. r \in Seq(Ratios) /\ Len(r) >= 1 /\ r[1] = <<1, 1>> /\ Different(r)
      /\ ToSet(r) = {<<1, 1>>} \cup Read(s, k - 1) /\ Len(r) \in Nat
  BY LenProperties DEF RatiosListed
<1>6. s.flip => \A x \in ToSet(r) : x \in Ratios => Flipped(x) \in ToSet(r)
  <2> SUFFICES ASSUME s.flip, NEW x \in ToSet(r), x \in Ratios PROVE Flipped(x) \in ToSet(r)
    OBVIOUS
  <2>1. Flipped(<<1, 1>>) = <<1, 1>>
    BY DEF Flipped
  <2>2. ASSUME NEW j \in 1..(k - 1)
        PROVE  /\ Flipped(s.ratios[j]) \in Read(s, k - 1)
               /\ Flipped(Flipped(s.ratios[j])) \in Read(s, k - 1)
    <3>1. s.ratios[j] \in Ratios
      <4>1. j \in 1..Len(s.ratios)
        BY <1>1
      <4> QED
        BY <4>1, <1>1, ElementOfSeq
    <3>2. Flipped(Flipped(s.ratios[j])) = s.ratios[j]
      BY <3>1 DEF Flipped, Ratios
    <3> QED
      BY <3>2 DEF Read
  <2>3. x = <<1, 1>> \/ \E j \in 1..(k - 1) : x = s.ratios[j] \/ x = Flipped(s.ratios[j])
    BY <1>5 DEF Read
  <2> QED
    BY <1>5, <2>1, <2>2, <2>3
<1> DEFINE m == MoreRatios(s, r, k)
<1>7. CASE a \in ToSet(r)
  <2>1. m = r
    BY <1>7 DEF MoreRatios
  <2>2. s.flip => f \in ToSet(r)
    BY <1>2, <1>6, <1>7
  <2>3. ToSet(r) = {<<1, 1>>} \cup Read(s, k)
    BY <1>4, <1>5, <1>7, <2>2
  <2> QED
    BY <1>5, <2>1, <2>3 DEF RatiosListed
<1>8. CASE a \notin ToSet(r) /\ ~s.flip
  <2>1. m = Append(r, a)
    BY <1>8 DEF MoreRatios
  <2> HIDE DEF a, m
  <2>2. /\ m \in Seq(Ratios) /\ Len(m) = Len(r) + 1 /\ Different(m)
        /\ ToSet(m) = ToSet(r) \cup {a} /\ \A j \in 1..Len(r) : m[j] = r[j]
    BY <1>2, <1>5, <1>8, <2>1, OneMore
  <2>3. m[1] = <<1, 1>> /\ Len(m) >= 1
    BY <1>5, <2>2
  <2>4. ToSet(m) = {<<1, 1>>} \cup Read(s, k)
    BY <1>4, <1>5, <1>8, <2>2
  <2> QED
    BY <2>2, <2>3, <2>4 DEF RatiosListed, m
<1>9. CASE a \notin ToSet(r) /\ s.flip
  <2> DEFINE t == Append(r, a)
             w == Append(t, f)
  <2>1. m = r \o <<a, f>>
    BY <1>9 DEF MoreRatios
  <2>2. f \notin ToSet(r) \cup {a}
    <3>1. f \notin ToSet(r)
      <4>1. Flipped(f) = a
        BY <1>2 DEF Flipped
      <4> HIDE DEF a, f
      <4> QED
        BY <1>2, <1>6, <1>9, <4>1
    <3>2. f # a
      BY <1>3, <1>5, <1>9
    <3> QED
      BY <3>1, <3>2
  <2> HIDE DEF a, f, m
  <2>3. /\ t \in Seq(Ratios) /\ Len(t) = Len(r) + 1 /\ Different(t)
        /\ ToSet(t) = ToSet(r) \cup {a} /\ \A j \in 1..Len(r) : t[j] = r[j]
    BY <1>2, <1>5, <1>9, OneMore
  <2>a. t[Len(r) + 1] = a
    BY <1>2, <1>5, AppendProperties
  <2> HIDE DEF t
  <2>4. /\ w \in Seq(Ratios) /\ Len(w) = Len(t) + 1 /\ Different(w)
        /\ ToSet(w) = ToSet(t) \cup {f} /\ \A j \in 1..Len(t) : w[j] = t[j]
    BY <1>2, <2>2, <2>3, OneMore
  <2>b. w[Len(t) + 1] = f
    BY <1>2, <2>3, AppendProperties
  <2> HIDE DEF w
  <2>5. m = w
    <3> DEFINE two == <<a, f>>
    <3>1. two \in Seq(Ratios) /\ Len(two) = 2 /\ two[1] = a /\ two[2] = f
      BY <1>2
    <3> HIDE DEF two
    <3>2. /\ r \o two \in Seq(Ratios) /\ Len(r \o two) = Len(r) + 2
          /\ \A j \in 1..(Len(r) + 2) : (r \o two)[j] = IF j <= Len(r) THEN r[j] ELSE two[j - Len(r)]
      <4>1. r \in Seq(Ratios) /\ two \in Seq(Ratios)
        BY <1>5, <3>1
      <4>2. /\ r \o two \in Seq(Ratios) /\ Len(r \o two) = Len(r) + Len(two)
            /\ \A j \in 1..(Len(r) + Len(two)) :
                 (r \o two)[j] = IF j <= Len(r) THEN r[j] ELSE two[j - Len(r)]
        BY ONLY <4>1, ConcatProperties
      <4> QED
        BY <3>1, <4>2
    <3>3. m = r \o two
      BY <2>1 DEF two
    <3>4. ASSUME NEW j \in 1..(Len(r) + 2) PROVE m[j] = w[j]
      <4>1. j \in 1..Len(r) \/ j = Len(r) + 1 \/ j = Len(r) + 2
        BY <1>5
      <4>2. CASE j \in 1..Len(r)
        <5>1. j \in 1..Len(t) /\ j <= Len(r)
          BY <1>5, <2>3, <4>2
        <5> QED
          BY <2>3, <2>4, <3>2, <3>3, <4>2, <5>1
      <4>3. CASE j = Len(r) + 1
        <5>1. j \in 1..Len(t) /\ ~(j <= Len(r)) /\ j - Len(r) = 1
          BY <1>5, <2>3, <4>3
        <5> QED
          BY <2>a, <2>4, <3>1, <3>2, <3>3, <4>3, <5>1
      <4>4. CASE j = Len(r) + 2
        <5>1. j = Len(t) + 1 /\ ~(j <= Len(r)) /\ j - Len(r) = 2
          BY <1>5, <2>3, <4>4
        <5>2. (r \o two)[j] = two[j - Len(r)]
          BY <3>2, <5>1
        <5>3. m[j] = f
          BY <3>1, <3>3, <5>1, <5>2
        <5> QED
          BY <2>b, <5>1, <5>3
      <4> QED
        BY <4>1, <4>2, <4>3, <4>4
    <3>5. Len(m) = Len(r) + 2 /\ Len(w) = Len(r) + 2 /\ m \in Seq(Ratios)
      BY <1>5, <2>3, <2>4, <3>2, <3>3
    <3> QED
      BY <2>4, <3>4, <3>5, SeqEqual
  <2>6. w[1] = <<1, 1>> /\ Len(w) >= 1
    <3>1. 1 \in 1..Len(r) /\ 1 \in 1..Len(t)
      BY <1>5, <2>3
    <3> QED
      BY <1>5, <2>3, <2>4, <3>1
  <2>7. ToSet(w) = {<<1, 1>>} \cup Read(s, k)
    BY <1>4, <1>5, <1>9, <2>3, <2>4
  <2> QED
    BY <2>4, <2>5, <2>6, <2>7 DEF RatiosListed, m
<1> QED
  BY <1>1, <1>7, <1>8, <1>9

LEMMA MoreRatiosType ==
  ASSUME NEW s \in PriorNodes, NEW k \in 1..Len(s.ratios), NEW r \in Seq(Ratios)
  PROVE  MoreRatios(s, r, k) \in Seq(Ratios)
<1> DEFINE a == s.ratios[k]
           f == Flipped(a)
           two == <<a, f>>
<1>1. s.ratios \in Seq(Ratios) /\ s.flip \in BOOLEAN
  BY GridAssumption DEF Ratios
<1>2. a \in Ratios /\ f \in Ratios
  <2>1. a \in Ratios
    BY <1>1, ElementOfSeq
  <2> QED
    BY <2>1 DEF Flipped, Ratios
<1>3. MoreRatios(s, r, k) \in {r, r \o two, Append(r, a)}
  BY <1>1 DEF MoreRatios
<1> HIDE DEF a, f
<1>4. two \in Seq(Ratios)
  BY <1>2
<1> HIDE DEF two
<1>5. r \o two \in Seq(Ratios)
  BY ONLY <1>4, r \in Seq(Ratios), ConcatProperties
<1>6. Append(r, a) \in Seq(Ratios)
  BY <1>2, AppendProperties
<1> QED
  BY <1>3, <1>5, <1>6

LEMMA RatiosOf ==
  ASSUME NEW s \in PriorNodes
  PROVE  RatiosListed(s, Len(s.ratios), AspectRatios(s))
<1> DEFINE N == Len(s.ratios)
           V == Seq(Ratios)
           v0 == <<<<1, 1>>>>
           More(v, i) == MoreRatios(s, v, i)
           Body(f, i) == IF i = 0 THEN v0 ELSE More(f[i - 1], i)
           list == CHOOSE f : f = [i \in 0..N |-> Body(f, i)]
           step == [x \in V \X (1..N) |-> More(x[1], x[2])]
           good == {i \in 0..N : RatiosListed(s, i, list[i])}
<1>1. N \in Nat /\ v0 \in V
  <2>1. s.ratios \in Seq(Ratios) /\ <<1, 1>> \in Ratios
    BY GridAssumption DEF Ratios
  <2> QED
    BY <2>1, LenProperties
<1>2. \A v \in V, i \in 1..N : More(v, i) \in V
  BY MoreRatiosType
<1>3. AspectRatios(s) = list[N]
  BY DEF AspectRatios, MoreRatios
<1> HIDE DEF V, N, More
<1>4. step \in [V \X (1..N) -> V]
  BY <1>2
<1>5. PICK g \in [0..N -> V] : g[0] = v0 /\ \A i \in 1..N : g[i] = step[<<g[i - 1], i>>]
  <2> HIDE DEF step, v0
  <2>1. \E g \in [0..N -> V] : Runs(v0, N, step, g)
    BY <1>1, <1>4, Iterates, Zenon
  <2> QED
    BY <2>1 DEF Runs
<1>6. \A i \in 1..N : g[i] = More(g[i - 1], i)
  <2> SUFFICES ASSUME NEW i \in 1..N PROVE g[i] = More(g[i - 1], i)
    OBVIOUS
  <2>1. i - 1 \in 0..N
    BY <1>1
  <2>2. <<g[i - 1], i>> \in V \X (1..N)
    BY <1>5, <2>1
  <2>3. step[<<g[i - 1], i>>] = More(g[i - 1], i)
    BY <2>2
  <2> QED
    BY <1>5, <2>3
<1>7. g = [i \in 0..N |-> Body(g, i)]
  <2>1. ASSUME NEW i \in 0..N PROVE g[i] = Body(g, i)
    <3>1. i = 0 \/ i \in 1..N
      BY <1>1
    <3> QED
      BY <1>5, <1>6, <3>1
  <2> HIDE DEF Body
  <2> QED
    BY <1>5, <2>1
<1>8. list = [i \in 0..N |-> Body(list, i)]
  <2> HIDE DEF Body
  <2> QED
    BY <1>7
<1> HIDE DEF list
<1>9. list[0] = v0 /\ \A i \in 1..N : list[i] = More(list[i - 1], i)
  <2>1. 0 \in 0..N /\ \A i \in 1..N : i \in 0..N /\ i # 0
    BY <1>1
  <2>2. \A i \in 0..N : list[i] = Body(list, i)
    <3> HIDE DEF Body
    <3> QED
      BY <1>8
  <2> QED
    BY <2>1, <2>2
<1>10. 0 \in good
  <2>1. 0 \in 0..N /\ 1..0 = {}
    BY <1>1
  <2>2. Read(s, 0) = {}
    BY <2>1 DEF Read
  <2>3. Len(v0) = 1 /\ v0[1] = <<1, 1>> /\ ToSet(v0) = {<<1, 1>>}
    BY DEF ToSet
  <2>4. Different(v0)
    BY <2>3 DEF Different
  <2>5. RatiosListed(s, 0, v0)
    <3> HIDE DEF v0
    <3> QED
      BY <1>1, <2>2, <2>3, <2>4 DEF RatiosListed, V
  <2> QED
    BY <1>9, <2>1, <2>5
<1>11. ASSUME NEW i \in 1..N, i - 1 \in good PROVE i \in good
  <2>1. i \in 0..N /\ RatiosListed(s, i - 1, list[i - 1])
    BY <1>1, <1>11
  <2>2. RatiosListed(s, i, More(list[i - 1], i))
    BY <2>1, RatiosStep DEF More, N
  <2> QED
    BY <1>9, <2>1, <2>2
<1>12. N \in good
  <2>1. N \in 0..N
    BY <1>1
  <2> HIDE DEF good
  <2> QED
    BY <1>1, <1>10, <1>11, <2>1, UpTo
<1> QED
  BY <1>3, <1>12 DEF N

LEMMA Interval ==
  ASSUME NEW a \in Int, NEW b \in Int, a <= b + 1
  PROVE  IsFiniteSet(a..b) /\ Cardinality(a..b) = b - a + 1
<1>1. IsFiniteSet(a..b) /\ Cardinality(a..b) = IF a > b THEN 0 ELSE b - a + 1
  BY FS_Interval
<1> QED
  BY <1>1

LEMMA DisjointUnion ==
  ASSUME NEW S, IsFiniteSet(S), NEW T, IsFiniteSet(T), S \cap T = {}
  PROVE  IsFiniteSet(S \cup T) /\ Cardinality(S \cup T) = Cardinality(S) + Cardinality(T)
<1>1. /\ IsFiniteSet(S \cup T)
      /\ Cardinality(S \cup T) = Cardinality(S) + Cardinality(T) - Cardinality(S \cap T)
  BY FS_Union
<1>2. Cardinality(S \cap T) = 0
  BY FS_EmptySet
<1>3. Cardinality(S) \in Nat /\ Cardinality(T) \in Nat
  BY FS_CardinalityType
<1> QED
  BY <1>1, <1>2, <1>3

(* The boxes of a place, counted by their numbers.                         *)
LEMMA NumbersOfBoxes ==
  ASSUME NEW s \in PriorNodes
  PROVE  LET r == AspectRatios(s)
             squares == (1..s.mins) \X {-1}
             between == ((1..s.mins) \cap (1..s.maxs)) \X {0}
             ratios  == (1..s.mins) \X (2..Len(r))
         IN  /\ BoxNumbers(s) = (squares \cup between) \cup ratios
             /\ IsFiniteSet(BoxNumbers(s)) /\ Cardinality(BoxNumbers(s)) \in Nat
             /\ NumPriors(s) \in Nat /\ Cardinality(BoxNumbers(s)) <= NumPriors(s)
             /\ s.maxs <= s.mins => Cardinality(BoxNumbers(s)) = NumPriors(s)
<1> DEFINE r == AspectRatios(s)
           l == Len(r)
           m == s.mins
           x == IF s.maxs <= m THEN s.maxs ELSE m
           squares == (1..m) \X {-1}
           between == (1..x) \X {0}
           ratios  == (1..m) \X (2..l)
<1>a. m \in Nat /\ s.maxs \in Nat
  BY GridAssumption
<1>b. /\ (1..m) \cap (1..s.maxs) = 1..x /\ \A q \in 1..m : s.maxs >= q <=> x >= q
      /\ x <= s.maxs /\ (s.maxs <= m => x = s.maxs)
  BY <1>a
<1>1. /\ m \in Nat /\ x \in 0..m /\ r \in Seq(Ratios) /\ l \in Nat /\ l >= 1
      /\ r[1] = <<1, 1>> /\ \A j, k \in 1..l : r[j] = r[k] => j = k
  BY <1>a, RatiosOf, LenProperties DEF RatiosListed, Different
<1>2. Numbers(s) = -1..l
  BY DEF Numbers
<1>3. BoxNumbers(s) = {q \in (1..m) \X Numbers(s) :
                         \/ q[2] = -1
                         \/ q[2] = 0 /\ x >= q[1]
                         \/ q[2] > 0 /\ r[q[2]] # <<1, 1>>}
  <2>1. BoxNumbers(s) = {q \in (1..m) \X Numbers(s) :
                           \/ q[2] = -1
                           \/ q[2] = 0 /\ s.maxs >= q[1]
                           \/ q[2] > 0 /\ r[q[2]] # <<1, 1>>}
    BY DEF BoxNumbers
  <2>2. \A q \in (1..m) \X Numbers(s) : s.maxs >= q[1] <=> x >= q[1]
    BY <1>b
  <2> HIDE DEF r, m, x
  <2> QED
    BY <2>1, <2>2
<1> HIDE DEF r, l, m, x
<1>4. ASSUME NEW q
      PROVE  q \in BoxNumbers(s) <=> q \in (squares \cup between) \cup ratios
  <2>1. CASE q \in (1..m) \X (-1..l)
    <3>1. q[1] \in 1..m /\ q[2] \in -1..l /\ q = <<q[1], q[2]>>
      BY <2>1
    <3>2. q[2] > 0 => (r[q[2]] # <<1, 1>> <=> q[2] # 1)
      <4>1. q[2] > 0 => q[2] \in 1..l
        BY <1>1, <3>1
      <4>2. 1 \in 1..l
        BY <1>1
      <4> HIDE DEF squares, between, ratios
      <4> QED
        BY <1>1, <4>1, <4>2
    <3>3. q[2] = -1 \/ q[2] = 0 \/ q[2] > 0
      BY <1>1, <3>1
    <3>4. q \in squares <=> q[2] = -1
      BY <3>1
    <3>5. q \in between <=> q[2] = 0 /\ x >= q[1]
      BY <1>1, <3>1
    <3>6. q \in ratios <=> q[2] > 1
      BY <1>1, <3>1
    <3>7. q \in BoxNumbers(s) <=> \/ q[2] = -1
                                  \/ q[2] = 0 /\ x >= q[1]
                                  \/ q[2] > 0 /\ r[q[2]] # <<1, 1>>
      BY <1>2, <1>3, <2>1
    <3> HIDE DEF squares, between, ratios
    <3> QED
      BY <1>1, <3>1, <3>2, <3>3, <3>4, <3>5, <3>6, <3>7
  <2>2. CASE q \notin (1..m) \X (-1..l)
    <3>1. -1 \in -1..l /\ 0 \in -1..l /\ 2..l \subseteq -1..l /\ 1..x \subseteq 1..m
      BY <1>1
    <3>2. q \notin squares /\ q \notin between /\ q \notin ratios
      BY <2>2, <3>1
    <3> QED
      BY <1>2, <1>3, <2>2, <3>2
  <2> QED
    BY <2>1, <2>2
<1>5. /\ IsFiniteSet(1..m) /\ Cardinality(1..m) = m
      /\ IsFiniteSet(1..x) /\ Cardinality(1..x) = x
      /\ IsFiniteSet(2..l) /\ Cardinality(2..l) = l - 1
  <2>a. /\ 1 \in Int /\ 2 \in Int /\ m \in Int /\ x \in Int /\ l \in Int
        /\ 1 <= m + 1 /\ 1 <= x + 1 /\ 2 <= l + 1
    BY <1>1
  <2>1. IsFiniteSet(1..m) /\ Cardinality(1..m) = m - 1 + 1
    BY <2>a, Interval, Zenon
  <2>2. IsFiniteSet(1..x) /\ Cardinality(1..x) = x - 1 + 1
    BY <2>a, Interval, Zenon
  <2>3. IsFiniteSet(2..l) /\ Cardinality(2..l) = l - 2 + 1
    BY <2>a, Interval, Zenon
  <2> QED
    BY <2>a, <2>1, <2>2, <2>3
<1>6. /\ IsFiniteSet(squares) /\ Cardinality(squares) = m
      /\ IsFiniteSet(between) /\ Cardinality(between) = x
      /\ IsFiniteSet(ratios) /\ Cardinality(ratios) = m * (l - 1)
  <2>1. \A y : IsFiniteSet({y}) /\ Cardinality({y}) = 1
    BY FS_Singleton
  <2>a. \A S, T : IsFiniteSet(S) /\ IsFiniteSet(T) =>
          IsFiniteSet(S \X T) /\ Cardinality(S \X T) = Cardinality(S) * Cardinality(T)
    BY FS_Product
  <2>2. IsFiniteSet(squares) /\ Cardinality(squares) = m * 1
    <3>1. IsFiniteSet(squares) /\ Cardinality(squares) = Cardinality(1..m) * Cardinality({-1})
      BY ONLY <1>5, <2>1, <2>a
    <3>2. Cardinality(1..m) = m /\ Cardinality({-1}) = 1
      BY <1>5, <2>1
    <3> HIDE DEF squares
    <3> QED
      BY <3>1, <3>2
  <2>3. IsFiniteSet(between) /\ Cardinality(between) = x * 1
    <3>1. IsFiniteSet(between) /\ Cardinality(between) = Cardinality(1..x) * Cardinality({0})
      BY ONLY <1>5, <2>1, <2>a
    <3>2. Cardinality(1..x) = x /\ Cardinality({0}) = 1
      BY <1>5, <2>1
    <3> HIDE DEF between
    <3> QED
      BY <3>1, <3>2
  <2>4. IsFiniteSet(ratios) /\ Cardinality(ratios) = m * (l - 1)
    <3>1. IsFiniteSet(ratios) /\ Cardinality(ratios) = Cardinality(1..m) * Cardinality(2..l)
      BY ONLY <1>5, <2>a
    <3>2. Cardinality(1..m) = m /\ Cardinality(2..l) = l - 1
      BY <1>5
    <3> HIDE DEF ratios
    <3> QED
      BY <3>1, <3>2
  <2> QED
    BY <1>1, <2>2, <2>3, <2>4
<1> HIDE DEF squares, between, ratios
<1>7. squares \cap between = {} /\ (squares \cup between) \cap ratios = {}
  <2>1. /\ \A q \in squares : q[2] = -1
        /\ \A q \in between : q[2] = 0
        /\ \A q \in ratios : q[2] >= 2
    BY DEF squares, between, ratios
  <2> QED
    BY <2>1
<1> DEFINE both == squares \cup between
           all == both \cup ratios
<1>8. IsFiniteSet(both) /\ Cardinality(both) = m + x
  <2>1. IsFiniteSet(both) /\ Cardinality(both) = Cardinality(squares) + Cardinality(between)
    BY <1>6, <1>7, DisjointUnion
  <2> HIDE DEF both
  <2> QED
    BY <1>6, <2>1
<1>9. both \cap ratios = {}
  BY <1>7
<1> HIDE DEF both
<1>10. IsFiniteSet(all) /\ Cardinality(all) = (m + x) + m * (l - 1)
  <2>1. IsFiniteSet(all) /\ Cardinality(all) = Cardinality(both) + Cardinality(ratios)
    BY <1>6, <1>8, <1>9, DisjointUnion
  <2>2. m * (l - 1) \in Int /\ m + x \in Int
    BY <1>1
  <2> QED
    BY <1>6, <1>8, <2>1, <2>2
<1>11. BoxNumbers(s) = all
  BY <1>4 DEF both
<1>12. (m + x) + m * (l - 1) = l * m + x /\ l * m + x \in Nat
  BY <1>1
<1>13. NumPriors(s) = l * m + s.maxs
  BY DEF NumPriors, l, m, r
<1>14. /\ Cardinality(all) \in Nat /\ NumPriors(s) \in Nat /\ Cardinality(all) <= NumPriors(s)
       /\ s.maxs <= s.mins => Cardinality(all) = NumPriors(s)
  <2>1. l * m \in Nat
    BY <1>1
  <2>2. PICK y \in Nat : y = l * m
    BY <2>1
  <2>3. Cardinality(all) = y + x /\ NumPriors(s) = y + s.maxs
    BY <1>10, <1>12, <1>13, <2>2
  <2>4. x \in Nat /\ s.maxs \in Nat /\ x <= s.maxs /\ (s.maxs <= s.mins => x = s.maxs)
    BY <1>1, <1>a, <1>b DEF m
  <2> HIDE DEF all
  <2> QED
    BY <2>3, <2>4
<1>15. between = ((1..s.mins) \cap (1..s.maxs)) \X {0}
  BY <1>b DEF between, m
<1> QED
  BY <1>10, <1>11, <1>14, <1>15 DEF all, both, squares, ratios, r, l, m

(* A number stands for a box of its own, and every box that is wanted has  *)
(* a number.                                                               *)
LEMMA BoxesByNumber ==
  ASSUME NEW s \in PriorNodes
  PROVE  /\ \A q \in BoxNumbers(s) : BoxOf(s, q) \in BoxesWanted(s)
         /\ \A p, q \in BoxNumbers(s) : BoxOf(s, p) = BoxOf(s, q) => p = q
         /\ \A box \in BoxesWanted(s) : \E q \in BoxNumbers(s) : BoxOf(s, q) = box
<1> DEFINE r == AspectRatios(s)
           l == Len(r)
           given == ToSet(s.ratios)
                    \cup IF s.flip THEN {Flipped(ar) : ar \in ToSet(s.ratios)} ELSE {}
           squares == (1..s.mins) \X {-1}
           betweens == (1..s.mins) \cap (1..s.maxs)
           between == betweens \X {0}
           ratios  == (1..s.mins) \X (2..l)
<1>1. /\ r \in Seq(Ratios) /\ l \in Nat /\ l >= 1 /\ DOMAIN r = 1..l
      /\ r[1] = <<1, 1>> /\ \A j, k \in 1..l : r[j] = r[k] => j = k
      /\ ToSet(r) = {<<1, 1>>} \cup Read(s, Len(s.ratios))
  BY RatiosOf, LenProperties DEF RatiosListed, Different
<1>2. given = Read(s, Len(s.ratios))
  <2>1. DOMAIN s.ratios = 1..Len(s.ratios)
    BY GridAssumption, LenProperties
  <2> QED
    BY <2>1 DEF Read, ToSet
<1>3. given \ {<<1, 1>>} = {r[j] : j \in 2..l}
  <2>1. ToSet(r) = {r[j] : j \in 1..l}
    BY <1>1 DEF ToSet
  <2>2. \A j \in 1..l : r[j] # <<1, 1>> <=> j \in 2..l
    BY <1>1
  <2>3. 2..l \subseteq 1..l
    BY <1>1
  <2> HIDE DEF r, l, given
  <2>4. given \ {<<1, 1>>} = {x \in ToSet(r) : x # <<1, 1>>}
    BY <1>1, <1>2
  <2> QED
    BY <2>1, <2>2, <2>3, <2>4
<1>4. BoxNumbers(s) = (squares \cup between) \cup ratios
  BY NumbersOfBoxes
<1>5. BoxesWanted(s) =
        ({[min |-> m, kind |-> "square"] : m \in 1..s.mins}
         \cup {[min |-> m, kind |-> "between"] : m \in betweens})
        \cup {[min |-> m, kind |-> "ratio", ratio |-> ar] :
                m \in 1..s.mins, ar \in given \ {<<1, 1>>}}
  BY DEF BoxesWanted
<1> HIDE DEF given
<1>6. \A q \in BoxNumbers(s) :
        \/ q \in squares /\ q[2] = -1 /\ BoxOf(s, q) = [min |-> q[1], kind |-> "square"]
        \/ q \in between /\ q[2] = 0 /\ BoxOf(s, q) = [min |-> q[1], kind |-> "between"]
        \/ q \in ratios /\ q[2] \in 2..l
           /\ BoxOf(s, q) = [min |-> q[1], kind |-> "ratio", ratio |-> r[q[2]]]
  <2> SUFFICES ASSUME NEW q \in BoxNumbers(s)
               PROVE  \/ q \in squares /\ q[2] = -1
                         /\ BoxOf(s, q) = [min |-> q[1], kind |-> "square"]
                      \/ q \in between /\ q[2] = 0
                         /\ BoxOf(s, q) = [min |-> q[1], kind |-> "between"]
                      \/ q \in ratios /\ q[2] \in 2..l
                         /\ BoxOf(s, q) = [min |-> q[1], kind |-> "ratio", ratio |-> r[q[2]]]
    OBVIOUS
  <2> HIDE DEF r, l
  <2>1. q \in squares => q[2] = -1
    OBVIOUS
  <2>2. q \in between => q[2] = 0
    OBVIOUS
  <2>3. q \in ratios => q[2] \in 2..l /\ q[2] > 0
    BY <1>1
  <2>4. q \in squares \/ q \in between \/ q \in ratios
    BY <1>4
  <2> HIDE DEF squares, between, ratios
  <2>5. CASE q \in squares
    BY <2>1, <2>5 DEF BoxOf
  <2>6. CASE q \in between
    BY <2>2, <2>6 DEF BoxOf
  <2>7. CASE q \in ratios
    <3>1. q[2] > 0 /\ q[2] # -1 /\ q[2] # 0
      BY <1>1, <2>3, <2>7
    <3> QED
      BY <2>3, <2>7, <3>1 DEF BoxOf, r
  <2> QED
    BY <2>4, <2>5, <2>6, <2>7
<1>7. ASSUME NEW q \in BoxNumbers(s) PROVE BoxOf(s, q) \in BoxesWanted(s)
  <2> HIDE DEF r, l
  <2>1. CASE q \in squares /\ BoxOf(s, q) = [min |-> q[1], kind |-> "square"]
    BY <1>5, <2>1
  <2>2. CASE q \in between /\ BoxOf(s, q) = [min |-> q[1], kind |-> "between"]
    BY <1>5, <2>2
  <2>3. CASE q \in ratios /\ BoxOf(s, q) = [min |-> q[1], kind |-> "ratio", ratio |-> r[q[2]]]
    <3>1. q[1] \in 1..s.mins /\ r[q[2]] \in given \ {<<1, 1>>}
      BY <1>3, <2>3
    <3> HIDE DEF ratios
    <3>2. BoxOf(s, q) \in {[min |-> m, kind |-> "ratio", ratio |-> ar] :
                             m \in 1..s.mins, ar \in given \ {<<1, 1>>}}
      BY <2>3, <3>1
    <3> QED
      BY <1>5, <3>2
  <2> QED
    BY <1>6, <2>1, <2>2, <2>3
<1>8. ASSUME NEW p \in BoxNumbers(s), NEW q \in BoxNumbers(s), BoxOf(s, p) = BoxOf(s, q)
      PROVE  p = q
  <2> DEFINE Named(x) ==
        \/ x[2] = -1 /\ BoxOf(s, x).kind = "square"
        \/ x[2] = 0 /\ BoxOf(s, x).kind = "between"
        \/ /\ x[2] \in 2..l
           /\ BoxOf(s, x).kind = "ratio" /\ BoxOf(s, x).ratio = r[x[2]]
  <2>1. ASSUME NEW x \in BoxNumbers(s)
        PROVE  x = <<x[1], x[2]>> /\ BoxOf(s, x).min = x[1] /\ Named(x)
    <3> HIDE DEF r, l
    <3>1. x = <<x[1], x[2]>>
      BY <1>4
    <3>2. BoxOf(s, x).min = x[1] /\ Named(x)
      <4> HIDE DEF squares, between, ratios
      <4> QED
        BY <1>6, <2>1
    <3> QED
      BY <3>1, <3>2
  <2>2. p[1] = q[1]
    BY <1>8, <2>1
  <2>3. Named(p) /\ Named(q)
    BY <2>1
  <2>4. p[2] = q[2]
    <3>1. 2..l \subseteq 1..l
      BY <1>1
    <3> HIDE DEF r, l
    <3> QED
      BY <1>1, <1>8, <2>3, <3>1
  <2> QED
    BY <2>1, <2>2, <2>4
<1>9. ASSUME NEW box \in BoxesWanted(s) PROVE \E q \in BoxNumbers(s) : BoxOf(s, q) = box
  <2>1. CASE box \in {[min |-> m, kind |-> "square"] : m \in 1..s.mins}
    <3>1. PICK m \in 1..s.mins : box = [min |-> m, kind |-> "square"]
      BY <2>1
    <3>2. <<m, -1>> \in BoxNumbers(s) /\ <<m, -1>>[1] = m /\ <<m, -1>>[2] = -1
      BY <1>4
    <3>3. BoxOf(s, <<m, -1>>) = box
      BY <3>1, <3>2 DEF BoxOf
    <3> QED
      BY <3>2, <3>3
  <2>2. CASE box \in {[min |-> m, kind |-> "between"] : m \in betweens}
    <3>1. PICK m \in betweens : box = [min |-> m, kind |-> "between"]
      BY <2>2
    <3>2. <<m, 0>> \in BoxNumbers(s) /\ <<m, 0>>[1] = m /\ <<m, 0>>[2] = 0
      BY <1>4
    <3>3. BoxOf(s, <<m, 0>>) = box
      BY <3>1, <3>2 DEF BoxOf
    <3> QED
      BY <3>2, <3>3
  <2>3. CASE box \in {[min |-> m, kind |-> "ratio", ratio |-> ar] :
                        m \in 1..s.mins, ar \in given \ {<<1, 1>>}}
    <3>1. PICK m \in 1..s.mins, ar \in given \ {<<1, 1>>} :
            box = [min |-> m, kind |-> "ratio", ratio |-> ar]
      BY <2>3
    <3>2. PICK j \in 2..l : ar = r[j]
      <4> HIDE DEF r, l
      <4> QED
        BY <1>3
    <3> DEFINE q == <<m, j>>
    <3>3. q \in BoxNumbers(s) /\ q[1] = m /\ q[2] = j /\ j > 0 /\ j # 0 /\ j # -1
      <4> HIDE DEF r, l
      <4> QED
        BY <1>1, <1>4
    <3> HIDE DEF q, l
    <3>4. BoxOf(s, q) = [min |-> q[1], kind |-> "ratio", ratio |-> AspectRatios(s)[q[2]]]
      BY <3>3 DEF BoxOf
    <3>5. BoxOf(s, q) = box
      BY <3>1, <3>2, <3>3, <3>4
    <3> QED
      BY <3>3, <3>5
  <2> QED
    BY <1>5, <2>1, <2>2, <2>3
<1> QED
  BY <1>7, <1>8, <1>9

(* The boxes are written in the order of their numbers, each of them once. *)
LEMMA PlaceOfBoxes ==
  ASSUME NEW s \in PriorNodes
  PROVE  /\ Len(PlaceBoxes(s)) \in Nat /\ Cardinality(BoxesWanted(s)) = Len(PlaceBoxes(s))
         /\ NumPriors(s) \in Nat /\ Len(PlaceBoxes(s)) <= NumPriors(s)
         /\ s.maxs <= s.mins => Len(PlaceBoxes(s)) = NumPriors(s)
         /\ \A box \in BoxesWanted(s) : \E k \in 1..Len(PlaceBoxes(s)) : PlaceBoxes(s)[k] = box
<1> DEFINE Q == BoxNumbers(s)
           T == BoxesWanted(s)
           N == Cardinality(Q)
           written == Ranked(Q, BoxOrder)
           place == PlaceBoxes(s)
           f == [q \in Q |-> BoxOf(s, q)]
<1>1. /\ IsFiniteSet(Q) /\ Cardinality(Q) = N /\ N \in Nat
      /\ NumPriors(s) \in Nat /\ N <= NumPriors(s) /\ (s.maxs <= s.mins => N = NumPriors(s))
  BY NumbersOfBoxes
<1>2. Q \subseteq Nat \X Int
  <2>1. s.mins \in Nat /\ Len(AspectRatios(s)) \in Nat
    BY GridAssumption, RatiosOf, LenProperties DEF RatiosListed
  <2> QED
    BY <2>1 DEF BoxNumbers, Numbers
<1>3. StrictOrder(Q, BoxOrder)
  <2>1. \A x, y \in Nat \X Int :
          <<x, y>> \in BoxOrder <=> x[1] < y[1] \/ (x[1] = y[1] /\ x[2] < y[2])
    BY DEF BoxOrder
  <2>2. \A x \in Nat \X Int : x = <<x[1], x[2]>> /\ x[1] \in Nat /\ x[2] \in Int
    OBVIOUS
  <2>3. StrictOrder(Nat \X Int, BoxOrder)
    <3>1. \A x \in Nat \X Int : <<x, x>> \notin BoxOrder
      BY <2>1, <2>2
    <3>2. \A x, y, z \in Nat \X Int :
            <<x, y>> \in BoxOrder /\ <<y, z>> \in BoxOrder => <<x, z>> \in BoxOrder
      <4> SUFFICES ASSUME NEW x \in Nat \X Int, NEW y \in Nat \X Int, NEW z \in Nat \X Int,
                          <<x, y>> \in BoxOrder, <<y, z>> \in BoxOrder
                   PROVE  <<x, z>> \in BoxOrder
        OBVIOUS
      <4>1. /\ x[1] \in Int /\ y[1] \in Int /\ z[1] \in Int
            /\ x[2] \in Int /\ y[2] \in Int /\ z[2] \in Int
        BY <2>2
      <4>2. x[1] < y[1] \/ (x[1] = y[1] /\ x[2] < y[2])
        BY <2>1
      <4>3. y[1] < z[1] \/ (y[1] = z[1] /\ y[2] < z[2])
        BY <2>1
      <4>4. x[1] < z[1] \/ (x[1] = z[1] /\ x[2] < z[2])
        BY ONLY <4>1, <4>2, <4>3
      <4> QED
        BY <2>1, <4>4
    <3>3. \A x, y \in Nat \X Int : x = y \/ <<x, y>> \in BoxOrder \/ <<y, x>> \in BoxOrder
      <4> SUFFICES ASSUME NEW x \in Nat \X Int, NEW y \in Nat \X Int
                   PROVE  x = y \/ <<x, y>> \in BoxOrder \/ <<y, x>> \in BoxOrder
        OBVIOUS
      <4>1. /\ x[1] \in Int /\ y[1] \in Int /\ x[2] \in Int /\ y[2] \in Int
            /\ x = <<x[1], x[2]>> /\ y = <<y[1], y[2]>>
        BY <2>2
      <4>2. \/ x[1] = y[1] /\ x[2] = y[2]
            \/ x[1] < y[1] \/ (x[1] = y[1] /\ x[2] < y[2])
            \/ y[1] < x[1] \/ (y[1] = x[1] /\ y[2] < x[2])
        BY ONLY <4>1
      <4> QED
        BY <2>1, <4>1, <4>2
    <3> QED
      BY <3>1, <3>2, <3>3 DEF StrictOrder
  <2> HIDE DEF Q
  <2> QED
    BY <1>2, <2>3 DEF StrictOrder
<1>4. /\ f \in [Q -> T] /\ \A x, y \in Q : f[x] = f[y] => x = y
      /\ \A y \in T : \E x \in Q : f[x] = y
  BY BoxesByNumber
<1>5. place = [k \in 1..N |-> BoxOf(s, written[k])]
  BY <1>1 DEF PlaceBoxes
<1> HIDE DEF Q, T, N, place, f
<1>6. Cardinality(T) = N
  BY <1>1, <1>4, OneToOne, ZenonT(40)
<1>7. /\ written \in [1..N -> Q] /\ \A x \in Q : \E k \in 1..N : written[k] = x
  BY <1>1, <1>3, RankedList
<1> HIDE DEF written
<1>8. ASSUME NEW box \in T PROVE \E k \in 1..N : place[k] = box
  <2>1. PICK q \in Q : BoxOf(s, q) = box
    BY <1>4 DEF f
  <2>2. PICK k \in 1..N : written[k] = q
    BY <1>7
  <2> QED
    BY <1>5, <2>1, <2>2
<1>9. Len(place) = N
  BY <1>1, <1>5
<1> QED
  BY <1>1, <1>6, <1>8, <1>9 DEF T, place

(* v values for each of num priors at each place of a picture, from a cell *)
(* of a blob on.                                                           *)
PriorCells(H, W, num, v) == Cells(H) \X Cells(W) \X Cells(num) \X Cells(v)

PriorCell(from, W, num, v, i) == from + Place4(W, num, v, i)

Fills(stores, from, H, W, num, v, value) ==
  /\ \A i \in PriorCells(H, W, num, v) : <<PriorCell(from, W, num, v, i), value[i]>> \in stores
  /\ \A p \in stores : \E i \in PriorCells(H, W, num, v) :
       p = <<PriorCell(from, W, num, v, i), value[i]>>

LEMMA RoomGrows ==
  ASSUME NEW H \in Nat, NEW W \in Nat, NEW m \in Nat, NEW N \in Nat, m <= N,
         NEW v \in Nat, NEW u \in Nat, v <= u
  PROVE  H * W * m * v \in Nat /\ H * W * N * u \in Nat /\ H * W * m * v <= H * W * N * u
<1> DEFINE x == H * W
<1>1. x \in Nat
  OBVIOUS
<1> HIDE DEF x
<1>2. \A a \in Nat, b \in Nat, c \in Nat : b <= c => a * b \in Nat /\ a * c \in Nat /\ a * b <= a * c
  <2> SUFFICES ASSUME NEW a \in Nat, NEW b \in Nat, NEW c \in Nat, b <= c
               PROVE  a * b \in Nat /\ a * c \in Nat /\ a * b <= a * c
    OBVIOUS
  <2>1. PICK d \in Nat : d = c - b
    OBVIOUS
  <2>2. a * c = a * b + a * d /\ a * d \in Nat /\ a * b \in Nat
    BY <2>1
  <2> QED
    BY <2>2
<1>3. x * m \in Nat /\ x * N \in Nat /\ x * m <= x * N
  BY <1>1, <1>2
<1> DEFINE y == x * m
           z == x * N
<1>4. y \in Nat /\ z \in Nat /\ y <= z
  BY <1>3
<1> HIDE DEF y, z
<1>5. y * v \in Nat /\ y * u \in Nat /\ y * v <= y * u
  BY <1>2, <1>4
<1>6. u * y <= u * z /\ z * u \in Nat /\ u * y = y * u /\ u * z = z * u
  BY <1>2, <1>4
<1>7. y * v <= z * u
  BY <1>5, <1>6
<1> QED
  BY <1>5, <1>6, <1>7 DEF x, y, z

(* A part of a blob.                                                       *)
Part(from, room) == from..(from + room - 1)
PartOf(from, room, size) == from \in Nat /\ room \in Nat /\ size \in Nat /\ from + room <= size

LEMMA PartFilled ==
  ASSUME NEW H \in Nat, NEW W \in Nat, NEW num \in Nat, NEW v \in Nat,
         NEW from, NEW room, room = H * W * num * v, NEW size, PartOf(from, room, size),
         NEW blob, DOMAIN blob = Cells(size),
         NEW value, NEW stores, Fills(stores, from, H, W, num, v, value)
  PROVE  /\ \A i \in PriorCells(H, W, num, v) :
              /\ PriorCell(from, W, num, v, i) \in Part(from, room)
              /\ Stored(blob, stores)[PriorCell(from, W, num, v, i)] = value[i]
         /\ \A d \in Cells(size) :
              d \notin Part(from, room) => Stored(blob, stores)[d] = blob[d]
<1> DEFINE I == PriorCells(H, W, num, v)
           P(i) == Place4(W, num, v, i)
           C(i) == PriorCell(from, W, num, v, i)
<1>1. room \in Nat /\ from \in Nat /\ size \in Nat /\ from + room <= size
  BY DEF PartOf
<1>2. \A i \in I : P(i) \in Cells(room)
  BY FourRange DEF PriorCells
<1>3. \A i, j \in I : P(i) = P(j) => i = j
  BY FourDigits DEF PriorCells
<1>4. /\ \A i \in I : <<C(i), value[i]>> \in stores
      /\ \A p \in stores : \E i \in I : p = <<C(i), value[i]>>
  BY DEF Fills
<1>5. \A i \in I : C(i) = from + P(i)
  BY DEF PriorCell
<1> HIDE DEF I, P, C
<1>6. \A i \in I : P(i) \in Int /\ 0 <= P(i) /\ P(i) < room
  BY <1>1, <1>2 DEF Cells
<1>7. \A i \in I : C(i) \in DOMAIN blob /\ C(i) \in Part(from, room)
  BY <1>1, <1>5, <1>6 DEF Cells, Part
<1>8. \A i, j \in I : C(i) = C(j) => i = j
  BY <1>1, <1>3, <1>5, <1>6
<1>9. ASSUME NEW i \in I PROVE Stored(blob, stores)[C(i)] = value[i]
  <2>1. \A p \in stores : p[1] = C(i) => p[2] = value[i]
    BY <1>4, <1>8
  <2> DEFINE d == C(i)
             w == value[i]
  <2>2. d \in DOMAIN blob /\ <<d, w>> \in stores /\ \A p \in stores : p[1] = d => p[2] = w
    BY <1>4, <1>7, <2>1
  <2> HIDE DEF d, w
  <2>3. Stored(blob, stores)[d] = w
    BY ONLY <2>2, StoredOnce
  <2> QED
    BY <2>3 DEF d, w
<1>10. ASSUME NEW d \in Cells(size), d \notin Part(from, room)
       PROVE  Stored(blob, stores)[d] = blob[d]
  <2>1. d \in DOMAIN blob
    OBVIOUS
  <2>2. \A i \in I : C(i) # d
    BY <1>7, <1>10
  <2>3. \A p \in stores : p[1] # d
    BY <1>4, <2>2
  <2> QED
    BY <2>1, <2>3, StoredElsewhere
<1> QED
  BY <1>7, <1>9, <1>10 DEF I, C

(* The cell of a value as it is reckoned from the numbers of its place.    *)
Reckoned(W, num, v, h, w, k, e) == ((h * W + w) * num + k) * v + e

LEMMA CellReckoned ==
  ASSUME NEW H \in Nat, NEW W \in Nat, NEW num \in Nat, NEW v \in Nat,
         NEW h \in Cells(H), NEW w \in Cells(W), NEW k \in Cells(num), NEW e \in Cells(v)
  PROVE  /\ Reckoned(W, num, v, h, w, k, e) = Place4(W, num, v, <<h, w, k, e>>)
         /\ Reckoned(W, num, v, h, w, k, e) \in Int
         /\ e \in Int
         /\ <<h, w, k, e>> \in PriorCells(H, W, num, v)
<1> DEFINE x == Place(Place(h, W, w), num, k)
<1>1. x \in Int
  <2>1. h \in Int
    BY DEF Cells
  <2>2. Place(h, W, w) \in Int
    BY <2>1, DigitType
  <2> QED
    BY <2>2, DigitType
<1>2. ((h * W + w) * num + k) * v = x * v
  BY DEF Place
<1>3. Place4(W, num, v, <<h, w, k, e>>) = x * v + e
  BY DEF Place4, Place
<1>4. e \in Int /\ x * v \in Int
  <2> HIDE DEF x
  <2> QED
    BY <1>1 DEF Cells
<1> DEFINE y == x * v
<1>5. y + e \in Int
  <2> HIDE DEF x, y
  <2> QED
    BY <1>4 DEF y
<1> QED
  BY <1>2, <1>3, <1>4, <1>5 DEF PriorCells, Reckoned

(* What DetectionOutput reads of priors and variances.                     *)
LEMMA BoxesFound ==
  ASSUME NEW s, s.H \in Nat, s.W \in Nat, NEW wanted, NEW num \in Nat, Cardinality(wanted) = num,
         NEW place, \A box \in wanted : \E k \in Cells(num) : place[k] = box,
         \A i \in PriorCells(s.H, s.W, num, 4) :
           grid'[PriorCell(0, s.W, num, 4, i)]
             = [fn |-> "box", at |-> <<i[1], i[2]>>, box |-> place[i[3]], edge |-> i[4]]
  PROVE  BoxesAt(s, wanted)'
<1> DEFINE cell(h, w, k, e) == ((h * s.W + w) * num + k) * 4 + e
<1>1. ASSUME NEW h \in Cells(s.H), NEW w \in Cells(s.W), NEW k \in Cells(num), NEW e \in Cells(4)
      PROVE  grid'[cell(h, w, k, e)]
               = [fn |-> "box", at |-> <<h, w>>, box |-> place[k], edge |-> e]
  <2> DEFINE i == <<h, w, k, e>>
  <2>1. i[1] = h /\ i[2] = w /\ i[3] = k /\ i[4] = e
    OBVIOUS
  <2>2. i \in PriorCells(s.H, s.W, num, 4) /\ cell(h, w, k, e) = PriorCell(0, s.W, num, 4, i)
    <3>1. /\ i \in PriorCells(s.H, s.W, num, 4)
          /\ Reckoned(s.W, num, 4, h, w, k, e) = Place4(s.W, num, 4, i)
          /\ Reckoned(s.W, num, 4, h, w, k, e) \in Int
      <4>1. 4 \in Nat
        OBVIOUS
      <4> QED
        BY <4>1, CellReckoned
    <3>2. cell(h, w, k, e) = Reckoned(s.W, num, 4, h, w, k, e)
      BY DEF Reckoned
    <3> HIDE DEF i, cell
    <3> QED
      BY <3>1, <3>2 DEF PriorCell
  <2> HIDE DEF i, cell
  <2> QED
    BY <2>1, <2>2
<1> HIDE DEF cell
<1>2. ASSUME NEW h \in Cells(s.H), NEW w \in Cells(s.W), NEW box \in wanted
      PROVE  \E k \in Cells(num) : \A e \in Cells(4) :
               grid'[cell(h, w, k, e)] = [fn |-> "box", at |-> <<h, w>>, box |-> box, edge |-> e]
  <2>1. PICK k \in Cells(num) : place[k] = box
    OBVIOUS
  <2> QED
    BY <1>1, <2>1
<1> QED
  BY <1>2 DEF BoxesAt, cell

LEMMA VariancesFound ==
  ASSUME NEW s, s.H \in Nat, s.W \in Nat, NEW num \in Nat, NEW v \in Nat, NEW variance,
         NEW half, half = s.H * s.W * num * 4,
         \A i \in PriorCells(s.H, s.W, num, v) :
           grid'[PriorCell(half, s.W, num, v, i)] = [fn |-> "variance", of |-> variance[i[4]]],
         \A d \in Cells(2 * half) : d >= half + s.H * s.W * num * v => grid'[d] = Old
  PROVE  VariancesAt(s, num, v, variance)'
<1> DEFINE cell(h, w, k, e) == half + ((h * s.W + w) * num + k) * v + e
<1>1. ASSUME NEW h \in Cells(s.H), NEW w \in Cells(s.W), NEW k \in Cells(num), NEW e \in Cells(v)
      PROVE  grid'[cell(h, w, k, e)] = [fn |-> "variance", of |-> variance[e]]
  <2> DEFINE i == <<h, w, k, e>>
  <2>1. i[4] = e
    OBVIOUS
  <2>2. i \in PriorCells(s.H, s.W, num, v) /\ cell(h, w, k, e) = PriorCell(half, s.W, num, v, i)
    <3>1. /\ i \in PriorCells(s.H, s.W, num, v)
          /\ Reckoned(s.W, num, v, h, w, k, e) = Place4(s.W, num, v, i)
          /\ e \in Int
      <4>1. s.H \in Nat /\ s.W \in Nat
        OBVIOUS
      <4> QED
        BY ONLY <4>1, num \in Nat, v \in Nat, h \in Cells(s.H), w \in Cells(s.W),
                k \in Cells(num), e \in Cells(v), CellReckoned DEF i
    <3>2. half \in Nat
      <4>1. 4 \in Nat /\ num <= num /\ 4 <= 4
        OBVIOUS
      <4> QED
        BY <4>1, RoomGrows
    <3> DEFINE y == ((h * s.W + w) * num + k) * v
    <3>3. cell(h, w, k, e) = half + y + e /\ Reckoned(s.W, num, v, h, w, k, e) = y + e
      BY DEF Reckoned
    <3>4. y \in Int
      <4>1. h \in Int /\ w \in Int /\ k \in Int
        BY DEF Cells
      <4>2. h * s.W + w \in Int
        BY <4>1
      <4> DEFINE a == h * s.W + w
      <4> HIDE DEF a
      <4>3. a * num + k \in Int
        BY <4>1, <4>2 DEF a
      <4> DEFINE b == a * num + k
      <4> HIDE DEF b
      <4> QED
        BY <4>3 DEF a, b
    <3> HIDE DEF i, cell, y
    <3>5. half + y + e = half + (y + e)
      BY <3>1, <3>2, <3>4
    <3> QED
      BY <3>1, <3>3, <3>5 DEF PriorCell
  <2> HIDE DEF i, cell
  <2> QED
    BY <2>1, <2>2
<1> HIDE DEF cell
<1>2. \A h \in Cells(s.H), w \in Cells(s.W), k \in Cells(num), e \in Cells(v) :
        grid'[cell(h, w, k, e)] = [fn |-> "variance", of |-> variance[e]]
  BY <1>1
<1> QED
  BY <1>2 DEF VariancesAt, cell

(* The iterations of loops over places, then priors, then their values.    *)
Placed(H, W, num, v) == (Cells(H) \X Cells(W)) \X Cells(num) \X Cells(v)
Flat(j) == <<j[1][1], j[1][2], j[2], j[3]>>

LEMMA FlatCell ==
  ASSUME NEW H, NEW W, NEW num, NEW v, NEW j \in Placed(H, W, num, v)
  PROVE  /\ Flat(j) \in PriorCells(H, W, num, v)
         /\ Flat(j)[1] = j[1][1] /\ Flat(j)[2] = j[1][2] /\ Flat(j)[3] = j[2] /\ Flat(j)[4] = j[3]
         /\ j[1][1] \in Int /\ j[1][2] \in Int /\ j[2] \in Int /\ j[3] \in Int
         /\ j[1] = <<j[1][1], j[1][2]>> /\ j = <<j[1], j[2], j[3]>>
<1>1. j[1] \in Cells(H) \X Cells(W) /\ j[2] \in Cells(num) /\ j[3] \in Cells(v)
      /\ j = <<j[1], j[2], j[3]>>
  BY DEF Placed
<1>2. j[1] = <<j[1][1], j[1][2]>> /\ j[1][1] \in Cells(H) /\ j[1][2] \in Cells(W)
  BY <1>1
<1>3. \A m, x : x \in Cells(m) => x \in Int
  BY DEF Cells
<1> QED
  BY <1>1, <1>2, <1>3 DEF Flat, PriorCells

LEMMA FillsPlaced ==
  ASSUME NEW H \in Nat, NEW W \in Nat, NEW num \in Nat, NEW v \in Nat, NEW from \in Int,
         NEW value, NEW c, NEW x,
         \A j \in Placed(H, W, num, v) :
           c[j] = PriorCell(from, W, num, v, Flat(j)) /\ x[j] = value[Flat(j)]
  PROVE  Fills({<<c[j], x[j]>> : j \in Placed(H, W, num, v)}, from, H, W, num, v, value)
<1> DEFINE J == Placed(H, W, num, v)
           I == PriorCells(H, W, num, v)
<1>1. \A j \in J : Flat(j) \in I
  BY FlatCell
<1>2. \A i \in I : \E j \in J : Flat(j) = i
  <2> SUFFICES ASSUME NEW i \in I PROVE \E j \in J : Flat(j) = i
    OBVIOUS
  <2> DEFINE j == <<<<i[1], i[2]>>, i[3], i[4]>>
  <2>1. i = <<i[1], i[2], i[3], i[4]>> /\ j \in J
    BY DEF PriorCells, Placed
  <2>2. Flat(j) = i
    BY <2>1 DEF Flat
  <2> QED
    BY <2>1, <2>2
<1> HIDE DEF J, I
<1>3. \A j \in J : c[j] = PriorCell(from, W, num, v, Flat(j)) /\ x[j] = value[Flat(j)]
  BY DEF J
<1> DEFINE stores == {<<c[j], x[j]>> : j \in J}
<1>4. ASSUME NEW i \in I PROVE <<PriorCell(from, W, num, v, i), value[i]>> \in stores
  <2>1. PICK j \in J : Flat(j) = i
    BY <1>2
  <2> QED
    BY <1>3, <2>1
<1>5. ASSUME NEW p \in stores
      PROVE  \E i \in I : p = <<PriorCell(from, W, num, v, i), value[i]>>
  <2>1. PICK j \in J : p = <<c[j], x[j]>>
    BY <1>5
  <2> QED
    BY <1>1, <1>3, <2>1
<1> HIDE DEF stores
<1>6. Fills(stores, from, H, W, num, v, value)
  BY <1>4, <1>5 DEF Fills, I
<1> QED
  BY <1>6 DEF stores, J

LEMMA PriorBoxGrid ==
  ASSUME NEW s \in PriorNodes, PriorBox(s)
  PROVE  PriorsRight(s)'
<1> DEFINE num == NumPriors(s)
           H == s.H
           W == s.W
           half == H * W * num * 4
           place == PlaceBoxes(s)
           held == Len(place)
           room == H * W * held * 4
           I == PriorCells(H, W, held, 4)
           K == PriorCells(H, W, num, 4)
           box == [k \in Cells(held) |-> place[k + 1]]
           variance == [e \in Cells(4) |-> IF s.vars = 4 THEN e ELSE 0]
           S1 == {<<((i[1][1] * W + i[1][2]) * Len(place) + i[2] - 1) * 4 + i[3],
                    [fn |-> "box", at |-> i[1], box |-> place[i[2]], edge |-> i[3]]>> :
                    i \in Places(s) \X (1..Len(place)) \X Cells(4)}
           S2 == {<<half + i, [fn |-> "variance", of |-> 0]>> : i \in Cells(half)}
           S3 == {<<half + ((i[1][1] * W + i[1][2]) * num + i[2]) * 4 + i[3],
                    [fn |-> "variance", of |-> i[3]]>> : i \in Places(s) \X Cells(num) \X Cells(4)}
           blob == Blob(2 * half)
           boxes == Stored(blob, S1)
           value1 == [i \in I |-> [fn |-> "box", at |-> <<i[1], i[2]>>, box |-> box[i[3]], edge |-> i[4]]]
           value3 == [i \in K |-> [fn |-> "variance", of |-> i[4]]]
<1>1. grid' = IF s.vars # 4 THEN Stored(boxes, S2) ELSE Stored(boxes, S3)
  BY DEF PriorBox, Fill
<1>2. /\ H \in Nat /\ W \in Nat /\ num \in Nat /\ held \in Nat /\ held <= num
      /\ Cardinality(BoxesWanted(s)) = held /\ (s.maxs <= s.mins => held = num)
      /\ \A b \in BoxesWanted(s) : \E k \in 1..held : place[k] = b
  BY PlaceOfBoxes, GridAssumption
<1> HIDE DEF num, place
<1>3. half \in Nat /\ room \in Nat /\ room <= half /\ 2 * half = half + half /\ 2 * half \in Nat
  <2>1. 4 \in Nat /\ 4 <= 4
    OBVIOUS
  <2>2. room \in Nat /\ half \in Nat /\ room <= half
    <3> HIDE DEF held, H, W
    <3> QED
      BY ONLY <1>2, <2>1, RoomGrows
  <2> HIDE DEF half, room
  <2> QED
    BY <2>2
<1>4. \A b \in BoxesWanted(s) : \E k \in Cells(held) : box[k] = b
  <2> SUFFICES ASSUME NEW b \in BoxesWanted(s) PROVE \E k \in Cells(held) : box[k] = b
    OBVIOUS
  <2>1. PICK k \in 1..held : place[k] = b
    BY <1>2
  <2>2. k - 1 \in Cells(held) /\ (k - 1) + 1 = k
    BY <1>2 DEF Cells
  <2>3. box[k - 1] = place[(k - 1) + 1]
    BY <2>2
  <2> QED
    BY <2>1, <2>2, <2>3
<1> HIDE DEF H, W
<1>5. Fills(S1, 0, H, W, held, 4, value1)
  <2>1. ASSUME NEW i \in I
        PROVE  <<PriorCell(0, W, held, 4, i), value1[i]>> \in S1
    <3> DEFINE j == <<<<i[1], i[2]>>, i[3] + 1, i[4]>>
    <3>1. /\ i[1] \in Cells(H) /\ i[2] \in Cells(W) /\ i[3] \in Cells(held) /\ i[4] \in Cells(4)
          /\ i[1] \in Int /\ i[2] \in Int /\ i[3] \in Int /\ i[4] \in Int
      <4>1. /\ i[1] \in Cells(H) /\ i[2] \in Cells(W) /\ i[3] \in Cells(held) /\ i[4] \in Cells(4)
        BY DEF PriorCells
      <4>2. \A m, x : x \in Cells(m) => x \in Int
        BY DEF Cells
      <4> QED
        BY <4>1, <4>2
    <3>2. j \in Places(s) \X (1..Len(place)) \X Cells(4)
      <4>1. i[3] + 1 \in 1..Len(place)
        <5>1. held \in Nat /\ i[3] \in Cells(held)
          BY <1>2, <3>1
        <5> QED
          BY ONLY <5>1 DEF Cells, held
      <4> QED
        BY <3>1, <4>1 DEF Places, H, W
    <3>3. ((j[1][1] * W + j[1][2]) * Len(place) + j[2] - 1) * 4 + j[3]
            = PriorCell(0, W, held, 4, i)
      <4>1. (i[1] * W + i[2]) \in Int
        BY <1>2, <3>1
      <4> DEFINE y == i[1] * W + i[2]
      <4> HIDE DEF y
      <4>2. y * held \in Int
        BY <1>2, <4>1 DEF y
      <4>3. (y * held + (i[3] + 1) - 1) * 4 + i[4] = 0 + ((y * held + i[3]) * 4 + i[4])
        BY <3>1, <4>2
      <4> QED
        BY <1>2, <4>3 DEF PriorCell, Place4, Place, y
    <3>4. value1[i] = [fn |-> "box", at |-> j[1], box |-> place[j[2]], edge |-> j[3]]
      BY <3>1
    <3> HIDE DEF j, value1
    <3> QED
      BY <3>2, <3>3, <3>4
  <2>2. ASSUME NEW p \in S1
        PROVE  \E i \in I : p = <<PriorCell(0, W, held, 4, i), value1[i]>>
    <3>1. PICK j \in Places(s) \X (1..Len(place)) \X Cells(4) :
            p = <<((j[1][1] * W + j[1][2]) * Len(place) + j[2] - 1) * 4 + j[3],
                  [fn |-> "box", at |-> j[1], box |-> place[j[2]], edge |-> j[3]]>>
      BY <2>2
    <3> DEFINE i == <<j[1][1], j[1][2], j[2] - 1, j[3]>>
    <3>2. /\ j[1] = <<j[1][1], j[1][2]>> /\ j[1][1] \in Cells(H) /\ j[1][2] \in Cells(W)
          /\ j[2] \in 1..held /\ j[3] \in Cells(4)
          /\ j[1][1] \in Int /\ j[1][2] \in Int /\ j[2] \in Int /\ j[3] \in Int
      <4>1. j[1] \in Cells(H) \X Cells(W) /\ j[2] \in 1..held /\ j[3] \in Cells(4)
        BY <1>2 DEF Places, H, W
      <4>2. j[1] = <<j[1][1], j[1][2]>> /\ j[1][1] \in Cells(H) /\ j[1][2] \in Cells(W)
        BY <4>1
      <4>3. \A m, x : x \in Cells(m) => x \in Int
        BY DEF Cells
      <4> QED
        BY <1>2, <4>1, <4>2, <4>3
    <3>3. i \in I /\ i[3] \in Cells(held) /\ i[3] + 1 = j[2]
      <4>1. j[2] - 1 \in Cells(held) /\ (j[2] - 1) + 1 = j[2]
        <5>1. held \in Nat /\ j[2] \in 1..held
          BY <1>2, <3>2
        <5> QED
          BY ONLY <5>1 DEF Cells
      <4> QED
        BY <3>2, <4>1 DEF PriorCells
    <3>4. ((j[1][1] * W + j[1][2]) * Len(place) + j[2] - 1) * 4 + j[3]
            = PriorCell(0, W, held, 4, i)
      <4>1. (j[1][1] * W + j[1][2]) \in Int
        BY <1>2, <3>2
      <4> DEFINE y == j[1][1] * W + j[1][2]
      <4> HIDE DEF y
      <4>2. y * held \in Int
        BY <1>2, <4>1 DEF y
      <4>3. (y * held + j[2] - 1) * 4 + j[3] = 0 + ((y * held + (j[2] - 1)) * 4 + j[3])
        BY <3>2, <4>2
      <4> QED
        BY <1>2, <4>3 DEF PriorCell, Place4, Place, y
    <3>5. value1[i] = [fn |-> "box", at |-> j[1], box |-> place[j[2]], edge |-> j[3]]
      <4>1. box[i[3]] = place[j[2]]
        BY <3>3
      <4>2. <<i[1], i[2]>> = j[1] /\ i[4] = j[3]
        BY <3>2
      <4> HIDE DEF i, box
      <4> QED
        BY <3>3, <4>1, <4>2
    <3> HIDE DEF i, value1
    <3> QED
      BY <3>1, <3>3, <3>4, <3>5
  <2> HIDE DEF S1, value1
  <2> QED
    BY <2>1, <2>2 DEF Fills
<1>6. Fills(S3, half, H, W, num, 4, value3)
  <2> DEFINE J == Placed(H, W, num, 4)
             c == [j \in J |-> half + ((j[1][1] * W + j[1][2]) * num + j[2]) * 4 + j[3]]
             v == [j \in J |-> [fn |-> "variance", of |-> j[3]]]
  <2>1. S3 = {<<c[j], v[j]>> : j \in J}
    BY DEF Placed, Places, H, W
  <2>2. ASSUME NEW j \in J
        PROVE  c[j] = PriorCell(half, W, num, 4, Flat(j)) /\ v[j] = value3[Flat(j)]
    <3>1. /\ Flat(j) \in K /\ Flat(j)[1] = j[1][1] /\ Flat(j)[2] = j[1][2]
          /\ Flat(j)[3] = j[2] /\ Flat(j)[4] = j[3]
          /\ j[1][1] \in Int /\ j[1][2] \in Int /\ j[2] \in Int /\ j[3] \in Int
      BY FlatCell
    <3>2. half + ((j[1][1] * W + j[1][2]) * num + j[2]) * 4 + j[3]
            = PriorCell(half, W, num, 4, Flat(j))
      <4>1. (j[1][1] * W + j[1][2]) \in Int
        BY <1>2, <3>1
      <4> DEFINE y == j[1][1] * W + j[1][2]
      <4> HIDE DEF y, half
      <4>2. y * num \in Int
        BY <1>2, <4>1 DEF y
      <4>3. half + (y * num + j[2]) * 4 + j[3] = half + ((y * num + j[2]) * 4 + j[3])
        BY <1>3, <3>1, <4>2
      <4> QED
        BY <3>1, <4>3 DEF PriorCell, Place4, Place, y
    <3> HIDE DEF J, K, half
    <3> QED
      BY <3>1, <3>2
  <2> HIDE DEF c, v, half, J, value3
  <2>3. Fills({<<c[j], v[j]>> : j \in J}, half, H, W, num, 4, value3)
    <3>1. H \in Nat /\ W \in Nat /\ num \in Nat /\ 4 \in Nat /\ half \in Int
      BY <1>2, <1>3
    <3> QED
      BY ONLY <2>2, <3>1, FillsPlaced, SMTT(40) DEF J
  <2> HIDE DEF S3
  <2> QED
    BY <2>1, <2>3
<1>7. /\ DOMAIN blob = Cells(2 * half) /\ DOMAIN boxes = Cells(2 * half)
      /\ half = H * W * num * 4 /\ room = H * W * held * 4
  <2>1. DOMAIN blob = Cells(2 * half)
    BY DEF Blob
  <2>2. half = H * W * num * 4 /\ room = H * W * held * 4
    OBVIOUS
  <2> HIDE DEF blob, S1, half, room
  <2> QED
    BY <2>1, <2>2, StoredDomain
<1> HIDE DEF held
<1>8. \A i \in I : /\ PriorCell(0, W, held, 4, i) \in Cells(half)
                   /\ boxes[PriorCell(0, W, held, 4, i)] = value1[i]
  <2> HIDE DEF half, room, blob, S1, value1
  <2>1. PICK f \in Nat, v \in Nat : f = 0 /\ v = 4
    OBVIOUS
  <2> DEFINE size == 2 * half
  <2>2. PartOf(f, room, size) /\ DOMAIN blob = Cells(size)
    BY <1>3, <1>7, <2>1 DEF PartOf
  <2>3. Fills(S1, f, H, W, held, v, value1) /\ room = H * W * held * v
    BY <1>5, <1>7, <2>1
  <2> HIDE DEF size
  <2>4. \A i \in PriorCells(H, W, held, v) :
          /\ PriorCell(f, W, held, v, i) \in Part(f, room)
          /\ Stored(blob, S1)[PriorCell(f, W, held, v, i)] = value1[i]
    BY ONLY <1>2, <2>1, <2>2, <2>3, PartFilled
  <2>5. \A i \in I : /\ PriorCell(0, W, held, 4, i) \in Part(0, room)
                     /\ boxes[PriorCell(0, W, held, 4, i)] = value1[i]
    BY <2>1, <2>4
  <2> QED
    BY <1>3, <2>5 DEF Cells, Part
<1>9. /\ \A d \in Cells(half) : grid'[d] = boxes[d]
      /\ \A i \in K : grid'[PriorCell(half, W, num, 4, i)] = [fn |-> "variance", of |-> variance[i[4]]]
  <2>1. \A i \in K : i[4] \in Cells(4)
    BY DEF PriorCells
  <2>2. CASE s.vars = 4
    <3>1. grid' = Stored(boxes, S3)
      BY <1>1, <2>2
    <3>2. \A i \in K : value3[i] = [fn |-> "variance", of |-> variance[i[4]]]
      BY <2>1, <2>2
    <3> HIDE DEF half, boxes, S3, value3, variance
    <3>3. 4 \in Nat /\ PartOf(half, half, 2 * half) /\ DOMAIN boxes = Cells(2 * half)
      BY <1>3, <1>7 DEF PartOf
    <3>4. /\ \A i \in K : Stored(boxes, S3)[PriorCell(half, W, num, 4, i)] = value3[i]
          /\ \A d \in Cells(2 * half) :
               d \notin Part(half, half) => Stored(boxes, S3)[d] = boxes[d]
      BY ONLY <1>2, <1>6, <1>7, <3>3, PartFilled DEF K
    <3>5. \A d \in Cells(half) : d \in Cells(2 * half) /\ d \notin Part(half, half)
      BY <1>3 DEF Cells, Part
    <3> QED
      BY <3>1, <3>2, <3>4, <3>5
  <2>3. CASE s.vars # 4
    <3> DEFINE same == [fn |-> "variance", of |-> 0]
    <3>1. grid' = Stored(boxes, S2)
      BY <1>1, <2>3
    <3>2. ASSUME NEW d \in Cells(half)
          PROVE  grid'[d] = boxes[d] /\ grid'[half + d] = same
      <4> HIDE DEF half, boxes
      <4>1. d \in Int /\ 0 <= d /\ d < half /\ d \in Cells(2 * half) /\ half + d \in Cells(2 * half)
        BY <1>3 DEF Cells
      <4>2. \A p \in S2 : p[1] # d /\ p[2] = same
        BY <1>3, <4>1 DEF Cells
      <4>3. <<half + d, same>> \in S2
        OBVIOUS
      <4> HIDE DEF S2, same
      <4>4. Stored(boxes, S2)[d] = boxes[d]
        <5>1. d \in DOMAIN boxes
          BY <1>7, <4>1
        <5> QED
          BY <4>2, <5>1, StoredElsewhere
      <4>5. Stored(boxes, S2)[half + d] = same
        <5> DEFINE c == half + d
        <5>1. c \in DOMAIN boxes /\ <<c, same>> \in S2 /\ \A p \in S2 : p[1] = c => p[2] = same
          BY <1>7, <4>1, <4>2, <4>3
        <5> HIDE DEF c
        <5>2. Stored(boxes, S2)[c] = same
          BY ONLY <5>1, StoredOnce
        <5> QED
          BY <5>2 DEF c
      <4> QED
        BY <3>1, <4>4, <4>5
    <3>3. \A i \in K : Place4(W, num, 4, i) \in Cells(half)
      <4>1. 4 \in Nat /\ half = H * W * num * 4
        OBVIOUS
      <4> HIDE DEF half
      <4> QED
        BY ONLY <1>2, <4>1, FourRange DEF K, PriorCells
    <3>4. \A i \in K : variance[i[4]] = 0
      BY <2>1, <2>3
    <3> HIDE DEF half, boxes, variance
    <3> QED
      BY <3>2, <3>3, <3>4 DEF PriorCell
  <2> QED
    BY <2>2, <2>3
<1>10. \A i \in I : value1[i] = [fn |-> "box", at |-> <<i[1], i[2]>>, box |-> box[i[3]], edge |-> i[4]]
  OBVIOUS
<1> HIDE DEF half, value1, box, boxes, variance
<1>11. BoxesAt(s, BoxesWanted(s))'
  <2>1. s.H \in Nat /\ s.W \in Nat /\ held \in Nat /\ Cardinality(BoxesWanted(s)) = held
    BY <1>2 DEF H, W
  <2>2. \A i \in PriorCells(s.H, s.W, held, 4) :
          grid'[PriorCell(0, s.W, held, 4, i)]
            = [fn |-> "box", at |-> <<i[1], i[2]>>, box |-> box[i[3]], edge |-> i[4]]
    BY <1>8, <1>9, <1>10 DEF H, W
  <2> QED
    BY ONLY <1>4, <2>1, <2>2, BoxesFound
<1>12. VariancesAt(s, num, 4, variance)'
  <2>1. s.H \in Nat /\ s.W \in Nat /\ num \in Nat /\ 4 \in Nat /\ half = s.H * s.W * num * 4
    BY <1>2, <1>7 DEF H, W
  <2>2. \A i \in PriorCells(s.H, s.W, num, 4) :
          grid'[PriorCell(half, s.W, num, 4, i)] = [fn |-> "variance", of |-> variance[i[4]]]
    BY <1>9 DEF H, W
  <2>3. \A d \in Cells(2 * half) : ~ (d >= half + half)
    BY <1>3 DEF Cells
  <2>4. \A d \in Cells(2 * half) : d >= half + s.H * s.W * num * 4 => grid'[d] = Old
    BY <2>1, <2>3
  <2> QED
    BY ONLY <2>1, <2>2, <2>4, VariancesFound
<1>13. s.maxs <= s.mins => Cardinality(BoxesWanted(s)) = num
  BY <1>2
<1> QED
  BY <1>11, <1>12, <1>13 DEF PriorsRight, num, variance

LEMMA ClusteredGrid ==
  ASSUME NEW s \in ClusteredNodes, PriorBoxClustered(s)
  PROVE  ClusteredRight(s)'
<1> DEFINE num == s.num_priors
           v == NumVariances(s)
           H == s.H
           W == s.W
           half == H * W * num * 4
           room == H * W * num * v
           I == PriorCells(H, W, num, 4)
           K == PriorCells(H, W, num, v)
           J1 == Placed(H, W, num, 4)
           J2 == Placed(H, W, num, v)
           at(j, u) == j[1][1] * W * num * u + j[1][2] * num * u + j[2] * u + j[3]
           c1 == [j \in J1 |-> at(j, 4)]
           c2 == [j \in J2 |-> half + at(j, v)]
           v1 == [j \in J1 |-> [fn |-> "box", at |-> j[1], box |-> j[2], edge |-> j[3]]]
           v2 == [j \in J2 |-> [fn |-> "variance", of |-> j[3]]]
           S1 == {<<c1[j], v1[j]>> : j \in J1}
           S2 == {<<c2[j], v2[j]>> : j \in J2}
           blob == Blob(2 * half)
           boxes == Stored(blob, S1)
           value1 == [i \in I |-> [fn |-> "box", at |-> <<i[1], i[2]>>, box |-> i[3], edge |-> i[4]]]
           value2 == [i \in K |-> [fn |-> "variance", of |-> i[4]]]
           place == [k \in Cells(num) |-> k]
           variance == [e \in Cells(v) |-> e]
<1>1. H \in Nat /\ W \in Nat /\ num \in Nat /\ v \in Nat /\ v <= 4
  BY GridAssumption DEF NumVariances
<1>2. grid' = Stored(boxes, S2)
  <2>1. S1 = {<<at(j, 4), [fn |-> "box", at |-> j[1], box |-> j[2], edge |-> j[3]]>> : j \in J1}
    OBVIOUS
  <2>2. S2 = {<<half + at(j, v), [fn |-> "variance", of |-> j[3]]>> : j \in J2}
    <3> HIDE DEF half, at
    <3> QED
      OBVIOUS
  <2> HIDE DEF S1, S2, v
  <2> QED
    BY <2>1, <2>2 DEF PriorBoxClustered, Fill, Places, Placed, v
<1> HIDE DEF v
<1>3. half \in Nat /\ room \in Nat /\ room <= half /\ 2 * half = half + half /\ 2 * half \in Nat
  <2>1. 4 \in Nat /\ num <= num
    BY <1>1
  <2>2. room \in Nat /\ half \in Nat /\ room <= half
    <3> HIDE DEF num, H, W
    <3> QED
      BY ONLY <1>1, <2>1, RoomGrows
  <2> HIDE DEF half, room
  <2> QED
    BY <2>2
<1>4. Cardinality(Cells(num)) = num
  <2>1. 0 \in Int /\ num - 1 \in Int /\ 0 <= (num - 1) + 1
    BY <1>1
  <2>2. Cardinality(0..(num - 1)) = (num - 1) - 0 + 1
    BY <2>1, Interval, Zenon
  <2> QED
    BY <1>1, <2>2 DEF Cells
<1> HIDE DEF num, H, W
<1>5. ASSUME NEW u \in Nat, NEW j \in Placed(H, W, num, u)
      PROVE  at(j, u) = Place4(W, num, u, Flat(j)) /\ at(j, u) \in Int
  <2>1. /\ Flat(j)[1] = j[1][1] /\ Flat(j)[2] = j[1][2]
        /\ Flat(j)[3] = j[2] /\ Flat(j)[4] = j[3]
        /\ j[1][1] \in Int /\ j[1][2] \in Int /\ j[2] \in Int /\ j[3] \in Int
    BY FlatCell
  <2>2. \A h, w, k, e \in Int :
          /\ h * W * num * u + w * num * u + k * u + e = ((h * W + w) * num + k) * u + e
          /\ h * W * num * u + w * num * u + k * u + e \in Int
    <3> SUFFICES ASSUME NEW h \in Int, NEW w \in Int, NEW k \in Int, NEW e \in Int
                 PROVE  /\ h * W * num * u + w * num * u + k * u + e
                             = ((h * W + w) * num + k) * u + e
                        /\ h * W * num * u + w * num * u + k * u + e \in Int
      OBVIOUS
    <3> DEFINE x == h * W
    <3>1. x \in Int
      BY <1>1
    <3> HIDE DEF x
    <3>2. (x + w) * num = x * num + w * num /\ x * num \in Int /\ w * num \in Int
      BY <1>1, <3>1
    <3> DEFINE y == x * num
               z == w * num
               q == (x + w) * num
    <3>3. q = y + z /\ y \in Int /\ z \in Int
      BY <3>2
    <3> HIDE DEF y, z, q
    <3>4. y * u + z * u + k * u + e = (q + k) * u + e /\ y * u + z * u + k * u + e \in Int
      <4>1. (y + z + k) * u = y * u + z * u + k * u
            /\ y * u \in Int /\ z * u \in Int /\ k * u \in Int
        BY <3>3
      <4> QED
        BY <3>3, <4>1
    <3> QED
      BY <3>4 DEF y, z, q, x
  <2>3. at(j, u) = ((j[1][1] * W + j[1][2]) * num + j[2]) * u + j[3] /\ at(j, u) \in Int
    BY <2>1, <2>2
  <2> HIDE DEF at
  <2> QED
    BY <2>1, <2>3 DEF Place4, Place
<1>6. Fills(S1, 0, H, W, num, 4, value1)
  <2>1. ASSUME NEW j \in J1
        PROVE  c1[j] = PriorCell(0, W, num, 4, Flat(j)) /\ v1[j] = value1[Flat(j)]
    <3>1. /\ Flat(j) \in I /\ Flat(j)[1] = j[1][1] /\ Flat(j)[2] = j[1][2]
          /\ Flat(j)[3] = j[2] /\ Flat(j)[4] = j[3] /\ j[1] = <<j[1][1], j[1][2]>>
      BY FlatCell
    <3>2. at(j, 4) = PriorCell(0, W, num, 4, Flat(j))
      <4>1. at(j, 4) = Place4(W, num, 4, Flat(j)) /\ at(j, 4) \in Int
        BY <1>5
      <4> HIDE DEF at
      <4> QED
        BY <4>1 DEF PriorCell
    <3> HIDE DEF J1, I, at
    <3> QED
      BY <3>1, <3>2
  <2>2. 0 \in Int /\ 4 \in Nat
    OBVIOUS
  <2> HIDE DEF c1, v1, value1
  <2>3. PICK f \in Int : f = 0
    BY <2>2
  <2>4. \A j \in J1 : c1[j] = PriorCell(f, W, num, 4, Flat(j)) /\ v1[j] = value1[Flat(j)]
    BY <2>1, <2>3
  <2>5. Fills(S1, f, H, W, num, 4, value1)
    BY ONLY <1>1, <2>2, <2>4, FillsPlaced DEF J1, S1
  <2> QED
    BY <2>3, <2>5
<1>7. Fills(S2, half, H, W, num, v, value2)
  <2>1. ASSUME NEW j \in J2
        PROVE  c2[j] = PriorCell(half, W, num, v, Flat(j)) /\ v2[j] = value2[Flat(j)]
    <3>1. Flat(j) \in K /\ Flat(j)[4] = j[3]
      BY FlatCell
    <3>2. at(j, v) = Place4(W, num, v, Flat(j))
      BY <1>1, <1>5
    <3> HIDE DEF J2, K, at, half
    <3> QED
      BY <3>1, <3>2 DEF PriorCell
  <2>2. half \in Int
    BY <1>3
  <2> HIDE DEF c2, v2, value2, half
  <2>3. \A j \in J2 : c2[j] = PriorCell(half, W, num, v, Flat(j)) /\ v2[j] = value2[Flat(j)]
    BY <2>1
  <2> QED
    BY ONLY <1>1, <2>2, <2>3, FillsPlaced, SMTT(40) DEF J2, S2
<1>8. /\ DOMAIN blob = Cells(2 * half) /\ DOMAIN boxes = Cells(2 * half)
      /\ \A d \in Cells(2 * half) : blob[d] = Old
      /\ half = H * W * num * 4 /\ room = H * W * num * v
  <2>1. DOMAIN blob = Cells(2 * half) /\ \A d \in Cells(2 * half) : blob[d] = Old
    BY DEF Blob
  <2>2. half = H * W * num * 4 /\ room = H * W * num * v
    OBVIOUS
  <2> HIDE DEF blob, S1, half, room
  <2> QED
    BY <2>1, <2>2, StoredDomain
<1> HIDE DEF half, room, blob, S1, S2, value2
<1>9. /\ \A i \in I : /\ PriorCell(0, W, num, 4, i) \in Part(0, half)
                      /\ boxes[PriorCell(0, W, num, 4, i)] = value1[i]
      /\ \A d \in Cells(2 * half) : d \notin Part(0, half) => boxes[d] = blob[d]
  <2>1. PICK f \in Nat, u \in Nat : f = 0 /\ u = 4
    OBVIOUS
  <2> DEFINE size == 2 * half
  <2>2. PartOf(f, half, size) /\ DOMAIN blob = Cells(size)
    BY <1>3, <1>8, <2>1 DEF PartOf
  <2> HIDE DEF value1
  <2>3. Fills(S1, f, H, W, num, u, value1) /\ half = H * W * num * u
    BY <1>6, <1>8, <2>1
  <2> HIDE DEF size
  <2>4. /\ \A i \in PriorCells(H, W, num, u) :
             /\ PriorCell(f, W, num, u, i) \in Part(f, half)
             /\ Stored(blob, S1)[PriorCell(f, W, num, u, i)] = value1[i]
        /\ \A d \in Cells(size) : d \notin Part(f, half) => Stored(blob, S1)[d] = blob[d]
    BY ONLY <1>1, <2>1, <2>2, <2>3, PartFilled
  <2> QED
    BY <2>1, <2>4 DEF size
<1> HIDE DEF boxes
<1>10. /\ \A i \in K : grid'[PriorCell(half, W, num, v, i)] = value2[i]
       /\ \A d \in Cells(2 * half) : d \notin Part(half, room) => grid'[d] = boxes[d]
  <2>1. PartOf(half, room, 2 * half)
    BY <1>3 DEF PartOf
  <2>2. /\ \A i \in K : Stored(boxes, S2)[PriorCell(half, W, num, v, i)] = value2[i]
        /\ \A d \in Cells(2 * half) :
             d \notin Part(half, room) => Stored(boxes, S2)[d] = boxes[d]
    BY ONLY <1>1, <1>7, <1>8, <2>1, PartFilled DEF K
  <2> QED
    BY <1>2, <2>2
<1>11. BoxesAt(s, Cells(num))'
  <2>1. ASSUME NEW i \in I
        PROVE  grid'[PriorCell(0, W, num, 4, i)]
                 = [fn |-> "box", at |-> <<i[1], i[2]>>, box |-> place[i[3]], edge |-> i[4]]
    <3>1. i[3] \in Cells(num)
      BY DEF PriorCells
    <3>2. value1[i] = [fn |-> "box", at |-> <<i[1], i[2]>>, box |-> place[i[3]], edge |-> i[4]]
      BY <3>1
    <3> DEFINE d == PriorCell(0, W, num, 4, i)
    <3>3. d \in Part(0, half) /\ boxes[d] = value1[i]
      BY <1>9
    <3> HIDE DEF d, value1, place, I
    <3>4. d \in Cells(2 * half) /\ d \notin Part(half, room)
      BY <1>3, <3>3 DEF Cells, Part
    <3> QED
      BY <1>10, <3>2, <3>3, <3>4 DEF d
  <2>2. \A box \in Cells(num) : \E k \in Cells(num) : place[k] = box
    OBVIOUS
  <2> HIDE DEF place
  <2>3. /\ s.H \in Nat /\ s.W \in Nat
        /\ \A i \in PriorCells(s.H, s.W, num, 4) :
             grid'[PriorCell(0, s.W, num, 4, i)]
               = [fn |-> "box", at |-> <<i[1], i[2]>>, box |-> place[i[3]], edge |-> i[4]]
    BY <1>1, <2>1 DEF H, W
  <2> QED
    BY ONLY <1>1, <1>4, <2>2, <2>3, BoxesFound
<1>12. VariancesAt(s, num, v, variance)'
  <2>1. s.H \in Nat /\ s.W \in Nat /\ half = s.H * s.W * num * 4 /\ room = s.H * s.W * num * v
    BY <1>1, <1>8 DEF H, W
  <2>2. \A i \in PriorCells(s.H, s.W, num, v) :
          grid'[PriorCell(half, s.W, num, v, i)] = [fn |-> "variance", of |-> variance[i[4]]]
    <3>1. ASSUME NEW i \in K PROVE value2[i] = [fn |-> "variance", of |-> variance[i[4]]]
      <4>1. i[4] \in Cells(v)
        BY DEF PriorCells
      <4> QED
        BY <4>1 DEF value2
    <3> QED
      BY <1>10, <3>1 DEF H, W
  <2>3. ASSUME NEW d \in Cells(2 * half), d >= half + room PROVE grid'[d] = Old
    <3>1. d \notin Part(half, room) /\ d \notin Part(0, half)
      BY <1>3, <2>3 DEF Cells, Part
    <3> QED
      BY <1>8, <1>9, <1>10, <3>1
  <2>4. \A d \in Cells(2 * half) : d >= half + s.H * s.W * num * v => grid'[d] = Old
    BY <2>1, <2>3
  <2> HIDE DEF variance
  <2> QED
    BY ONLY <1>1, <2>1, <2>2, <2>4, VariancesFound
<1> QED
  BY <1>11, <1>12 DEF ClusteredRight, num, v, variance

-----------------------------------------------------------------------------
(* RegionYolo.                                                             *)

(* The cell of entry e of a box at place p.                                *)
Entries(s) == s.coords + 1 + s.classes
RegionCell(s, box, e, p) == Place(Place(box, Entries(s), e), Plane(s), p)

LEMMA RegionShape ==
  ASSUME NEW s \in RegionNodes
  PROVE  /\ s.B \in Nat /\ s.num \in Nat \ {0} /\ s.coords \in Nat /\ s.coords >= 2
         /\ s.classes \in Nat /\ Plane(s) \in Nat /\ Entries(s) \in Nat \ {0} /\ s.B * s.num \in Nat
         /\ s.classes + s.coords + 1 = Entries(s) /\ s.coords + s.classes + 1 = Entries(s)
         /\ s.coords + s.classes < Entries(s)
<1>1. /\ s.B \in Nat /\ s.num \in Nat \ {0} /\ s.coords \in Nat /\ s.coords >= 2
      /\ s.classes \in Nat /\ s.IH \in Nat /\ s.IW \in Nat
  BY GridAssumption
<1>2. s.IW * s.IH \in Nat /\ s.B * s.num \in Nat
  BY <1>1
<1> QED
  BY <1>1, <1>2 DEF Plane, Entries

LEMMA MovedFactor ==
  ASSUME NEW b \in Int, NEW m \in Int, NEW k \in Int, NEW N \in Int, NEW num \in Int, NEW P \in Int
  PROVE  b * P * num * N + m * P * N + k * P = ((b * num + m) * N + k) * P
<1>1. b * P * num * N = ((b * num) * N) * P
  <2>1. b * P * num = (b * num) * P
    OBVIOUS
  <2> DEFINE x == b * num
  <2>2. x \in Int
    OBVIOUS
  <2> HIDE DEF x
  <2>3. (x * P) * N = (x * N) * P
    BY <2>2
  <2> QED
    BY <2>1, <2>3 DEF x
<1>2. m * P * N = (m * N) * P
  OBVIOUS
<1> DEFINE x == b * num
           y == x * N
           z == m * N
<1>3. x \in Int /\ z \in Int
  OBVIOUS
<1> HIDE DEF x
<1>4. (x + m) * N = y + z /\ y \in Int
  BY <1>3
<1> HIDE DEF y, z
<1>5. y * P + z * P + k * P = (y + z + k) * P
  BY <1>3, <1>4
<1> QED
  BY <1>1, <1>2, <1>4, <1>5 DEF x, y, z

LEMMA IndexOf ==
  ASSUME NEW s \in RegionNodes, Plane(s) # 0, NEW b \in Int, NEW m \in Int, NEW k \in Int
  PROVE  entry_index(s, b, m * Plane(s), k) = RegionCell(s, Place(b, s.num, m), k, 0)
<1> DEFINE P == Plane(s)
           N == Entries(s)
<1>1. /\ P \in Nat \ {0} /\ N \in Nat \ {0} /\ s.num \in Nat \ {0}
      /\ s.classes + s.coords + 1 = N /\ s.coords + s.classes + 1 = N
  BY RegionShape
<1>2. (m * P) \div P = m /\ (m * P) % P = 0
  <2>1. 0 \in Cells(P)
    BY <1>1 DEF Cells
  <2>2. Place(m, P, 0) \div P = m /\ Place(m, P, 0) % P = 0
    BY <1>1, <2>1, PartsOf
  <2>3. m * P \in Int
    BY <1>1
  <2>4. Place(m, P, 0) = m * P
    BY <2>3 DEF Place
  <2> QED
    BY <2>2, <2>4
<1>3. entry_index(s, b, m * P, k) = b * P * s.num * N + m * P * N + k * P + 0
  BY <1>1, <1>2 DEF entry_index
<1>4. b * P * s.num * N + m * P * N + k * P = ((b * s.num + m) * N + k) * P
  BY <1>1, MovedFactor
<1> QED
  BY <1>3, <1>4 DEF RegionCell, Place

(* The cell of a class of a box, as softmax_generic computes it.           *)
LEMMA ClassCellOf ==
  ASSUME NEW s \in RegionNodes, NEW box \in Int, NEW c \in Int, NEW p \in Cells(Plane(s))
  PROVE  ClassCell(s, box, c, p) = RegionCell(s, box, s.coords + 1 + c, p)
<1> DEFINE P == Plane(s)
           N == Entries(s)
           k == s.coords + 1
<1>1. /\ P \in Nat \ {0} /\ N \in Nat \ {0} /\ s.num \in Nat \ {0} /\ s.coords \in Nat
      /\ s.classes + s.coords + 1 = N /\ s.coords + s.classes + 1 = N /\ p \in Int
  BY RegionShape DEF Cells
<1>2. entry_index(s, 0, 0, k) = k * P
  <2>1. 0 \div P = 0 /\ 0 % P = 0
    BY <1>1
  <2>2. k * P \in Int /\ k \in Int
    BY <1>1
  <2>3. 0 * P * s.num * N = 0 /\ 0 * P * N = 0
    BY <1>1
  <2> HIDE DEF k
  <2>4. entry_index(s, 0, 0, k) = 0 * P * s.num * N + 0 * P * N + k * P + 0
    BY <1>1, <2>1 DEF entry_index
  <2> QED
    BY <2>2, <2>3, <2>4
<1>3. ClassCell(s, box, c, p) = k * P + box * P * N + c * P + p
  BY <1>1, <1>2 DEF ClassCell
<1>4. k * P + box * P * N + c * P = (box * N + (k + c)) * P
  <2>1. box * P * N = (box * N) * P
    BY <1>1
  <2> DEFINE x == box * N
  <2>2. x \in Int /\ k \in Int
    BY <1>1
  <2> HIDE DEF x, k
  <2>3. k * P + x * P + c * P = (x + (k + c)) * P
    BY <1>1, <2>2
  <2> QED
    BY <2>1, <2>3 DEF x
<1> QED
  BY <1>3, <1>4 DEF RegionCell, Place

LEMMA CellOfBox ==
  ASSUME NEW s \in RegionNodes, NEW box \in Int, NEW e \in Cells(Entries(s)), NEW p \in Cells(Plane(s)),
         NEW other \in Int, NEW f \in Cells(Entries(s)), NEW q \in Cells(Plane(s)),
         RegionCell(s, box, e, p) = RegionCell(s, other, f, q)
  PROVE  box = other /\ e = f /\ p = q
<1>1. Entries(s) \in Nat /\ Plane(s) \in Nat
  BY RegionShape
<1>2. Place(box, Entries(s), e) \in Int /\ Place(other, Entries(s), f) \in Int
  BY <1>1, DigitType
<1>3. Place(box, Entries(s), e) = Place(other, Entries(s), f) /\ p = q
  BY <1>1, <1>2, Digits DEF RegionCell
<1> QED
  BY <1>1, <1>3, Digits

LEMMA RegionCellType ==
  ASSUME NEW s \in RegionNodes, NEW box \in Int, NEW k \in Int, NEW p \in Int
  PROVE  RegionCell(s, box, k, p) \in Int
<1>1. Entries(s) \in Int /\ Plane(s) \in Int
  BY RegionShape
<1>2. box * Entries(s) + k \in Int
  BY <1>1
<1>3. (box * Entries(s) + k) * Plane(s) + p \in Int
  BY <1>1, <1>2
<1> QED
  BY <1>3 DEF RegionCell, Place

LEMMA MoreEntries ==
  ASSUME NEW s \in RegionNodes, NEW box \in Int, NEW k \in Int, NEW t \in Int, NEW p \in Int,
         NEW e, e = k + t,
         NEW c \in Int, c = RegionCell(s, box, k, 0), NEW o \in Int, o = Place(t, Plane(s), p)
  PROVE  RegionCell(s, box, e, p) = c + o
<1> DEFINE P == Plane(s)
           x == box * Entries(s)
<1>1. P \in Int /\ x \in Int
  BY RegionShape
<1> HIDE DEF P, x
<1>2. (x + k) * P + 0 + (t * P + p) = (x + (k + t)) * P + p
  BY <1>1
<1> QED
  BY <1>2 DEF RegionCell, Place, P, x

(* The cells that some entries of all boxes take.                          *)
LEMMA EntryOf ==
  ASSUME NEW s \in RegionNodes, NEW b \in Cells(s.B), NEW m \in Cells(s.num),
         NEW e \in Cells(Entries(s)), NEW p \in Cells(Plane(s)),
         NEW first \in Nat, NEW k \in Nat, first + k <= Entries(s)
  PROVE  RegionCell(s, Place(b, s.num, m), e, p) \in EntryCells(s, first, k)
           <=> e \in first..(first + k - 1)
<1> DEFINE P == Plane(s)
           N == Entries(s)
           num == s.num
           R(b1, m1) == RegionCell(s, Place(b1, num, m1), first, 0)
           d == RegionCell(s, Place(b, num, m), e, p)
<1>1. P \in Nat \ {0} /\ N \in Nat \ {0} /\ num \in Nat \ {0} /\ e \in Int /\ p \in Int
  BY RegionShape DEF Cells
<1>2. \A b1 \in Cells(s.B), m1 \in Cells(num) :
        /\ Place(b1, num, m1) \in Int
        /\ entry_index(s, b1, m1 * P, first) = R(b1, m1)
        /\ R(b1, m1) \in Int
  <2> SUFFICES ASSUME NEW b1 \in Cells(s.B), NEW m1 \in Cells(num)
               PROVE  /\ Place(b1, num, m1) \in Int
                      /\ entry_index(s, b1, m1 * P, first) = R(b1, m1)
                      /\ R(b1, m1) \in Int
    OBVIOUS
  <2>1. b1 \in Int /\ m1 \in Int /\ first \in Int
    BY DEF Cells
  <2>2. Place(b1, num, m1) \in Int
    BY <1>1, <2>1, DigitType
  <2>3. entry_index(s, b1, m1 * P, first) = R(b1, m1)
    BY <1>1, <2>1, IndexOf
  <2>4. R(b1, m1) \in Int
    <3> DEFINE box == Place(b1, num, m1)
    <3>1. box \in Int /\ 0 \in Int
      BY <2>2
    <3> HIDE DEF box
    <3> QED
      BY <2>1, <3>1, RegionCellType DEF box
  <2> QED
    BY <2>2, <2>3, <2>4
<1>3. d \in EntryCells(s, first, k)
        <=> \E b1 \in Cells(s.B), m1 \in Cells(num) : d \in R(b1, m1)..(R(b1, m1) + k * P - 1)
  <2>1. EntryCells(s, first, k) =
          UNION {entry_index(s, b1, m1 * P, first)..(entry_index(s, b1, m1 * P, first) + k * P - 1) :
                   b1 \in Cells(s.B), m1 \in Cells(num)}
    BY DEF EntryCells
  <2> HIDE DEF R, d, P, num
  <2>2. d \in EntryCells(s, first, k)
          <=> \E b1 \in Cells(s.B), m1 \in Cells(num) :
                d \in entry_index(s, b1, m1 * P, first)..(entry_index(s, b1, m1 * P, first) + k * P - 1)
    <3> DEFINE index(b1, m1) == entry_index(s, b1, m1 * P, first)
               cells(b1, m1) == index(b1, m1)..(index(b1, m1) + k * P - 1)
    <3>1. EntryCells(s, first, k) = UNION {cells(b1, m1) : b1 \in Cells(s.B), m1 \in Cells(num)}
      BY <2>1
    <3> HIDE DEF cells
    <3>2. d \in EntryCells(s, first, k)
            <=> \E b1 \in Cells(s.B), m1 \in Cells(num) : d \in cells(b1, m1)
      BY <3>1
    <3> QED
      BY <3>2 DEF cells
  <2> QED
    BY <1>2, <2>2
<1>4. k * P \in Nat
  BY <1>1
<1>5. ASSUME e \in first..(first + k - 1) PROVE d \in EntryCells(s, first, k)
  <2> DEFINE t == e - first
             o == Place(t, P, p)
  <2>1. t \in Int /\ t \in Cells(k) /\ first + t = e
    BY <1>1, <1>5 DEF Cells
  <2>2. R(b, m) + o = d
    <3> DEFINE box == Place(b, num, m)
               c == R(b, m)
    <3>1. /\ box \in Int /\ c \in Int /\ c = RegionCell(s, box, first, 0) /\ first \in Int
          /\ o \in Int /\ o = Place(t, P, p) /\ e = first + t
      <4>1. o \in Int
        BY <1>1, <2>1, DigitType
      <4> QED
        BY <1>2, <2>1, <4>1
    <3> HIDE DEF box, t, o, c
    <3>2. RegionCell(s, box, e, p) = c + o
      BY <1>1, <2>1, <3>1, MoreEntries
    <3> QED
      BY <3>2 DEF box, c
  <2>3. o \in Cells(k * P)
    BY <1>1, <2>1, DigitRange
  <2> HIDE DEF R, o, d
  <2>4. d \in R(b, m)..(R(b, m) + k * P - 1)
    <3>1. R(b, m) \in Int /\ o \in Int /\ 0 <= o /\ o < k * P
      BY <1>2, <1>4, <2>3 DEF Cells
    <3> QED
      BY <1>4, <2>2, <3>1
  <2> QED
    BY <1>3, <2>4
<1>6. ASSUME d \in EntryCells(s, first, k) PROVE e \in first..(first + k - 1)
  <2>1. PICK b1 \in Cells(s.B), m1 \in Cells(num) : d \in R(b1, m1)..(R(b1, m1) + k * P - 1)
    <3> HIDE DEF R, d
    <3> QED
      BY <1>3, <1>6
  <2> DEFINE o == d - R(b1, m1)
             t == o \div P
             q == o % P
  <2>2. o \in Int /\ o \in Cells(k * P) /\ R(b1, m1) + o = d
    <3> HIDE DEF R, d
    <3> QED
      BY <1>2, <1>4, <2>1 DEF Cells
  <2> HIDE DEF o
  <2>3. t \in Cells(k) /\ q \in Cells(P) /\ o = Place(t, P, q)
    BY <1>1, <2>2, PartsRange, DigitParts
  <2>4. t \in Int /\ q \in Int /\ 0 <= t /\ t < k
    BY <1>1, <2>3 DEF Cells
  <2> HIDE DEF t, q
  <2> DEFINE f == first + t
  <2>5. d = RegionCell(s, Place(b1, num, m1), f, q)
    <3> DEFINE box == Place(b1, num, m1)
               c == R(b1, m1)
    <3>1. box \in Int /\ c \in Int /\ c = RegionCell(s, box, first, 0) /\ f = first + t /\ first \in Int
      BY <1>2
    <3> HIDE DEF box, f, c
    <3>2. RegionCell(s, box, f, q) = c + o
      BY <2>2, <2>3, <2>4, <3>1, MoreEntries
    <3> HIDE DEF d
    <3> QED
      BY <2>2, <3>2 DEF box, c
  <2>6. f \in Cells(N) /\ f = first + t
    BY <1>1, <2>4 DEF Cells
  <2> HIDE DEF f
  <2>7. e = f
    <3>1. Place(b, num, m) \in Int /\ Place(b1, num, m1) \in Int
      BY <1>2
    <3> QED
      BY <2>3, <2>5, <2>6, <3>1, CellOfBox
  <2> QED
    BY <2>4, <2>6, <2>7
<1> QED
  BY <1>5, <1>6

LEMMA LogisticCell ==
  ASSUME NEW blob, NEW cells, NEW d \in DOMAIN blob
  PROVE  /\ DOMAIN Logistic(blob, cells) = DOMAIN blob
         /\ d \in cells => Logistic(blob, cells)[d] = [fn |-> "logistic", of |-> blob[d]]
         /\ d \notin cells => Logistic(blob, cells)[d] = blob[d]
BY DEF Logistic

(* Every entry of every box is activated as it should be.                  *)
LEMMA RegionGrid ==
  ASSUME NEW s \in RegionNodes, RegionYolo(s)
  PROVE  RegionRight(s)'
<1> DEFINE P == Plane(s)
           N == Entries(s)
           num == s.num
           size == s.B * num * (s.classes + s.coords + 1) * P
           copied == [d \in Cells(size) |-> [fn |-> "copy", of |-> d]]
           some == Logistic(copied, EntryCells(s, 0, 2))
           active == Logistic(some, EntryCells(s, s.coords, 1))
           I == Cells(s.B * num) \X Cells(s.classes) \X Cells(P)
           soft(i) == [fn |-> "softmax", of |-> ClassCell(s, i[1], i[2], i[3]),
                       over |-> {ClassCell(s, i[1], c, i[3]) : c \in Cells(s.classes)}]
           stores == {<<ClassCell(s, i[1], i[2], i[3]), soft(i)>> : i \in I}
<1>1. grid' = Stored(active, stores)
  BY DEF RegionYolo, Fill
<1>2. /\ s.B \in Nat /\ num \in Nat \ {0} /\ s.coords \in Nat /\ s.coords >= 2
      /\ s.classes \in Nat /\ P \in Nat /\ N \in Nat \ {0} /\ s.B * num \in Nat
      /\ s.classes + s.coords + 1 = N /\ N = s.coords + 1 + s.classes
  BY RegionShape DEF Entries
<1> HIDE DEF P, N, num, soft
<1>3. ASSUME NEW b \in Cells(s.B), NEW m \in Cells(num), NEW e \in Cells(N), NEW p \in Cells(P)
      PROVE  LET d == ((b * num + m) * N + e) * P + p
             IN  grid'[d] =
                   CASE e \in {0, 1, s.coords} ->
                          [fn |-> "logistic", of |-> [fn |-> "copy", of |-> d]]
                     [] e > s.coords ->
                          [fn |-> "softmax", of |-> d,
                           over |-> {((b * num + m) * N + k) * P + p :
                                       k \in (s.coords + 1)..(N - 1)}]
                     [] OTHER -> [fn |-> "copy", of |-> d]
  <2> DEFINE box == Place(b, num, m)
             d == RegionCell(s, box, e, p)
             copy == [fn |-> "copy", of |-> d]
  <2>1. box \in Cells(s.B * num) /\ box \in Int
    <3>1. b \in Int
      BY DEF Cells
    <3> QED
      BY <1>2, <3>1, DigitRange, DigitType
  <2>2. e \in Int /\ 0 <= e /\ e < N
    BY <1>2 DEF Cells
  <2>3. d \in Cells(size)
    <3>1. Place(box, N, e) \in Cells((s.B * num) * N) /\ (s.B * num) * N \in Nat
      <4> DEFINE M == s.B * num
      <4>1. M \in Nat /\ box \in Cells(M)
        BY <1>2, <2>1
      <4> HIDE DEF box, M
      <4>2. Place(box, N, e) \in Cells(M * N)
        BY <1>2, <4>1, DigitRange
      <4>3. M * N \in Nat
        BY <1>2, <4>1
      <4> QED
        BY <4>2, <4>3 DEF M
    <3>2. Place(Place(box, N, e), P, p) \in Cells(((s.B * num) * N) * P)
      <4> DEFINE x == Place(box, N, e)
                 M == (s.B * num) * N
      <4>1. x \in Cells(M) /\ M \in Nat
        BY <3>1
      <4> HIDE DEF x, M
      <4>2. Place(x, P, p) \in Cells(M * P)
        BY <1>2, <4>1, DigitRange
      <4> QED
        BY <4>2 DEF x, M
    <3> QED
      BY <1>2, <3>2 DEF RegionCell, P, N
  <2>4. /\ d \in EntryCells(s, 0, 2) <=> e \in {0, 1}
        /\ d \in EntryCells(s, s.coords, 1) <=> e = s.coords
    <3>1. d \in EntryCells(s, 0, 2) <=> e \in 0..(0 + 2 - 1)
      <4>0. PICK x, k \in Nat : x = 0 /\ k = 2
        OBVIOUS
      <4>1. x + k <= Entries(s)
        BY <1>2, <4>0 DEF N
      <4>2. /\ m \in Cells(s.num) /\ e \in Cells(Entries(s)) /\ p \in Cells(Plane(s))
        BY DEF num, N, P
      <4>3. d \in EntryCells(s, x, k) <=> e \in x..(x + k - 1)
        BY <4>1, <4>2, EntryOf DEF num
      <4> HIDE DEF d
      <4> QED
        BY <4>0, <4>3
    <3>2. d \in EntryCells(s, s.coords, 1) <=> e \in s.coords..(s.coords + 1 - 1)
      <4>1. s.coords \in Nat /\ 1 \in Nat /\ s.coords + 1 <= Entries(s)
        BY <1>2 DEF N
      <4>2. /\ m \in Cells(s.num) /\ e \in Cells(Entries(s)) /\ p \in Cells(Plane(s))
        BY DEF num, N, P
      <4> QED
        BY <4>1, <4>2, EntryOf DEF num
    <3> HIDE DEF d
    <3> QED
      BY <1>2, <2>2, <3>1, <3>2
  <2> HIDE DEF d, box, size
  <2>5. DOMAIN copied = Cells(size) /\ copied[d] = copy
    BY <2>3
  <2> HIDE DEF copied
  <2>6. /\ DOMAIN some = Cells(size)
        /\ e \in {0, 1} => some[d] = [fn |-> "logistic", of |-> copy]
        /\ e \notin {0, 1} => some[d] = copy
    <3> HIDE DEF copy
    <3> QED
      BY <2>3, <2>4, <2>5, LogisticCell
  <2> HIDE DEF some, copy
  <2>7. /\ DOMAIN active = Cells(size)
        /\ e \in {0, 1, s.coords} => active[d] = [fn |-> "logistic", of |-> copy]
        /\ e \notin {0, 1, s.coords} => active[d] = copy
    <3>1. s.coords # 0 /\ s.coords # 1
      BY <1>2
    <3>2. DOMAIN active = Cells(size)
      BY <2>3, <2>6, LogisticCell
    <3> DEFINE E == EntryCells(s, s.coords, 1)
    <3>a. d \in DOMAIN some
      BY <2>3, <2>6
    <3>b. active = Logistic(some, E)
      OBVIOUS
    <3>c. d \in E <=> e = s.coords
      BY <2>4
    <3> HIDE DEF E, active
    <3>d. /\ d \in E => active[d] = [fn |-> "logistic", of |-> some[d]]
          /\ d \notin E => active[d] = some[d]
      BY ONLY <3>a, <3>b, LogisticCell
    <3>3. e = s.coords => active[d] = [fn |-> "logistic", of |-> some[d]]
      BY <3>c, <3>d
    <3>4. e # s.coords => active[d] = some[d]
      BY <3>c, <3>d
    <3> QED
      BY <2>6, <3>1, <3>2, <3>3, <3>4
  <2> HIDE DEF active
  <2>8. \A i \in I :
          /\ i[1] \in Int /\ i[3] \in Cells(P) /\ s.coords + 1 + i[2] \in Cells(N)
          /\ ClassCell(s, i[1], i[2], i[3]) = RegionCell(s, i[1], s.coords + 1 + i[2], i[3])
    <3> SUFFICES ASSUME NEW i \in I
                 PROVE  /\ i[1] \in Int /\ i[3] \in Cells(P) /\ s.coords + 1 + i[2] \in Cells(N)
                        /\ ClassCell(s, i[1], i[2], i[3])
                             = RegionCell(s, i[1], s.coords + 1 + i[2], i[3])
      OBVIOUS
    <3>1. i[1] \in Cells(s.B * num) /\ i[2] \in Cells(s.classes) /\ i[3] \in Cells(P)
      OBVIOUS
    <3>2. i[1] \in Int /\ i[2] \in Int /\ s.coords + 1 + i[2] \in Cells(N)
      BY <1>2, <3>1 DEF Cells
    <3>3. ClassCell(s, i[1], i[2], i[3]) = RegionCell(s, i[1], s.coords + 1 + i[2], i[3])
      <4> DEFINE x == i[1]
                 y == i[2]
                 z == i[3]
      <4>1. x \in Int /\ y \in Int /\ z \in Cells(Plane(s))
        BY <3>1, <3>2 DEF P
      <4> HIDE DEF x, y, z
      <4>2. ClassCell(s, x, y, z) = RegionCell(s, x, s.coords + 1 + y, z)
        BY <4>1, ClassCellOf
      <4> QED
        BY <4>2 DEF x, y, z
    <3> QED
      BY <3>1, <3>2, <3>3
  <2>9. CASE e > s.coords
    <3> DEFINE c == e - s.coords - 1
               i == <<box, c, p>>
    <3>1. c \in Cells(s.classes) /\ s.coords + 1 + c = e /\ c \in Int
      BY <1>2, <2>2, <2>9 DEF Cells
    <3> HIDE DEF c
    <3>2. i \in I /\ i[1] = box /\ i[2] = c /\ i[3] = p
      BY <2>1, <3>1
    <3>3. ClassCell(s, i[1], i[2], i[3]) = d
      BY <2>8, <3>1, <3>2 DEF d
    <3>4. \A j \in I : ClassCell(s, j[1], j[2], j[3]) = d => j = i
      <4> SUFFICES ASSUME NEW j \in I, ClassCell(s, j[1], j[2], j[3]) = d PROVE j = i
        OBVIOUS
      <4> DEFINE f == s.coords + 1 + j[2]
      <4>1. /\ j[1] \in Int /\ j[3] \in Cells(P) /\ f \in Cells(N)
            /\ RegionCell(s, j[1], f, j[3]) = RegionCell(s, box, e, p)
        BY <2>8 DEF d
      <4>2. j = <<j[1], j[2], j[3]>> /\ j[2] \in Int
        BY DEF Cells
      <4>3. f = s.coords + 1 + j[2]
        OBVIOUS
      <4> HIDE DEF f, I, i
      <4>4. j[1] = box /\ f = e /\ j[3] = p
        <5> DEFINE x == j[1]
                   z == j[3]
        <5>1. /\ x \in Int /\ z \in Cells(Plane(s)) /\ f \in Cells(Entries(s)) /\ box \in Int
              /\ e \in Cells(Entries(s)) /\ p \in Cells(Plane(s)) /\ s \in RegionNodes
              /\ RegionCell(s, x, f, z) = RegionCell(s, box, e, p)
          BY <2>1, <4>1 DEF P, N
        <5> HIDE DEF x, z
        <5>2. x = box /\ f = e /\ z = p
          BY ONLY <5>1, CellOfBox
        <5> QED
          BY <5>2 DEF x, z
      <4>5. j[2] = c
        BY <1>2, <3>1, <4>2, <4>3, <4>4
      <4> QED
        BY <4>2, <4>4, <4>5 DEF i
    <3> HIDE DEF I, i
    <3>5. d \in DOMAIN active /\ <<d, soft(i)>> \in stores /\ \A q \in stores : q[1] = d => q[2] = soft(i)
      <4>1. d \in DOMAIN active
        BY <2>3, <2>7
      <4>2. <<d, soft(i)>> \in stores
        BY <3>2, <3>3
      <4>3. ASSUME NEW q \in stores, q[1] = d PROVE q[2] = soft(i)
        <5>1. PICK j \in I : q = <<ClassCell(s, j[1], j[2], j[3]), soft(j)>>
          BY <4>3
        <5>2. j = i
          BY <3>4, <4>3, <5>1
        <5> QED
          BY <5>1, <5>2
      <4> QED
        BY <4>1, <4>2, <4>3
    <3>6. grid'[d] = soft(i)
      <4> DEFINE v == soft(i)
      <4>1. d \in DOMAIN active /\ <<d, v>> \in stores /\ \A q \in stores : q[1] = d => q[2] = v
        BY <3>5
      <4> HIDE DEF v, stores
      <4>2. Stored(active, stores)[d] = v
        BY ONLY <4>1, StoredOnce
      <4> QED
        BY <1>1, <4>2 DEF v
    <3>7. {ClassCell(s, box, k, p) : k \in Cells(s.classes)}
            = {RegionCell(s, box, k, p) : k \in (s.coords + 1)..(N - 1)}
      <4>1. ASSUME NEW k \in Cells(s.classes)
            PROVE  /\ s.coords + 1 + k \in (s.coords + 1)..(N - 1)
                   /\ ClassCell(s, box, k, p) = RegionCell(s, box, s.coords + 1 + k, p)
        <5>1. k \in Int /\ s.coords + 1 + k \in (s.coords + 1)..(N - 1)
          BY <1>2 DEF Cells
        <5>2. p \in Cells(Plane(s))
          BY DEF P
        <5> QED
          BY <2>1, <5>1, <5>2, ClassCellOf
      <4>2. ASSUME NEW k \in (s.coords + 1)..(N - 1)
            PROVE  \E x \in Cells(s.classes) : ClassCell(s, box, x, p) = RegionCell(s, box, k, p)
        <5> DEFINE x == k - s.coords - 1
        <5>1. x \in Cells(s.classes) /\ s.coords + 1 + x = k
          BY <1>2 DEF Cells
        <5> HIDE DEF x
        <5>2. ClassCell(s, box, x, p) = RegionCell(s, box, k, p)
          BY <4>1, <5>1
        <5> QED
          BY <5>1, <5>2
      <4> QED
        BY <4>1, <4>2
    <3>8. soft(i) = [fn |-> "softmax", of |-> d,
                     over |-> {RegionCell(s, box, k, p) : k \in (s.coords + 1)..(N - 1)}]
      <4>1. soft(i) = [fn |-> "softmax", of |-> ClassCell(s, i[1], i[2], i[3]),
                       over |-> {ClassCell(s, i[1], k, i[3]) : k \in Cells(s.classes)}]
        BY DEF soft
      <4> QED
        BY <3>2, <3>3, <3>7, <4>1
    <3>9. e \notin {0, 1, s.coords}
      BY <1>2, <2>2, <2>9
    <3> QED
      BY <2>9, <3>6, <3>8, <3>9 DEF d, box, RegionCell, Place, N, P
  <2>10. CASE ~(e > s.coords)
    <3>1. \A q \in stores : q[1] # d
      <4> SUFFICES ASSUME NEW q \in stores, q[1] = d PROVE FALSE
        OBVIOUS
      <4>1. PICK j \in I : q = <<ClassCell(s, j[1], j[2], j[3]), soft(j)>>
        OBVIOUS
      <4> DEFINE f == s.coords + 1 + j[2]
      <4>2. /\ j[1] \in Int /\ j[3] \in Cells(P) /\ f \in Cells(N)
            /\ RegionCell(s, j[1], f, j[3]) = RegionCell(s, box, e, p)
        BY <2>8, <4>1 DEF d
      <4>3. f > s.coords
        <5>1. j[2] \in Int /\ j[2] >= 0
          BY <1>2 DEF Cells
        <5> QED
          BY <1>2, <5>1
      <4> HIDE DEF f
      <4>4. f = e
        <5> DEFINE x == j[1]
                   z == j[3]
        <5>1. /\ x \in Int /\ z \in Cells(Plane(s)) /\ f \in Cells(Entries(s)) /\ box \in Int
              /\ e \in Cells(Entries(s)) /\ p \in Cells(Plane(s)) /\ s \in RegionNodes
              /\ RegionCell(s, x, f, z) = RegionCell(s, box, e, p)
          BY <2>1, <4>2 DEF P, N
        <5> HIDE DEF x, z
        <5> QED
          BY ONLY <5>1, CellOfBox
      <4> QED
        BY <2>10, <4>3, <4>4
    <3>2. grid'[d] = active[d]
      <4>1. d \in DOMAIN active
        BY <2>3, <2>7
      <4> HIDE DEF stores
      <4> QED
        BY <1>1, <3>1, <4>1, StoredElsewhere
    <3> QED
      BY <2>7, <2>10, <3>2 DEF copy, d, box, RegionCell, Place, N, P
  <2> QED
    BY <2>9, <2>10
<1> QED
  BY <1>3 DEF RegionRight, num, N, P, Entries

-----------------------------------------------------------------------------
(* The grids of the library.                                               *)

LEMMA GridsNext ==
  ASSUME GridsRight, [Next]_vars PROVE GridsRight'
<1>1. CASE UNCHANGED gridVars
  <2>1. node' = node /\ grid' = grid
    BY <1>1 DEF gridVars
  <2> QED
    BY <2>1 DEF GridsRight, ReorgRight, RegionRight, PriorsRight, ClusteredRight, BoxesAt, VariancesAt
<1>2. CASE ExecuteGrid
  <2>1. \/ \E s \in ReorgNodes : ReorgYolo(s)
        \/ \E s \in RegionNodes : RegionYolo(s)
        \/ \E s \in PriorNodes : PriorBox(s)
        \/ \E s \in ClusteredNodes : PriorBoxClustered(s)
    BY <1>2 DEF ExecuteGrid, GridLayer
  <2>2. ASSUME NEW s \in ReorgNodes, ReorgYolo(s) PROVE GridsRight'
    <3>1. node' = [type |-> "ReorgYolo", of |-> s]
      BY <2>2 DEF ReorgYolo
    <3>2. node'.type = "ReorgYolo" /\ node'.of = s
      BY <3>1
    <3>3. ReorgRight(s)'
      BY <2>2, ReorgGrid
    <3> QED
      BY <3>2, <3>3 DEF GridsRight, ReorgRight
  <2>3. ASSUME NEW s \in RegionNodes, RegionYolo(s) PROVE GridsRight'
    <3>1. node' = [type |-> "RegionYolo", of |-> s]
      BY <2>3 DEF RegionYolo
    <3>2. node'.type = "RegionYolo" /\ node'.of = s
      BY <3>1
    <3>3. RegionRight(s)'
      BY <2>3, RegionGrid
    <3> QED
      BY <3>2, <3>3 DEF GridsRight, RegionRight
  <2>4. ASSUME NEW s \in PriorNodes, PriorBox(s) PROVE GridsRight'
    <3>1. node' = [type |-> "PriorBox", of |-> s]
      BY <2>4 DEF PriorBox
    <3>2. node'.type = "PriorBox" /\ node'.of = s
      BY <3>1
    <3>3. PriorsRight(s)'
      BY <2>4, PriorBoxGrid
    <3> QED
      BY <3>2, <3>3 DEF GridsRight, PriorsRight, BoxesAt, VariancesAt
  <2>5. ASSUME NEW s \in ClusteredNodes, PriorBoxClustered(s) PROVE GridsRight'
    <3>1. node' = [type |-> "PriorBoxClustered", of |-> s]
      BY <2>5 DEF PriorBoxClustered
    <3>2. node'.type = "PriorBoxClustered" /\ node'.of = s
      BY <3>1
    <3>3. ClusteredRight(s)'
      BY <2>5, ClusteredGrid
    <3> QED
      BY <3>2, <3>3 DEF GridsRight, ClusteredRight, BoxesAt, VariancesAt
  <2> QED
    BY <2>1, <2>2, <2>3, <2>4, <2>5
<1>3. Next => UNCHANGED gridVars \/ ExecuteGrid
  <2>1. layersIdle => UNCHANGED gridVars
    BY DEF layersIdle
  <2>2. ExecuteDetection \/ ExecuteProposal \/ ExecuteAnswer => UNCHANGED gridVars
    BY DEF ExecuteDetection, ExecuteProposal, ExecuteAnswer
  <2>3. Next => layersIdle \/ Execute
    BY DEF Next, GetFactoryFor, Construct, GetSupportedConfigurations, InitLayer
  <2> QED
    BY <2>1, <2>2, <2>3 DEF Execute
<1>4. UNCHANGED vars => UNCHANGED gridVars
  BY DEF vars
<1> QED
  BY <1>1, <1>2, <1>3, <1>4

(* ReorgYolo, RegionYolo, PriorBox and PriorBoxClustered: whatever the     *)
(* shape of its node, no two iterations of a layer's loops clash, and it   *)
(* stores every value at the place where the next layer looks for it, but  *)
(* for two cases in which it does not and the theorem says where they go:  *)
(* a PriorBox with more max_sizes than min_sizes, and a PriorBoxClustered  *)
(* with fewer than four variances.                                         *)
THEOREM GridsAreRight == Spec => []GridsRight
<1>1. Init => GridsRight
  BY DEF Init, GridInit, GridsRight
<1>2. GridsRight /\ [Next]_vars => GridsRight'
  BY GridsNext
<1> QED
  BY <1>1, <1>2, PTL DEF Spec

-----------------------------------------------------------------------------
(* Quotients, and the bins of PSROIPooling.                                *)

(* The whole numbers around a quotient.                                    *)
LEMMA Below ==
  ASSUME NEW U \in Nat \ {0}, NEW a \in Int, NEW p \in Int
  PROVE  a \div U \in Int /\ (p >= a \div U <=> (p + 1) * U > a)
<1> DEFINE q == a \div U
           r == a % U
<1>1. q \in Int /\ r \in Cells(U) /\ a = q * U + r
  BY DigitParts DEF Place
<1> HIDE DEF q, r
<1>2. r \in Nat /\ r < U
  BY <1>1 DEF Cells
<1>3. ASSUME p >= q PROVE (p + 1) * U > a
  <2>1. (p + 1) * U >= (q + 1) * U /\ (q + 1) * U = q * U + U /\ q * U \in Int
    BY <1>1, <1>3
  <2> QED
    BY <1>1, <1>2, <2>1
<1>4. ASSUME p < q PROVE (p + 1) * U <= a
  <2>1. (p + 1) * U <= q * U /\ q * U \in Int /\ (p + 1) * U \in Int
    BY <1>1, <1>4
  <2> QED
    BY <1>1, <1>2, <2>1
<1>5. (p + 1) * U \in Int
  OBVIOUS
<1> QED
  BY <1>1, <1>3, <1>4, <1>5 DEF q

LEMMA Above ==
  ASSUME NEW U \in Nat \ {0}, NEW b \in Int, NEW p \in Int
  PROVE  -((-b) \div U) \in Int /\ (p < -((-b) \div U) <=> p * U < b)
<1> DEFINE q == (-b) \div U
<1>1. -p - 1 \in Int /\ -b \in Int
  OBVIOUS
<1>2. q \in Int /\ (-p - 1 >= q <=> (-p - 1 + 1) * U > -b)
  BY <1>1, Below
<1> HIDE DEF q
<1>3. (-p - 1 + 1) * U = -(p * U) /\ p * U \in Int
  <2>1. -p - 1 + 1 = -p
    OBVIOUS
  <2> QED
    BY <2>1
<1>4. p < -q <=> p * U < b
  BY <1>2, <1>3
<1> QED
  BY <1>2, <1>4 DEF q

LEMMA Limits ==
  ASSUME NEW a \in Int, NEW b \in Int
  PROVE  /\ Max({a, b}) = IF a >= b THEN a ELSE b
         /\ Min({a, b}) = IF a <= b THEN a ELSE b
BY DEF Max, Min

LEMMA ClampIs ==
  ASSUME NEW v \in Int, NEW size \in Nat
  PROVE  Clamp(v, size) = IF v < 0 THEN 0 ELSE IF v > size THEN size ELSE v
<1> DEFINE w == Max({v, 0})
<1>1. w = IF v >= 0 THEN v ELSE 0
  BY Limits
<1>2. w \in Int
  BY <1>1
<1> HIDE DEF w
<1>3. Min({w, size}) = IF w <= size THEN w ELSE size
  BY <1>2, Limits
<1> QED
  BY <1>1, <1>3 DEF Clamp, w

(* PSROIPooling: a bin holds the pixels that it touches, and the bins of a *)
(* region touch every pixel that the region touches.                       *)
LEMMA UnitsOf ==
  ASSUME NEW s \in PSROINodes, NEW from \in Int, NEW to \in Int
  PROVE  /\ s.output_dim \in Nat /\ s.group_size \in Nat \ {0} /\ s.scale \in Nat \ {0}
         /\ unit(s) \in Nat \ {0} /\ Start(s, from) \in Int
         /\ BinSize(s, from, to) \in Nat \ {0} /\ BinSize(s, from, to) >= 10 * (to + 1 - from)
<1>1. s.output_dim \in Nat /\ s.group_size \in Nat \ {0} /\ s.scale \in Nat \ {0}
  BY AnswerAssumption
<1>2. unit(s) \in Nat \ {0}
  <2>1. 10 * s.scale \in Nat \ {0}
    BY <1>1
  <2> DEFINE x == 10 * s.scale
  <2>2. x * s.group_size > 0 /\ x * s.group_size \in Nat
    <3> HIDE DEF x
    <3>1. x \in Nat \ {0}
      BY <2>1 DEF x
    <3> QED
      BY <1>1, <3>1
  <2> QED
    BY <2>2 DEF unit
<1>3. Start(s, from) \in Int
  BY <1>1 DEF Start
<1>4. BinSize(s, from, to) \in Nat \ {0} /\ BinSize(s, from, to) >= 10 * (to + 1 - from)
  <2> DEFINE x == 10 * (to + 1 - from)
  <2>1. x \in Int
    OBVIOUS
  <2>2. BinSize(s, from, to) = Max({x, s.scale})
    BY DEF BinSize
  <2> HIDE DEF x
  <2>3. Max({x, s.scale}) = IF x >= s.scale THEN x ELSE s.scale
    BY <1>1, <2>1, Limits
  <2> QED
    BY <1>1, <2>1, <2>2, <2>3 DEF x
<1> QED
  BY <1>1, <1>2, <1>3, <1>4

LEMMA BinOf ==
  ASSUME NEW s \in PSROINodes, NEW k \in Int, NEW from \in Int, NEW to \in Int, NEW size \in Nat
  PROVE  Bin(s, k, from, to, size)
           = {p \in Cells(size) : /\ p * unit(s) < (k + 1) * BinSize(s, from, to) + Start(s, from)
                                  /\ (p + 1) * unit(s) > k * BinSize(s, from, to) + Start(s, from)}
<1> DEFINE U == unit(s)
           a == k * BinSize(s, from, to) + Start(s, from)
           b == (k + 1) * BinSize(s, from, to) + Start(s, from)
           lo == a \div U
           hi == -((-b) \div U)
<1>1. U \in Nat \ {0} /\ a \in Int /\ b \in Int
  BY UnitsOf
<1>2. /\ BinStart(s, k, from, to, size) = Clamp(lo, size)
      /\ BinEnd(s, k, from, to, size) = Clamp(hi, size)
  BY DEF BinStart, BinEnd
<1> SUFFICES Bin(s, k, from, to, size) = {p \in Cells(size) : p * U < b /\ (p + 1) * U > a}
  OBVIOUS
<1> HIDE DEF U, a, b
<1>3. lo \in Int /\ \A p \in Int : p >= lo <=> (p + 1) * U > a
  BY <1>1, Below
<1>4. hi \in Int /\ \A p \in Int : p < hi <=> p * U < b
  BY <1>1, Above
<1> HIDE DEF lo, hi
<1>5. /\ Clamp(lo, size) = IF lo < 0 THEN 0 ELSE IF lo > size THEN size ELSE lo
      /\ Clamp(hi, size) = IF hi < 0 THEN 0 ELSE IF hi > size THEN size ELSE hi
  BY <1>3, <1>4, ClampIs
<1>6. Bin(s, k, from, to, size) = Clamp(lo, size)..(Clamp(hi, size) - 1)
  BY <1>2 DEF Bin
<1>7. \A p : p \in Clamp(lo, size)..(Clamp(hi, size) - 1) <=> p \in Cells(size) /\ p < hi /\ p >= lo
  BY <1>3, <1>4, <1>5 DEF Cells
<1>8. Cells(size) \subseteq Int
  BY DEF Cells
<1> QED
  BY <1>3, <1>4, <1>6, <1>7, <1>8

LEMMA Touched ==
  ASSUME NEW s \in PSROINodes, NEW from \in Int, NEW to \in Int, NEW p \in Int,
         p * s.scale < to + 1, (p + 1) * s.scale > from
  PROVE  \E k \in Cells(s.group_size) :
           /\ p * unit(s) < (k + 1) * BinSize(s, from, to) + Start(s, from)
           /\ (p + 1) * unit(s) > k * BinSize(s, from, to) + Start(s, from)
<1> DEFINE G == s.group_size
           U == unit(s)
           st == Start(s, from)
           size == BinSize(s, from, to)
           x == p * s.scale
           y == (p + 1) * s.scale
           g == 10 * G
<1>1. /\ G \in Nat \ {0} /\ U \in Nat \ {0} /\ st \in Int /\ size \in Nat \ {0}
      /\ size >= 10 * (to + 1 - from) /\ s.scale \in Nat \ {0}
  BY UnitsOf
<1>2. x \in Int /\ y \in Int /\ g \in Nat \ {0} /\ x < to + 1 /\ y > from
  BY <1>1
<1>3. p * U = x * g /\ (p + 1) * U = y * g /\ st = from * g
  <2>1. \A a, b, c \in Int : a * (10 * b * c) = (a * b) * (10 * c)
    OBVIOUS
  <2>2. p \in Int /\ p + 1 \in Int /\ G \in Int /\ s.scale \in Int
    BY <1>1
  <2>3. U = 10 * s.scale * G
    BY DEF unit
  <2>4. p * U = x * g /\ (p + 1) * U = y * g
    BY <2>1, <2>2, <2>3
  <2>5. st = 10 * G * from
    BY DEF Start
  <2> QED
    BY <2>2, <2>4, <2>5
<1> HIDE DEF U, st, x, y, g, size, G
<1>4. p * U < G * size + st
  <2>1. x * g <= to * g
    BY <1>2
  <2>2. (to + 1 - from) * g = (10 * (to + 1 - from)) * G
    <3>1. \A a, b \in Int : a * (10 * b) = (10 * a) * b
      OBVIOUS
    <3> QED
      BY <1>1, <3>1 DEF g
  <2>3. (10 * (to + 1 - from)) * G <= size * G
    <3> DEFINE m == 10 * (to + 1 - from)
    <3>1. m \in Int /\ m <= size
      BY <1>1
    <3> HIDE DEF m
    <3>2. m * G <= size * G
      BY <1>1, <3>1
    <3> QED
      BY <3>2 DEF m
  <2>4. (to + 1 - from) * g = to * g + g - from * g
    BY <1>2
  <2>5. size * G = G * size
    BY <1>1
  <2>6. to * g \in Int /\ from * g \in Int /\ size * G \in Int /\ x * g \in Int
    BY <1>1, <1>2
  <2> QED
    BY <1>2, <1>3, <2>1, <2>2, <2>3, <2>4, <2>5, <2>6
<1>5. (p + 1) * U > st
  <2>1. /\ y * g >= (from + 1) * g /\ (from + 1) * g = from * g + g
        /\ from * g \in Int /\ y * g \in Int
    BY <1>2
  <2> QED
    BY <1>2, <1>3, <2>1
<1>6. p * U \in Int /\ (p + 1) * U = p * U + U
  BY <1>1
<1> SUFFICES \E k \in Cells(G) : p * U < (k + 1) * size + st /\ (p + 1) * U > k * size + st
  BY DEF G, U, size, st
<1>7. CASE p * U < st
  <2>1. 0 \in Cells(G) /\ (0 + 1) * size = size /\ 0 * size = 0
    BY <1>1 DEF Cells
  <2> QED
    BY <1>1, <1>5, <1>6, <1>7, <2>1
<1>8. CASE p * U >= st
  <2> DEFINE d == p * U - st
             k == d \div size
             r == d % size
  <2>1. d \in Nat /\ d < G * size
    BY <1>1, <1>4, <1>6, <1>8
  <2> HIDE DEF d
  <2>2. k \in Cells(G) /\ r \in Cells(size)
    <3>1. d \in Cells(G * size)
      BY <1>1, <2>1 DEF Cells
    <3> QED
      BY <1>1, <3>1, PartsRange
  <2>3. k \in Int /\ d = k * size + r
    BY <1>1, <2>1, DigitParts DEF Place
  <2> HIDE DEF k, r
  <2>4. r \in Nat /\ r < size
    BY <1>1, <2>2 DEF Cells
  <2>5. (k + 1) * size = k * size + size /\ k * size \in Int
    BY <1>1, <2>3
  <2>6. p * U < (k + 1) * size + st /\ (p + 1) * U > k * size + st
    BY <1>1, <1>6, <2>3, <2>4, <2>5 DEF d
  <2> QED
    BY <2>2, <2>6
<1> QED
  BY <1>1, <1>6, <1>7, <1>8

(* Places with three digits.                                               *)
Place3(C, D, i) == Place(Place(i[1], C, i[2]), D, i[3])

LEMMA ThreeDigits ==
  ASSUME NEW B \in Nat, NEW C \in Nat, NEW D \in Nat,
         NEW i \in Cells(B) \X Cells(C) \X Cells(D),
         NEW j \in Cells(B) \X Cells(C) \X Cells(D),
         Place3(C, D, i) = Place3(C, D, j)
  PROVE  i = j
<1>1. /\ i = <<i[1], i[2], i[3]>> /\ j = <<j[1], j[2], j[3]>>
      /\ i[1] \in Int /\ j[1] \in Int /\ i[2] \in Cells(C) /\ j[2] \in Cells(C)
      /\ i[3] \in Cells(D) /\ j[3] \in Cells(D)
  BY DEF Cells
<1> DEFINE p(k) == Place(k[1], C, k[2])
<1>2. p(i) \in Int /\ p(j) \in Int
  BY <1>1, DigitType
<1>3. p(i) = p(j) /\ i[3] = j[3]
  BY <1>1, <1>2, Digits DEF Place3
<1>4. i[1] = j[1] /\ i[2] = j[2]
  BY <1>1, <1>3, Digits
<1> QED
  BY <1>1, <1>3, <1>4

LEMMA ThreeRange ==
  ASSUME NEW B \in Nat, NEW C \in Nat, NEW D \in Nat,
         NEW i \in Cells(B) \X Cells(C) \X Cells(D)
  PROVE  Place3(C, D, i) \in Cells(B * C * D)
<1> DEFINE p == Place(i[1], C, i[2])
<1>1. B * C \in Nat /\ p \in Cells(B * C)
  BY DigitRange
<1> HIDE DEF p
<1>2. Place(p, D, i[3]) \in Cells((B * C) * D)
  BY <1>1, DigitRange
<1> QED
  BY <1>2 DEF p, Place3

LEMMA ThreeParts ==
  ASSUME NEW B \in Nat, NEW C \in Nat \ {0}, NEW D \in Nat \ {0}, NEW d \in Cells(B * C * D)
  PROVE  \E i \in Cells(B) \X Cells(C) \X Cells(D) : Place3(C, D, i) = d
<1> DEFINE q == d \div D
           r == d % D
<1>1. B * C \in Nat /\ d \in Int
  BY DEF Cells
<1>2. q \in Cells(B * C) /\ r \in Cells(D) /\ d = Place(q, D, r)
  <2> DEFINE A == B * C
  <2>1. A \in Nat /\ d \in Cells(A * D)
    BY <1>1
  <2> HIDE DEF A
  <2>2. q \in Cells(A) /\ r \in Cells(D)
    BY <2>1, PartsRange
  <2> QED
    BY <1>1, <2>2, DigitParts DEF A
<1> HIDE DEF q, r
<1>3. q \div C \in Cells(B) /\ q % C \in Cells(C) /\ q = Place(q \div C, C, q % C)
  <2>1. q \in Int
    BY <1>2 DEF Cells
  <2> QED
    BY <1>2, <2>1, PartsRange, DigitParts
<1> DEFINE a == q \div C
           b == q % C
<1>4. a \in Cells(B) /\ b \in Cells(C) /\ q = Place(a, C, b)
  BY <1>3
<1> HIDE DEF a, b
<1> DEFINE i == <<a, b, r>>
<1>5. i \in Cells(B) \X Cells(C) \X Cells(D)
  BY <1>2, <1>4
<1>6. Place3(C, D, i) = d
  BY <1>2, <1>4 DEF Place3
<1> QED
  BY <1>5, <1>6

(* Stores of a loop, and a cell that iteration i stored into, and no other *)
(* iteration stored another value.                                         *)
StoresOf(stores, I, c, v) ==
  /\ \A j \in I : <<c[j], v[j]>> \in stores
  /\ \A p \in stores : \E j \in I : p = <<c[j], v[j]>>

LEMMA StoredBy ==
  ASSUME NEW I, NEW c, NEW v, NEW blob, NEW stores, StoresOf(stores, I, c, v),
         NEW i \in I, c[i] \in DOMAIN blob,
         \A j \in I : c[j] = c[i] => v[j] = v[i]
  PROVE  Stored(blob, stores)[c[i]] = v[i]
<1>1. <<c[i], v[i]>> \in stores
  BY DEF StoresOf
<1>2. \A p \in stores : p[1] = c[i] => p[2] = v[i]
  BY DEF StoresOf
<1> QED
  BY <1>1, <1>2, StoredOnce

LEMMA PSROIAnswer ==
  ASSUME NEW s \in PSROINodes, PSROIPooling(s)
  PROVE  PSROIRight(s, answer')
<1> DEFINE g == s.group_size
           od == s.output_dim
           I == Cells(od) \X Cells(g) \X Cells(g)
           rows(h) == Bin(s, h, s.roi.y0, s.roi.y1, s.height)
           cols(w) == Bin(s, w, s.roi.x0, s.roi.x1, s.width)
           c == [i \in I |-> Place3(g, g, i)]
           v == [i \in I |-> [channel |-> Place3(g, g, i), pixels |-> rows(i[2]) \X cols(i[3])]]
           map == Cells(s.height) \X Cells(s.width)
           Touches(p, k, from, to) ==
             /\ p * unit(s) < (k + 1) * BinSize(s, from, to) + Start(s, from)
             /\ (p + 1) * unit(s) > k * BinSize(s, from, to) + Start(s, from)
           InRegion(p, from, to) == p * s.scale < to + 1 /\ (p + 1) * s.scale > from
           stores == {<<(i[1] * g + i[2]) * g + i[3],
                        [channel |-> (i[1] * g + i[2]) * g + i[3],
                         pixels |-> rows(i[2]) \X cols(i[3])]>> : i \in I}
           out(a, h, w) == answer'[(a * g + h) * g + w]
           bin(h, w) == {p \in map : /\ Touches(p[1], h, s.roi.y0, s.roi.y1)
                                      /\ Touches(p[2], w, s.roi.x0, s.roi.x1)}
           channels == {out(i[1], i[2], i[3]).channel : i \in I}
<1>1. /\ od \in Nat /\ g \in Nat \ {0} /\ s.height \in Nat /\ s.width \in Nat
      /\ s.roi.x0 \in Int /\ s.roi.y0 \in Int /\ s.roi.x1 \in Int /\ s.roi.y1 \in Int
  BY AnswerAssumption
<1>2. answer' = Stored(Blob(od * g * g), stores) /\ StoresOf(stores, I, c, v)
  <2>1. answer' = Stored(Blob(od * g * g), stores)
    BY DEF PSROIPooling, Fill
  <2>2. \A i \in I : /\ c[i] = (i[1] * g + i[2]) * g + i[3]
                     /\ v[i] = [channel |-> (i[1] * g + i[2]) * g + i[3],
                                pixels |-> rows(i[2]) \X cols(i[3])]
    BY DEF Place3, Place
  <2>3. StoresOf(stores, I, c, v)
    <3> HIDE DEF c, v, I, rows, cols
    <3> QED
      BY <2>2 DEF StoresOf
  <2> HIDE DEF c, v, I, stores
  <2> QED
    BY <2>1, <2>3
<1> HIDE DEF stores
<1>3. ASSUME NEW i \in I
      PROVE  /\ answer'[Place3(g, g, i)].channel = Place3(g, g, i)
             /\ answer'[Place3(g, g, i)].pixels = rows(i[2]) \X cols(i[3])
  <2>1. c[i] = Place3(g, g, i)
    OBVIOUS
  <2>2. c[i] \in DOMAIN Blob(od * g * g)
    BY <1>1, ThreeRange DEF Blob
  <2>3. \A j \in I : c[j] = c[i] => v[j] = v[i]
    <3>1. \A j \in I : c[j] = c[i] => j = i
      BY <1>1, ThreeDigits
    <3> HIDE DEF c, v, I
    <3> QED
      BY <3>1
  <2>4. v[i] = [channel |-> Place3(g, g, i), pixels |-> rows(i[2]) \X cols(i[3])]
    OBVIOUS
  <2> HIDE DEF c, v, I, rows, cols
  <2>5. answer'[c[i]] = v[i]
    BY <1>2, <2>2, <2>3, StoredBy
  <2> QED
    BY <2>1, <2>4, <2>5
<1>4. \A h, w \in Int : rows(h) \X cols(w) = bin(h, w)
  <2> SUFFICES ASSUME NEW h \in Int, NEW w \in Int PROVE rows(h) \X cols(w) = bin(h, w)
    OBVIOUS
  <2>1. rows(h) = {p \in Cells(s.height) : Touches(p, h, s.roi.y0, s.roi.y1)}
    BY <1>1, BinOf
  <2>2. cols(w) = {p \in Cells(s.width) : Touches(p, w, s.roi.x0, s.roi.x1)}
    BY <1>1, BinOf
  <2> HIDE DEF rows, cols, Touches
  <2> QED
    BY <2>1, <2>2
<1>5. \A p \in Int, from, to \in Int :
        InRegion(p, from, to) => \E k \in Cells(g) : Touches(p, k, from, to)
  BY Touched
<1>6. Cells(g) \subseteq Int /\ Cells(s.height) \subseteq Int /\ Cells(s.width) \subseteq Int
  BY DEF Cells
<1>7. {answer'[Place3(g, g, i)].channel : i \in I} = Cells(od * g * g)
  <2>1. \A i \in I : Place3(g, g, i) \in Cells(od * g * g)
    BY <1>1, ThreeRange
  <2>2. \A d \in Cells(od * g * g) : \E i \in I : Place3(g, g, i) = d
    BY <1>1, ThreeParts
  <2> HIDE DEF I
  <2> QED
    BY <1>3, <2>1, <2>2
<1> HIDE DEF rows, cols, c, v, Touches, InRegion
<1>8. ASSUME NEW a \in Cells(od), NEW h \in Cells(g), NEW w \in Cells(g)
      PROVE  answer'[Place3(g, g, <<a, h, w>>)].pixels = bin(h, w)
  <2>1. <<a, h, w>> \in I /\ <<a, h, w>>[2] = h /\ <<a, h, w>>[3] = w /\ h \in Int /\ w \in Int
    BY <1>6
  <2> HIDE DEF I, bin
  <2>2. answer'[Place3(g, g, <<a, h, w>>)].pixels = rows(h) \X cols(w)
    BY <1>3, <2>1
  <2> QED
    BY <1>4, <2>1, <2>2
<1>9. ASSUME NEW a \in Cells(od), NEW p \in map,
             InRegion(p[1], s.roi.y0, s.roi.y1), InRegion(p[2], s.roi.x0, s.roi.x1)
      PROVE  \E h \in Cells(g), w \in Cells(g) : p \in bin(h, w)
  <2>1. p[1] \in Int /\ p[2] \in Int
    BY <1>6
  <2>2. PICK h \in Cells(g) : Touches(p[1], h, s.roi.y0, s.roi.y1)
    BY <1>1, <1>5, <1>9, <2>1
  <2>3. PICK w \in Cells(g) : Touches(p[2], w, s.roi.x0, s.roi.x1)
    BY <1>1, <1>5, <1>9, <2>1
  <2> QED
    BY <2>2, <2>3
<1>10. ASSUME NEW a \in Cells(od), NEW h \in Cells(g), NEW w \in Cells(g)
       PROVE  <<a, h, w>> \in I /\ out(a, h, w) = answer'[Place3(g, g, <<a, h, w>>)]
  BY DEF Place3, Place
<1>11. ASSUME NEW i \in I
       PROVE  out(i[1], i[2], i[3]) = answer'[Place3(g, g, i)]
  BY DEF Place3, Place
<1> HIDE DEF out
<1>14. channels = Cells(od * g * g)
  <2> HIDE DEF I
  <2>1. ASSUME NEW d \in Cells(od * g * g) PROVE d \in channels
    <3>1. PICK i \in I : Place3(g, g, i) = d
      BY <1>1, ThreeParts DEF I
    <3> QED
      BY <1>3, <1>11, <3>1
  <2>2. ASSUME NEW d \in channels PROVE d \in Cells(od * g * g)
    <3>1. PICK i \in I : d = out(i[1], i[2], i[3]).channel
      OBVIOUS
    <3>2. Place3(g, g, i) \in Cells(od * g * g)
      BY <1>1, ThreeRange DEF I
    <3> QED
      BY <1>3, <1>11, <3>1, <3>2
  <2> HIDE DEF channels
  <2> QED
    BY <2>1, <2>2
<1> HIDE DEF bin, channels
<1>12. \A a \in Cells(od), h \in Cells(g), w \in Cells(g) : out(a, h, w).pixels = bin(h, w)
  <2> SUFFICES ASSUME NEW a \in Cells(od), NEW h \in Cells(g), NEW w \in Cells(g)
               PROVE  out(a, h, w).pixels = bin(h, w)
    OBVIOUS
  <2>1. out(a, h, w) = answer'[Place3(g, g, <<a, h, w>>)]
    BY <1>10
  <2>2. answer'[Place3(g, g, <<a, h, w>>)].pixels = bin(h, w)
    BY <1>8, Zenon
  <2> QED
    BY <2>1, <2>2
<1>13. \A a \in Cells(od), p \in map :
         InRegion(p[1], s.roi.y0, s.roi.y1) /\ InRegion(p[2], s.roi.x0, s.roi.x1) =>
           \E h \in Cells(g), w \in Cells(g) : p \in out(a, h, w).pixels
  <2> SUFFICES ASSUME NEW a \in Cells(od), NEW p \in map,
                      InRegion(p[1], s.roi.y0, s.roi.y1), InRegion(p[2], s.roi.x0, s.roi.x1)
               PROVE  \E h \in Cells(g), w \in Cells(g) : p \in out(a, h, w).pixels
    OBVIOUS
  <2>1. PICK h \in Cells(g), w \in Cells(g) : p \in bin(h, w)
    BY <1>9
  <2> HIDE DEF map, I
  <2> QED
    BY <1>12, <2>1
<1> QED
  BY <1>14, <1>12, <1>13, Zenon DEF PSROIRight, Touches, InRegion, out, bin, channels

-----------------------------------------------------------------------------
(* Resample.                                                               *)

(* How far a point is from the centre of pixel i, where 2M is the side of  *)
(* a pixel, and when it is so near that no other can be nearer.            *)
Gap(p, i, M) == LET d == p - (2 * i + 1) * M IN IF d < 0 THEN -d ELSE d
Near(p, i, M) == LET d == p - (2 * i + 1) * M IN -M <= d /\ d <= M

LEMMA NearIsNearest ==
  ASSUME NEW p \in Int, NEW i \in Int, NEW M \in Nat, Near(p, i, M), NEW z \in Int
  PROVE  Gap(p, i, M) <= Gap(p, z, M)
<1> DEFINE a == (2 * i + 1) * M
           b == (2 * z + 1) * M
<1>1. a \in Int /\ b \in Int
  OBVIOUS
<1>2. CASE z = i
  BY <1>1, <1>2 DEF Gap
<1>3. CASE z > i
  <2>1. b >= a + 2 * M
    <3>1. (z - i) * M >= 1 * M
      BY <1>3
    <3>2. (z - i) * M = z * M - i * M /\ z * M \in Int /\ i * M \in Int
          /\ b = 2 * (z * M) + M /\ a = 2 * (i * M) + M
      OBVIOUS
    <3> HIDE DEF a, b
    <3> QED
      BY <3>1, <3>2
  <2> HIDE DEF a, b
  <2> QED
    BY <1>1, <2>1 DEF Gap, Near, a, b
<1>4. CASE z < i
  <2>1. b <= a - 2 * M
    <3>1. (i - z) * M >= 1 * M
      BY <1>4
    <3>2. (i - z) * M = i * M - z * M /\ z * M \in Int /\ i * M \in Int
          /\ b = 2 * (z * M) + M /\ a = 2 * (i * M) + M
      OBVIOUS
    <3> HIDE DEF a, b
    <3> QED
      BY <3>1, <3>2
  <2> HIDE DEF a, b
  <2> QED
    BY <1>1, <2>1 DEF Gap, Near, a, b
<1> QED
  BY <1>2, <1>3, <1>4

LEMMA Rounds ==
  ASSUME NEW p \in Int, NEW M \in Nat \ {0}
  PROVE  p \div (2 * M) \in Int /\ Near(p, p \div (2 * M), M)
<1> DEFINE U == 2 * M
           x == p \div U
           r == p % U
<1>1. U \in Nat \ {0}
  OBVIOUS
<1>2. x \in Int /\ r \in Cells(U) /\ p = x * U + r
  <2> HIDE DEF U
  <2>1. x \in Int /\ r \in Cells(U) /\ p = Place(x, U, r)
    BY <1>1, DigitParts
  <2> HIDE DEF x, r
  <2> QED
    BY <2>1 DEF Place
<1>3. r \in Nat /\ r < U
  BY <1>1, <1>2 DEF Cells
<1> HIDE DEF x, r
<1>4. (2 * x + 1) * M = x * U + M /\ x * U \in Int
  BY <1>2
<1>5. -M <= p - (2 * x + 1) * M /\ p - (2 * x + 1) * M <= M
  BY <1>2, <1>3, <1>4
<1> QED
  BY <1>2, <1>5 DEF Near, x

(* The point that is reckoned for output pixel o.                          *)
Point(o, ins, others, outs, insO) == 2 * o * ins * others + insO * outs

LEMMA PointFits ==
  ASSUME NEW ins \in Nat \ {0}, NEW outs \in Nat \ {0}, NEW others \in Nat \ {0},
         NEW insO \in Nat \ {0}, NEW o \in Cells(outs)
  PROVE  LET p == Point(o, ins, others, outs, insO)
             U == 2 * (outs * others)
         IN  /\ p \in Cells((insO + ins) * U)
             /\ insO * outs = ins * others => p \in Cells(ins * U)
<1> DEFINE w == ins * others
           t == insO * outs
           q == outs * w
           p == Point(o, ins, others, outs, insO)
           U == 2 * (outs * others)
<1>1. o \in Nat /\ o + 1 <= outs
  BY DEF Cells
<1>2. w \in Nat \ {0} /\ t \in Nat \ {0}
  OBVIOUS
<1>3. p = 2 * (o * w) + t
  <2>1. 2 * o * ins * others = 2 * (o * (ins * others))
    BY <1>1
  <2> QED
    BY <2>1 DEF Point
<1>4. ins * U = 2 * q
  <2>1. \A a, b, c \in Int : a * (2 * (b * c)) = 2 * (b * (a * c))
    OBVIOUS
  <2> QED
    BY <2>1
<1>5. insO * U \in Nat /\ 2 * t <= insO * U
  <2>1. \A a, b, c \in Int : a * (2 * (b * c)) = 2 * (a * b * c)
    OBVIOUS
  <2>2. insO * U = 2 * (t * others)
    BY <2>1
  <2> HIDE DEF t
  <2>3. t * 1 <= t * others /\ t * others \in Nat
    BY <1>2
  <2> QED
    BY <1>2, <2>2, <2>3
<1>6. (insO + ins) * U = insO * U + ins * U
  <2> HIDE DEF U
  <2>1. U \in Int
    BY DEF U
  <2> QED
    BY <2>1
<1> HIDE DEF p, U, t
<1>7. o * w + w <= q /\ o * w \in Nat /\ q \in Nat
  <2> HIDE DEF w
  <2>1. (o + 1) * w <= outs * w /\ (o + 1) * w = o * w + w /\ o * w \in Nat /\ outs * w \in Nat
    BY <1>1, <1>2
  <2> QED
    BY <2>1
<1> DEFINE x == o * w
<1> HIDE DEF q, x, w
<1>8. p = 2 * x + t /\ x + w <= q /\ x \in Nat /\ q \in Nat
  BY <1>3, <1>7 DEF x
<1>9. p \in Cells(insO * U + ins * U)
  BY <1>2, <1>4, <1>5, <1>8 DEF Cells
<1>10. t = w => p \in Cells(ins * U)
  BY <1>2, <1>4, <1>8 DEF Cells
<1> QED
  BY <1>6, <1>9, <1>10 DEF p, U, t, w

(* What the kernel picks for a column and a row.                           *)
LEMMA PickedFor ==
  ASSUME NEW s \in ResampleNodes, NEW oy \in Cells(s.OH), NEW ox \in Cells(s.OW)
  PROVE  LET M == s.OW * s.OH
             px == Point(ox, s.IW, s.OH, s.OW, s.IH)
             py == Point(oy, s.IH, s.OW, s.OH, s.IW)
             x == NearestX(s, ox)
             y == NearestY(s, oy)
         IN  /\ M \in Nat /\ px \in Int /\ py \in Int
             /\ x \in Cells(s.IH + s.IW) /\ Near(px, x, M)
             /\ y \in Cells(s.IH + s.IW) /\ Near(py, y, M)
             /\ s.IH * s.OW = s.IW * s.OH => x \in Cells(s.IW) /\ y \in Cells(s.IH)
<1> DEFINE IW == s.IW
           IH == s.IH
           OW == s.OW
           OH == s.OH
           M == OW * OH
           U == 2 * M
           px == Point(ox, IW, OH, OW, IH)
           py == Point(oy, IH, OW, OH, IW)
           x == px \div U
           y == py \div U
<1>1. IH \in Nat \ {0} /\ IW \in Nat \ {0} /\ OH \in Nat \ {0} /\ OW \in Nat \ {0}
  BY AnswerAssumption
<1>2. ox \in Cells(OW) /\ oy \in Cells(OH)
  OBVIOUS
<1>3. x = NearestX(s, ox) /\ y = NearestY(s, oy)
  <2>1. 2 * OW * OH = 2 * (OW * OH)
    BY <1>1
  <2> QED
    BY <2>1 DEF NearestX, NearestY, Point
<1> HIDE DEF IW, IH, OW, OH
<1>4. M \in Nat \ {0} /\ U \in Nat \ {0} /\ OH * OW = M
  BY <1>1
<1>5. px \in Cells((IH + IW) * U) /\ (IH * OW = IW * OH => px \in Cells(IW * U))
  BY <1>1, <1>2, PointFits
<1>6. py \in Cells((IW + IH) * U) /\ (IW * OH = IH * OW => py \in Cells(IH * U))
  <2>1. /\ py \in Cells((IW + IH) * (2 * (OH * OW)))
        /\ (IW * OH = IH * OW => py \in Cells(IH * (2 * (OH * OW))))
    BY <1>1, <1>2, PointFits
  <2> HIDE DEF M, py
  <2> QED
    BY <1>4, <2>1
<1> HIDE DEF M, px, py
<1>7. px \in Int /\ py \in Int
  BY <1>5, <1>6 DEF Cells
<1>8. Near(px, x, M) /\ Near(py, y, M)
  BY <1>4, <1>7, Rounds
<1> HIDE DEF U
<1>9. IH + IW \in Nat /\ IW + IH = IH + IW
  BY <1>1
<1>10. x \in Cells(IH + IW) /\ y \in Cells(IH + IW)
  BY <1>4, <1>5, <1>6, <1>9, PartsRange
<1>11. IH * OW = IW * OH => x \in Cells(IW) /\ y \in Cells(IH)
  BY <1>1, <1>4, <1>5, <1>6, PartsRange
<1> HIDE DEF x, y
<1> QED
  BY <1>3, <1>4, <1>7, <1>8, <1>10, <1>11 DEF IW, IH, OW, OH, M, px, py

(* Of a picture that is enlarged k times, k by k pixels are copies of one. *)
LEMMA PickedOfBlock ==
  ASSUME NEW s \in ResampleNodes, NEW k \in Nat \ {0}, Upsamples(s, k),
         NEW a \in Int, NEW e \in Cells(k)
  PROVE  NearestX(s, k * a + e) = a /\ NearestY(s, k * a + e) = a
<1> DEFINE IW == s.IW
           IH == s.IH
           w == IW * (k * IH)
           N == 2 * (k * w)
           b == (2 * e + 1) * w
           p == 2 * (k * a + e) * w + w
<1>1. /\ IH \in Nat \ {0} /\ IW \in Nat \ {0} /\ k * IW = s.OW /\ k * IH = s.OH
  BY AnswerAssumption DEF Upsamples
<1> HIDE DEF IW, IH
<1>2. w \in Nat \ {0} /\ IH * (k * IW) = w
  <2>1. k * IH \in Nat \ {0}
    BY <1>1
  <2>2. IH * (k * IW) = IW * (k * IH)
    BY <1>1
  <2> QED
    BY <1>1, <2>1, <2>2
<1>3. 2 * (k * IW) * (k * IH) = N
  <2>1. \A u, v, t \in Int : 2 * (u * v) * t = 2 * (u * (v * t))
    OBVIOUS
  <2>2. k * IH \in Int
    BY <1>1
  <2> QED
    BY <1>1, <2>1, <2>2
<1>4. /\ 2 * (k * a + e) * IW * (k * IH) + IH * (k * IW) = p
      /\ 2 * (k * a + e) * IH * (k * IW) + IW * (k * IH) = p
  <2>1. \A c, u, v \in Int : 2 * c * u * v = 2 * c * (u * v)
    OBVIOUS
  <2>2. k * IH \in Int /\ k * IW \in Int /\ k * a + e \in Int
    BY <1>1 DEF Cells
  <2> DEFINE c == k * a + e
             u == k * IH
             v == k * IW
  <2>3. 2 * c * IW * u = 2 * c * (IW * u) /\ 2 * c * IH * v = 2 * c * (IH * v)
    <3> HIDE DEF c, u, v
    <3> QED
      BY <1>1, <2>1, <2>2 DEF c, u, v
  <2> QED
    BY <1>2, <2>3
<1> HIDE DEF w
<1>5. N \in Nat \ {0}
  <2>1. k * w \in Nat \ {0}
    BY <1>2
  <2> QED
    BY <2>1
<1>6. e \in Nat /\ e + 1 <= k
  BY DEF Cells
<1>7. b \in Cells(N)
  <2> DEFINE f == 2 * e + 1
             g == 2 * k
  <2>1. f \in Nat /\ f + 1 <= g /\ g \in Nat
    BY <1>6
  <2>2. g * w = N
    BY <1>2
  <2> HIDE DEF f, g, N
  <2>3. (f + 1) * w <= g * w /\ (f + 1) * w = f * w + w /\ f * w \in Nat
    BY <1>2, <2>1
  <2>4. f * w \in Cells(N)
    BY <1>2, <1>5, <2>2, <2>3 DEF Cells
  <2> QED
    BY <2>4 DEF f
<1>8. p = a * N + b
  <2> DEFINE c == k * a
             d == c * w
             h == e * w
  <2>1. a * (2 * (k * w)) = 2 * ((k * a) * w)
    BY <1>2
  <2>2. c \in Int /\ d \in Int /\ h \in Int
    BY <1>2, <1>6
  <2>3. 2 * (c + e) * w = 2 * d + 2 * h /\ (2 * e + 1) * w = 2 * h + w
    <3> HIDE DEF c
    <3> QED
      BY <1>2, <1>6, <2>2
  <2> HIDE DEF d, h
  <2>4. 2 * (c + e) * w + w = 2 * d + (2 * e + 1) * w
    BY <1>2, <2>2, <2>3
  <2>5. p = 2 * d + b
    BY <2>4
  <2> HIDE DEF p, b, c
  <2> QED
    BY <2>1, <2>5 DEF c, d
<1> HIDE DEF N, b, p
<1>9. p \div N = a
  <2>1. Place(a, N, b) \div N = a
    BY <1>5, <1>7, PartsOf
  <2> QED
    BY <1>8, <2>1 DEF Place
<1> QED
  BY <1>1, <1>3, <1>4, <1>9 DEF NearestX, NearestY, IW, IH

(* Every output pixel is a copy of what is picked for it.                  *)
CopiesPicked(s, blob) ==
  \A oy \in Cells(s.OH), ox \in Cells(s.OW) :
    blob[Place(oy, s.OW, ox)] = Place(NearestY(s, oy), s.IW, NearestX(s, ox))

(* The general loop.                                                       *)
LEMMA EachPixel ==
  ASSUME NEW s \in ResampleNodes
  PROVE  CopiesPicked(s, Stored(Blob(s.OH * s.OW),
                              {<<i[1] * s.OW + i[2], NearestY(s, i[1]) * s.IW + NearestX(s, i[2])>> :
                                 i \in Cells(s.OH) \X Cells(s.OW)}))
<1> DEFINE I == Cells(s.OH) \X Cells(s.OW)
           stores == {<<i[1] * s.OW + i[2], NearestY(s, i[1]) * s.IW + NearestX(s, i[2])>> :
                        i \in I}
           c == [i \in I |-> Place(i[1], s.OW, i[2])]
           v == [i \in I |-> Place(NearestY(s, i[1]), s.IW, NearestX(s, i[2]))]
           blob == Stored(Blob(s.OH * s.OW), stores)
<1>1. s.IH \in Nat \ {0} /\ s.IW \in Nat \ {0} /\ s.OH \in Nat \ {0} /\ s.OW \in Nat \ {0}
  BY AnswerAssumption
<1>2. StoresOf(stores, I, c, v)
  <2>1. \A i \in I : /\ c[i] = i[1] * s.OW + i[2]
                     /\ v[i] = NearestY(s, i[1]) * s.IW + NearestX(s, i[2])
    BY DEF Place
  <2> HIDE DEF c, v, I
  <2> QED
    BY <2>1 DEF StoresOf
<1> HIDE DEF stores
<1>3. ASSUME NEW oy \in Cells(s.OH), NEW ox \in Cells(s.OW)
      PROVE  blob[Place(oy, s.OW, ox)] = Place(NearestY(s, oy), s.IW, NearestX(s, ox))
  <2> DEFINE i == <<oy, ox>>
             y == NearestY(s, oy)
             x == NearestX(s, ox)
  <2>1. i \in I /\ c[i] = Place(oy, s.OW, ox) /\ v[i] = Place(y, s.IW, x)
    OBVIOUS
  <2>2. c[i] \in DOMAIN Blob(s.OH * s.OW)
    BY <1>1, <2>1, DigitRange DEF Blob
  <2>3. \A j \in I : c[j] = c[i] => v[j] = v[i]
    <3>1. ASSUME NEW j \in I, c[j] = c[i] PROVE j = i
      <4>1. j[1] \in Int /\ j[2] \in Cells(s.OW) /\ oy \in Int /\ j = <<j[1], j[2]>>
        BY DEF Cells
      <4>2. Place(j[1], s.OW, j[2]) = Place(oy, s.OW, ox)
        <5>1. c[j] = Place(j[1], s.OW, j[2])
          OBVIOUS
        <5> HIDE DEF c, I, i
        <5> QED
          BY <2>1, <3>1, <5>1
      <4> HIDE DEF I, c, v, i
      <4>3. j[1] = oy /\ j[2] = ox
        BY <1>1, <4>1, <4>2, Digits
      <4> QED
        BY <4>1, <4>3 DEF i
    <3> HIDE DEF I, i
    <3> QED
      BY <3>1
  <2>4. blob[c[i]] = v[i]
    <3> HIDE DEF c, v, I, i
    <3> QED
      BY <1>2, <2>1, <2>2, <2>3, StoredBy
  <2> HIDE DEF i, c, v, x, y
  <2> QED
    BY <2>1, <2>4 DEF x, y
<1> QED
  BY <1>3 DEF CopiesPicked, stores

(* The loop for a factor of two.                                           *)
LEMMA EachBlock ==
  ASSUME NEW s \in ResampleNodes, Upsamples(s, 2)
  PROVE  CopiesPicked(s, Stored(Blob(s.OH * s.OW),
                              {<<(2 * i[1] + i[3]) * s.OW + 2 * i[2] + i[4], i[1] * s.IW + i[2]>> :
                                 i \in Cells(s.IH) \X Cells(s.IW) \X Cells(2) \X Cells(2)}))
<1> DEFINE I == Cells(s.IH) \X Cells(s.IW) \X Cells(2) \X Cells(2)
           stores == {<<(2 * i[1] + i[3]) * s.OW + 2 * i[2] + i[4], i[1] * s.IW + i[2]>> : i \in I}
           c == [i \in I |-> Place(2 * i[1] + i[3], s.OW, 2 * i[2] + i[4])]
           v == [i \in I |-> Place(i[1], s.IW, i[2])]
           blob == Stored(Blob(s.OH * s.OW), stores)
<1>1. /\ s.IH \in Nat \ {0} /\ s.IW \in Nat \ {0} /\ s.OH \in Nat \ {0} /\ s.OW \in Nat \ {0}
      /\ s.OW = 2 * s.IW /\ s.OH = 2 * s.IH
  BY AnswerAssumption DEF Upsamples
<1>2. \A i \in I : /\ i = <<i[1], i[2], i[3], i[4]>> /\ i[1] \in Int /\ i[2] \in Int
                   /\ i[3] \in 0..1 /\ i[4] \in 0..1
                   /\ 2 * i[1] + i[3] \in Cells(s.OH) /\ 2 * i[2] + i[4] \in Cells(s.OW)
  BY <1>1 DEF Cells
<1>3. StoresOf(stores, I, c, v)
  <2>1. \A i \in I : /\ c[i] = (2 * i[1] + i[3]) * s.OW + 2 * i[2] + i[4]
                     /\ v[i] = i[1] * s.IW + i[2]
    <3> SUFFICES ASSUME NEW i \in I
                 PROVE  Place(2 * i[1] + i[3], s.OW, 2 * i[2] + i[4])
                          = (2 * i[1] + i[3]) * s.OW + 2 * i[2] + i[4]
      BY DEF Place
    <3> DEFINE m == (2 * i[1] + i[3]) * s.OW
               k == 2 * i[2]
    <3>1. m \in Int /\ k \in Int /\ i[4] \in Int
      BY <1>1, <1>2
    <3> HIDE DEF m, k, I
    <3>2. m + k + i[4] = m + (k + i[4])
      BY <3>1
    <3> QED
      BY <3>2 DEF Place, m, k
  <2> HIDE DEF c, v, I
  <2> QED
    BY <2>1 DEF StoresOf
<1> HIDE DEF stores
<1>4. ASSUME NEW oy \in Cells(s.OH), NEW ox \in Cells(s.OW)
      PROVE  blob[Place(oy, s.OW, ox)] = Place(NearestY(s, oy), s.IW, NearestX(s, ox))
  <2> DEFINE y == oy \div 2
             x == ox \div 2
             i == <<y, x, oy % 2, ox % 2>>
  <2>1. /\ y \in Cells(s.IH) /\ x \in Cells(s.IW) /\ oy % 2 \in Cells(2) /\ ox % 2 \in Cells(2)
        /\ oy = 2 * y + (oy % 2) /\ ox = 2 * x + (ox % 2)
    BY <1>1 DEF Cells
  <2>2. i \in I /\ c[i] = Place(oy, s.OW, ox) /\ v[i] = Place(y, s.IW, x)
    <3> HIDE DEF x, y
    <3> QED
      BY <2>1
  <2>3. c[i] \in DOMAIN Blob(s.OH * s.OW)
    BY <1>1, <2>2, DigitRange DEF Blob
  <2> HIDE DEF i
  <2>4. \A j \in I : c[j] = c[i] => v[j] = v[i]
    <3>1. ASSUME NEW j \in I, c[j] = c[i] PROVE j[1] = i[1] /\ j[2] = i[2]
      <4>1. \A k \in I : 2 * k[1] + k[3] \in Int
        BY <1>2
      <4>2. Place(2 * j[1] + j[3], s.OW, 2 * j[2] + j[4])
              = Place(2 * i[1] + i[3], s.OW, 2 * i[2] + i[4])
        BY <2>2, <3>1
      <4> HIDE DEF I
      <4>3. 2 * j[1] + j[3] = 2 * i[1] + i[3] /\ 2 * j[2] + j[4] = 2 * i[2] + i[4]
        BY <1>1, <1>2, <2>2, <4>1, <4>2, Digits
      <4> QED
        BY <1>2, <2>2, <4>3
    <3> HIDE DEF I
    <3>2. \A j \in I : v[j] = Place(j[1], s.IW, j[2])
      BY DEF I
    <3> HIDE DEF v
    <3> QED
      BY <2>2, <3>1, <3>2
  <2>5. blob[c[i]] = v[i]
    <3> HIDE DEF c, v, I
    <3> QED
      BY <1>3, <2>2, <2>3, <2>4, StoredBy
  <2>6. NearestX(s, ox) = x /\ NearestY(s, oy) = y
    <3>1. x \in Int /\ y \in Int /\ ox % 2 \in Cells(2) /\ oy % 2 \in Cells(2) /\ 2 \in Nat \ {0}
      BY <2>1 DEF Cells
    <3> HIDE DEF x, y
    <3>2. NearestX(s, 2 * x + (ox % 2)) = x /\ NearestY(s, 2 * y + (oy % 2)) = y
      BY <3>1, PickedOfBlock
    <3> QED
      BY <2>1, <3>2
  <2> HIDE DEF c, v, x, y
  <2> QED
    BY <2>2, <2>5, <2>6
<1> QED
  BY <1>4 DEF CopiesPicked, stores

(* The loop for a factor of four: four pixels at a time.                   *)
LEMMA FourApart ==
  ASSUME NEW d \in Int, NEW e \in Int, NEW a \in Cells(4), NEW b \in Cells(4),
         d % 4 = 0, e % 4 = 0, d + a = e + b
  PROVE  d = e
<1> DEFINE D == d \div 4
           E == e \div 4
<1>1. 4 \in Nat \ {0} /\ 4 \in Nat /\ a \in Int /\ b \in Int
  BY DEF Cells
<1>2. D \in Int /\ d = Place(D, 4, d % 4) /\ E \in Int /\ e = Place(E, 4, e % 4)
  BY <1>1, DigitParts
<1> HIDE DEF D, E
<1>3. d = D * 4 /\ e = E * 4
  BY <1>2 DEF Place
<1>4. Place(D, 4, a) = Place(E, 4, b)
  BY <1>3 DEF Place
<1>5. D = E
  BY <1>1, <1>2, <1>4, Digits
<1> QED
  BY <1>3, <1>5

LEMMA EachFour ==
  ASSUME NEW s \in ResampleNodes, Upsamples(s, 4)
  PROVE  CopiesPicked(s, Stored(Blob(s.OH * s.OW),
                              {<<i[1] * s.OW + i[2] + i[3],
                                 NearestY(s, i[1]) * s.IW + NearestX(s, i[2])>> :
                                 i \in Cells(s.OH) \X {ox \in Cells(s.OW - 3) : ox % 4 = 0} \X Cells(4)}))
<1> DEFINE I == Cells(s.OH) \X {ox \in Cells(s.OW - 3) : ox % 4 = 0} \X Cells(4)
           stores == {<<i[1] * s.OW + i[2] + i[3],
                        NearestY(s, i[1]) * s.IW + NearestX(s, i[2])>> : i \in I}
           c == [i \in I |-> Place(i[1], s.OW, i[2] + i[3])]
           v == [i \in I |-> Place(NearestY(s, i[1]), s.IW, NearestX(s, i[2]))]
           blob == Stored(Blob(s.OH * s.OW), stores)
<1>1. /\ s.IH \in Nat \ {0} /\ s.IW \in Nat \ {0} /\ s.OH \in Nat \ {0} /\ s.OW \in Nat \ {0}
      /\ s.OW = 4 * s.IW /\ s.OH = 4 * s.IH
  BY AnswerAssumption DEF Upsamples
<1>2. \A i \in I : /\ i = <<i[1], i[2], i[3]>> /\ i[1] \in Int /\ i[2] \in Int /\ i[2] % 4 = 0
                   /\ i[3] \in 0..3 /\ i[1] \in Cells(s.OH) /\ i[2] + i[3] \in Cells(s.OW)
  <2> SUFFICES ASSUME NEW i \in I
               PROVE  /\ i = <<i[1], i[2], i[3]>> /\ i[1] \in Int /\ i[2] \in Int /\ i[2] % 4 = 0
                      /\ i[3] \in 0..3 /\ i[1] \in Cells(s.OH) /\ i[2] + i[3] \in Cells(s.OW)
    OBVIOUS
  <2>1. /\ i = <<i[1], i[2], i[3]>> /\ i[1] \in Cells(s.OH) /\ i[2] \in Cells(s.OW - 3)
        /\ i[2] % 4 = 0 /\ i[3] \in Cells(4)
    OBVIOUS
  <2> HIDE DEF I
  <2>2. i[1] \in Int /\ i[2] \in 0..(s.OW - 4) /\ i[3] \in 0..3
    BY <1>1, <2>1 DEF Cells
  <2>3. i[2] + i[3] \in 0..(s.OW - 1) /\ i[2] \in Int
    BY <1>1, <2>2
  <2> QED
    BY <2>1, <2>2, <2>3 DEF Cells
<1>3. StoresOf(stores, I, c, v)
  <2>1. \A i \in I : /\ c[i] = i[1] * s.OW + i[2] + i[3]
                     /\ v[i] = NearestY(s, i[1]) * s.IW + NearestX(s, i[2])
    <3> SUFFICES ASSUME NEW i \in I
                 PROVE  Place(i[1], s.OW, i[2] + i[3]) = i[1] * s.OW + i[2] + i[3]
      BY DEF Place
    <3> DEFINE m == i[1] * s.OW
    <3>1. m \in Int /\ i[2] \in Int /\ i[3] \in Int
      BY <1>1, <1>2
    <3> HIDE DEF m, I
    <3>2. m + i[2] + i[3] = m + (i[2] + i[3])
      BY <3>1
    <3> QED
      BY <3>2 DEF Place, m
  <2> HIDE DEF c, v, I
  <2> QED
    BY <2>1 DEF StoresOf
<1> HIDE DEF stores
<1>4. ASSUME NEW oy \in Cells(s.OH), NEW ox \in Cells(s.OW)
      PROVE  blob[Place(oy, s.OW, ox)] = Place(NearestY(s, oy), s.IW, NearestX(s, ox))
  <2> DEFINE y == NearestY(s, oy)
             x == ox \div 4
             i == <<oy, 4 * x, ox % 4>>
  <2>1. /\ x \in Cells(s.IW) /\ x \in Int /\ ox % 4 \in Cells(4) /\ ox % 4 \in 0..3
        /\ ox = 4 * x + (ox % 4) /\ 4 * x \in Cells(s.OW - 3) /\ (4 * x) % 4 = 0
    BY <1>1 DEF Cells
  <2>2. NearestX(s, 4 * x) = x /\ NearestX(s, ox) = x
    <3> HIDE DEF x
    <3>1. 0 \in Cells(4) /\ 4 \in Nat \ {0} /\ 4 * x + 0 = 4 * x
      BY <2>1 DEF Cells
    <3>2. NearestX(s, 4 * x + 0) = x /\ NearestX(s, 4 * x + (ox % 4)) = x
      BY <2>1, <3>1, PickedOfBlock
    <3> QED
      BY <2>1, <3>1, <3>2
  <2> HIDE DEF y
  <2>3. i \in I /\ c[i] = Place(oy, s.OW, ox) /\ v[i] = Place(y, s.IW, x)
    <3> HIDE DEF x
    <3>1. i \in I /\ i[1] = oy /\ i[2] = 4 * x /\ i[2] + i[3] = ox
      BY <2>1
    <3>2. /\ c[i] = Place(i[1], s.OW, i[2] + i[3])
          /\ v[i] = Place(NearestY(s, i[1]), s.IW, NearestX(s, i[2]))
      BY <3>1
    <3> HIDE DEF i, I, c, v
    <3> QED
      BY <2>2, <3>1, <3>2 DEF y
  <2>4. c[i] \in DOMAIN Blob(s.OH * s.OW)
    BY <1>1, <2>3, DigitRange DEF Blob
  <2> HIDE DEF i
  <2>5. \A j \in I : c[j] = c[i] => v[j] = v[i]
    <3>1. ASSUME NEW j \in I, c[j] = c[i] PROVE j[1] = i[1] /\ j[2] = i[2]
      <4>1. Place(j[1], s.OW, j[2] + j[3]) = Place(i[1], s.OW, i[2] + i[3])
        BY <2>3, <3>1
      <4> HIDE DEF I
      <4>2. \A k \in I : k[1] \in Int /\ k[2] + k[3] \in Cells(s.OW)
        BY <1>2
      <4>3. i \in I
        BY <2>3
      <4>4. j[1] = i[1] /\ j[2] + j[3] = i[2] + i[3]
        BY <1>1, <4>1, <4>2, <4>3, Digits
      <4>5. /\ j[2] \in Int /\ j[3] \in 0..3 /\ j[2] % 4 = 0
            /\ i[2] \in Int /\ i[3] \in 0..3 /\ i[2] % 4 = 0
        BY <1>2, <4>3
      <4>6. j[3] \in Cells(4) /\ i[3] \in Cells(4)
        BY <4>5 DEF Cells
      <4>7. j[2] = i[2]
        BY <4>4, <4>5, <4>6, FourApart
      <4> QED
        BY <4>4, <4>7
    <3> HIDE DEF I
    <3>2. \A j \in I : v[j] = Place(NearestY(s, j[1]), s.IW, NearestX(s, j[2]))
      BY DEF I
    <3> HIDE DEF v
    <3> QED
      BY <2>3, <3>1, <3>2
  <2>6. blob[c[i]] = v[i]
    <3> HIDE DEF c, v, I
    <3> QED
      BY <1>3, <2>3, <2>4, <2>5, StoredBy
  <2> HIDE DEF c, v, x
  <2> QED
    BY <2>2, <2>3, <2>6 DEF y
<1> QED
  BY <1>4 DEF CopiesPicked, stores

LEMMA ResampleAnswer ==
  ASSUME NEW s \in ResampleNodes, Resample(s)
  PROVE  ResampleRight(s, answer')
<1> DEFINE two == Stored(Blob(s.OH * s.OW),
                         {<<(2 * i[1] + i[3]) * s.OW + 2 * i[2] + i[4], i[1] * s.IW + i[2]>> :
                            i \in Cells(s.IH) \X Cells(s.IW) \X Cells(2) \X Cells(2)})
           four == Stored(Blob(s.OH * s.OW),
                          {<<i[1] * s.OW + i[2] + i[3],
                             NearestY(s, i[1]) * s.IW + NearestX(s, i[2])>> :
                             i \in Cells(s.OH) \X {ox \in Cells(s.OW - 3) : ox % 4 = 0} \X Cells(4)})
           each == Stored(Blob(s.OH * s.OW),
                          {<<i[1] * s.OW + i[2], NearestY(s, i[1]) * s.IW + NearestX(s, i[2])>> :
                             i \in Cells(s.OH) \X Cells(s.OW)})
<1>1. CopiesPicked(s, answer')
  <2>1. answer' = CASE Upsamples(s, 2) -> two [] Upsamples(s, 4) -> four [] OTHER -> each
    BY DEF Resample, Fill
  <2>2. ~(Upsamples(s, 2) /\ Upsamples(s, 4))
    BY AnswerAssumption DEF Upsamples
  <2>3. Upsamples(s, 2) => CopiesPicked(s, two)
    BY EachBlock, Zenon
  <2>4. Upsamples(s, 4) => CopiesPicked(s, four)
    BY EachFour, Zenon
  <2>5. CopiesPicked(s, each)
    BY EachPixel, Zenon
  <2> HIDE DEF two, four, each
  <2> QED
    BY <2>1, <2>2, <2>3, <2>4, <2>5
<1> DEFINE IW == s.IW
           IH == s.IH
           OW == s.OW
           OH == s.OH
           M == OW * OH
           skew == IH * OW - IW * OH
           reach == Cells(IH + IW)
           D(o, i, ins, outs, others, shift) ==
             LET d == ((2 * o + 1) * ins - (2 * i + 1) * outs) * others + shift
             IN  IF d < 0 THEN -d ELSE d
<1>2. IH \in Nat \ {0} /\ IW \in Nat \ {0} /\ OH \in Nat \ {0} /\ OW \in Nat \ {0}
  BY AnswerAssumption
<1> HIDE DEF IW, IH, OW, OH
<1>3. ASSUME NEW o \in Int, NEW i \in Int
      PROVE  /\ D(o, i, IW, OW, OH, skew) = Gap(Point(o, IW, OH, OW, IH), i, M)
             /\ D(o, i, IH, OH, OW, -skew) = Gap(Point(o, IH, OW, OH, IW), i, M)
  <2>1. ASSUME NEW a \in Int, NEW b \in Int, NEW c \in Int, NEW t \in Int, NEW r \in Int, r = a * c
        PROVE  ((2 * o + 1) * a - (2 * i + 1) * b) * c + (t - r)
                 = (2 * o * a * c + t) - (2 * i + 1) * (b * c)
    <3>1. (2 * o + 1) * a * c = 2 * o * a * c + a * c
      OBVIOUS
    <3>2. ((2 * o + 1) * a - (2 * i + 1) * b) * c = (2 * o + 1) * a * c - (2 * i + 1) * b * c
      OBVIOUS
    <3>3. (2 * i + 1) * b * c = (2 * i + 1) * (b * c)
      OBVIOUS
    <3>4. 2 * o * a * c \in Int /\ (2 * i + 1) * (b * c) \in Int /\ a * c \in Int
      OBVIOUS
    <3> DEFINE x == 2 * o * a * c
               y == (2 * i + 1) * (b * c)
               w == ((2 * o + 1) * a - (2 * i + 1) * b) * c
    <3>5. w = (x + r) - y /\ x \in Int /\ y \in Int
      BY <2>1, <3>1, <3>2, <3>3, <3>4
    <3> HIDE DEF x, y, w
    <3>6. w + (t - r) = (x + t) - y
      BY <3>5
    <3> QED
      BY <3>6 DEF x, y, w
  <2>2. IH * OW \in Int /\ IW * OH \in Int /\ OH * OW = M
    BY <1>2
  <2> DEFINE f == IH * OW
             g == IW * OH
  <2>3. ((2 * o + 1) * IW - (2 * i + 1) * OW) * OH + (f - g)
          = (2 * o * IW * OH + f) - (2 * i + 1) * (OW * OH)
    BY <1>2, <2>1, <2>2
  <2>4. ((2 * o + 1) * IH - (2 * i + 1) * OH) * OW + (g - f)
          = (2 * o * IH * OW + g) - (2 * i + 1) * (OH * OW)
    BY <1>2, <2>1, <2>2
  <2>5. -skew = g - f
    <3>1. f \in Int /\ g \in Int /\ skew = f - g
      BY <2>2
    <3> HIDE DEF f, g, skew
    <3> QED
      BY <3>1
  <2> QED
    BY ONLY <2>2, <2>3, <2>4, <2>5 DEF Gap, Point, f, g, skew, M
<1> HIDE DEF D, M
<1>4. ASSUME NEW oy \in Cells(OH), NEW ox \in Cells(OW)
      PROVE  \E y \in reach, x \in reach :
               /\ answer'[oy * OW + ox] = y * IW + x
               /\ \A z \in reach : D(ox, x, IW, OW, OH, skew) <= D(ox, z, IW, OW, OH, skew)
               /\ \A z \in reach : D(oy, y, IH, OH, OW, -skew) <= D(oy, z, IH, OH, OW, -skew)
               /\ skew = 0 => y \in Cells(IH) /\ x \in Cells(IW)
  <2> DEFINE y == NearestY(s, oy)
             x == NearestX(s, ox)
             px == Point(ox, IW, OH, OW, IH)
             py == Point(oy, IH, OW, OH, IW)
  <2>1. /\ M \in Nat /\ px \in Int /\ py \in Int
        /\ x \in reach /\ Near(px, x, M) /\ y \in reach /\ Near(py, y, M)
        /\ IH * OW = IW * OH => x \in Cells(IW) /\ y \in Cells(IH)
    BY PickedFor DEF IW, IH, OW, OH, M
  <2>2. answer'[oy * OW + ox] = y * IW + x
    BY <1>1 DEF CopiesPicked, Place, OH, OW, IW
  <2> HIDE DEF x, y, px, py
  <2>3. /\ ox \in Int /\ oy \in Int /\ x \in Int /\ y \in Int /\ \A z \in reach : z \in Int
    BY <2>1 DEF Cells
  <2> HIDE DEF reach
  <2>4. \A z \in reach : Gap(px, x, M) <= Gap(px, z, M) /\ Gap(py, y, M) <= Gap(py, z, M)
    BY <2>1, <2>3, NearIsNearest
  <2>5. \A z \in reach : /\ D(ox, z, IW, OW, OH, skew) = Gap(px, z, M)
                         /\ D(oy, z, IH, OH, OW, -skew) = Gap(py, z, M)
    BY <1>3, <2>3 DEF px, py
  <2>6. skew = 0 => IH * OW = IW * OH
    <3>1. IH * OW \in Int /\ IW * OH \in Int
      BY <1>2
    <3> QED
      BY <3>1
  <2> HIDE DEF skew
  <2> QED
    BY <2>1, <2>2, <2>4, <2>5, <2>6
<1> QED
  BY <1>4, Zenon DEF ResampleRight, D, skew, reach, IW, IH, OW, OH

-----------------------------------------------------------------------------
(* CTCGreedyDecoder.                                                       *)

(* The class of a step: the first of the most probable ones.               *)
IsBest(p, c, k) == \A d \in 0..k : p[c] > p[d] \/ (p[c] = p[d] /\ c <= d)

LEMMA BestOfMore ==
  ASSUME NEW p, NEW i \in Nat \ {0}, NEW u \in 0..(i - 1), \A d \in 0..i : p[d] \in Int,
         IsBest(p, u, i - 1)
  PROVE  LET w == IF p[i] > p[u] THEN i ELSE u IN w \in 0..i /\ IsBest(p, w, i)
<1>1. \A d \in 0..i : d \in 0..(i - 1) \/ d = i
  OBVIOUS
<1>2. u \in 0..i /\ i \in 0..i /\ p[u] \in Int /\ p[i] \in Int /\ u <= i
  OBVIOUS
<1>3. CASE p[i] > p[u]
  <2>1. \A d \in 0..(i - 1) : d \in 0..i /\ p[d] \in Int /\ p[u] >= p[d]
    BY <1>2 DEF IsBest
  <2>2. \A d \in 0..(i - 1) : p[i] > p[d]
    BY <1>2, <1>3, <2>1
  <2>3. ASSUME NEW d \in 0..i PROVE p[i] > p[d] \/ (p[i] = p[d] /\ i <= d)
    <3>1. CASE d \in 0..(i - 1)
      BY <2>2, <3>1
    <3>2. CASE d = i
      BY <1>2, <3>2
    <3> QED
      BY <1>1, <3>1, <3>2
  <2>4. IsBest(p, i, i)
    BY <2>3 DEF IsBest
  <2> QED
    BY <1>2, <1>3, <2>4
<1>4. CASE ~(p[i] > p[u])
  <2>1. p[u] > p[i] \/ (p[u] = p[i] /\ u <= i)
    BY <1>2, <1>4
  <2> QED
    BY <1>1, <1>2, <1>4, <2>1 DEF IsBest
<1> QED
  BY <1>3, <1>4

LEMMA BestOf ==
  ASSUME NEW s \in CTCNodes, NEW t \in Cells(s.T), NEW q \in Cells(s.N)
  PROVE  BestClass(s, t, q) \in Cells(s.C) /\ IsBest(s.probs[t][q], BestClass(s, t, q), s.C - 1)
<1> DEFINE N == s.C - 1
           V == Cells(s.C)
           p == s.probs[t][q]
           More(v, i) == IF p[i] > p[v] THEN i ELSE v
           Body(f, i) == IF i = 0 THEN 0 ELSE More(f[i - 1], i)
           list == CHOOSE f : f = [i \in V |-> Body(f, i)]
           step == [x \in V \X (1..N) |-> More(x[1], x[2])]
           good == {i \in 0..N : list[i] \in 0..i /\ IsBest(p, list[i], i)}
<1>1. N \in Nat /\ 0 \in V /\ V = 0..N /\ \A d \in 0..N : p[d] \in Int
  BY AnswerAssumption DEF Cells
<1>2. N \in Nat
  BY <1>1
<1>3. \A v \in V, i \in 1..N : More(v, i) \in V
  BY <1>1
<1>4. BestClass(s, t, q) = list[N]
  BY DEF BestClass
<1> HIDE DEF V, N, More, p
<1>5. step \in [V \X (1..N) -> V]
  BY <1>3
<1>6. PICK g \in [0..N -> V] : g[0] = 0 /\ \A i \in 1..N : g[i] = step[<<g[i - 1], i>>]
  <2> HIDE DEF step
  <2>1. \E g \in [0..N -> V] : Runs(0, N, step, g)
    BY <1>1, <1>5, Iterates, Zenon
  <2> QED
    BY <2>1 DEF Runs
<1>7. \A i \in 1..N : g[i] = More(g[i - 1], i)
  <2> SUFFICES ASSUME NEW i \in 1..N PROVE g[i] = More(g[i - 1], i)
    OBVIOUS
  <2>1. i - 1 \in 0..N
    BY <1>2
  <2>2. <<g[i - 1], i>> \in V \X (1..N)
    <3>1. g[i - 1] \in V
      BY <1>6, <2>1
    <3> HIDE DEF step
    <3> QED
      BY <3>1
  <2>3. step[<<g[i - 1], i>>] = More(g[i - 1], i)
    BY <2>2
  <2> QED
    BY <1>6, <2>3
<1>8. g = [i \in V |-> Body(g, i)]
  <2>1. ASSUME NEW i \in 0..N PROVE g[i] = Body(g, i)
    <3>1. i = 0 \/ i \in 1..N
      BY <1>1
    <3> QED
      BY <1>6, <1>7, <3>1
  <2> HIDE DEF Body
  <2> QED
    BY <1>1, <1>6, <2>1
<1>9. list = [i \in V |-> Body(list, i)]
  <2> HIDE DEF Body
  <2> QED
    BY <1>8
<1> HIDE DEF list
<1>10. list[0] = 0 /\ \A i \in 1..N : list[i] = More(list[i - 1], i)
  <2>1. 0 \in V /\ \A i \in 1..N : i \in V /\ i # 0
    BY <1>1
  <2>2. \A i \in V : list[i] = Body(list, i)
    <3> HIDE DEF Body
    <3> QED
      BY <1>9
  <2> QED
    BY <2>1, <2>2
<1>11. 0 \in good
  <2>1. 0 \in 0..N /\ p[0] \in Int /\ \A d \in 0..0 : d = 0
    BY <1>1
  <2>2. IsBest(p, 0, 0)
    BY <2>1 DEF IsBest
  <2> QED
    BY <1>10, <2>1, <2>2
<1>12. ASSUME NEW i \in 1..N, i - 1 \in good PROVE i \in good
  <2>1. i \in 0..N /\ i \in Nat \ {0} /\ \A d \in 0..i : d \in 0..N
    BY <1>2
  <2>2. \A d \in 0..i : p[d] \in Int
    BY <1>1, <2>1
  <2>3. list[i - 1] \in 0..(i - 1) /\ IsBest(p, list[i - 1], i - 1)
    BY <1>12
  <2>4. list[i] \in 0..i /\ IsBest(p, list[i], i)
    BY <1>10, <2>1, <2>2, <2>3, BestOfMore DEF More
  <2> QED
    BY <2>1, <2>4
<1>13. N \in good
  <2>1. N \in 0..N
    BY <1>1
  <2> HIDE DEF good
  <2> QED
    BY <1>1, <1>11, <1>12, <2>1, UpTo
<1>14. list[N] \in V /\ IsBest(p, list[N], N)
  BY <1>1, <1>13
<1> QED
  BY <1>4, <1>14 DEF N, V, p

(* It is the class that CTCRight chooses.                                  *)
LEMMA BestIsChosen ==
  ASSUME NEW s \in CTCNodes, NEW t \in Cells(s.T), NEW q \in Cells(s.N)
  PROVE  BestClass(s, t, q)
           = CHOOSE c \in Cells(s.C) : \A d \in Cells(s.C) :
               \/ s.probs[t][q][c] > s.probs[t][q][d]
               \/ s.probs[t][q][c] = s.probs[t][q][d] /\ c <= d
<1> DEFINE C == Cells(s.C)
           p == s.probs[t][q]
           P(c) == \A d \in C : p[c] > p[d] \/ (p[c] = p[d] /\ c <= d)
           b == BestClass(s, t, q)
<1>1. C = 0..(s.C - 1) /\ \A d \in C : d \in Int /\ p[d] \in Int
  BY AnswerAssumption DEF Cells
<1>2. b \in C /\ P(b)
  <2>1. b \in C /\ IsBest(p, b, s.C - 1)
    BY BestOf
  <2> HIDE DEF b, p
  <2> QED
    BY <1>1, <2>1 DEF IsBest
<1>3. \A c \in C : P(c) => c = b
  <2> SUFFICES ASSUME NEW c \in C, P(c) PROVE c = b
    OBVIOUS
  <2>1. p[c] > p[b] \/ (p[c] = p[b] /\ c <= b)
    BY <1>2
  <2>2. p[b] > p[c] \/ (p[b] = p[c] /\ b <= c)
    BY <1>2
  <2>3. p[b] \in Int /\ p[c] \in Int /\ b \in Int /\ c \in Int
    BY <1>1, <1>2
  <2> HIDE DEF p, b, C
  <2> QED
    BY <2>1, <2>2, <2>3
<1>4. b = CHOOSE c \in C : P(c)
  <2> HIDE DEF P, b, C
  <2> QED
    BY <1>2, <1>3
<1> QED
  BY <1>4

-----------------------------------------------------------------------------
(* The loop over the steps of a sequence makes m steps.                    *)
LEMMA StepsOf ==
  ASSUME NEW s \in CTCNodes, NEW q
  PROVE  /\ Cardinality(Steps(s, q)) \in 1..s.T
         /\ Steps(s, q) = 0..(Cardinality(Steps(s, q)) - 1)
<1> DEFINE S == Steps(s, q)
           out == Nat \ S
           R == {ss \in Nat \X Nat : ss[1] < ss[2]}
<1>1. s.T \in Nat \ {0}
  BY AnswerAssumption
<1>2. /\ S \subseteq 0..(s.T - 1) /\ 0 \in S
      /\ \A t \in S : \A u \in 0..t : u \in S
  <2>1. S \subseteq 0..(s.T - 1)
    BY DEF Steps, Cells
  <2>2. 0 \in 0..(s.T - 1) /\ 1..0 = {}
    BY <1>1
  <2>3. 0 \in S
    BY <2>2 DEF Steps, Cells
  <2>4. ASSUME NEW t \in S, NEW u \in 0..t PROVE u \in S
    <3>1. t \in 0..(s.T - 1) /\ \A v \in 1..t : s.indicators[v][q] # 0
      BY DEF Steps, Cells
    <3>2. u \in 0..(s.T - 1) /\ 1..u \subseteq 1..t
      BY <1>1, <3>1
    <3> QED
      BY <3>1, <3>2 DEF Steps, Cells
  <2> QED
    BY <2>1, <2>3, <2>4
<1> HIDE DEF S
<1>3. PICK m \in out : \A y \in out : <<y, m>> \notin R
  <2>1. IsWellFoundedOn(R, Nat)
    BY NatLessThanWellFounded DEF OpToRel
  <2>2. out \subseteq Nat /\ s.T \in out
    BY <1>1, <1>2
  <2> HIDE DEF R, out
  <2> QED
    BY <2>1, <2>2, WFMin
<1>4. m \in Nat /\ m # 0 /\ \A t \in S : t < m
  <2>1. m \in Nat /\ m # 0 /\ m \notin S
    BY <1>2
  <2>2. ASSUME NEW t \in S, ~(t < m) PROVE FALSE
    <3>1. m \in 0..t
      BY <1>1, <1>2, <2>1, <2>2
    <3> QED
      BY <1>2, <2>1, <3>1
  <2> QED
    BY <2>1, <2>2
<1>5. \A t \in 0..(m - 1) : t \in S
  <2> SUFFICES ASSUME NEW t \in 0..(m - 1), t \notin S PROVE FALSE
    OBVIOUS
  <2>1. t \in out /\ <<t, m>> \in R
    BY <1>4
  <2> QED
    BY <1>3, <2>1
<1>6. S = 0..(m - 1)
  <2>1. \A t \in S : t \in 0..(m - 1)
    BY <1>1, <1>2, <1>4
  <2> QED
    BY <1>5, <2>1
<1>7. Cardinality(S) = m
  <2>1. 0 \in Int /\ m - 1 \in Int /\ 0 <= (m - 1) + 1
    BY <1>4
  <2>2. Cardinality(0..(m - 1)) = (m - 1) - 0 + 1
    BY <2>1, Interval
  <2> QED
    BY <1>4, <1>6, <2>2
<1>8. m <= s.T
  <2>1. m - 1 \in S
    BY <1>4, <1>6
  <2> QED
    BY <1>1, <1>2, <1>4, <2>1
<1> QED
  BY <1>1, <1>4, <1>6, <1>7, <1>8 DEF S

-----------------------------------------------------------------------------
(* The steps before k that start a run of a class other than the blank.    *)
Starting(s, q, t) ==
  /\ BestClass(s, t, q) # s.C - 1
  /\ t = 0 \/ BestClass(s, t - 1, q) # BestClass(s, t, q)

Starts(s, q, k) == {t \in 0..(k - 1) : Starting(s, q, t)}

(* What the loop remembers and wrote after k steps.                        *)
Decoding(s, q, k, st) ==
  /\ st.prev = IF k = 0 THEN -1 ELSE BestClass(s, k - 1, q)
  /\ st.out \in Seq(Cells(s.C)) /\ Len(st.out) = Cardinality(Starts(s, q, k))
  /\ \A t \in Starts(s, q, k) :
       st.out[Cardinality(Starts(s, q, t)) + 1] = BestClass(s, t, q)

LEMMA StartsFinite ==
  ASSUME NEW s, NEW q, NEW k \in Nat
  PROVE  /\ IsFiniteSet(Starts(s, q, k)) /\ Cardinality(Starts(s, q, k)) \in 0..k
<1>1. Starts(s, q, k) \in SUBSET (0..(k - 1))
  BY DEF Starts
<1>2. 0 \in Int /\ k - 1 \in Int /\ 0 <= (k - 1) + 1
  OBVIOUS
<1>3. IsFiniteSet(0..(k - 1)) /\ Cardinality(0..(k - 1)) = (k - 1) - 0 + 1
  BY <1>2, Interval
<1>4. /\ IsFiniteSet(Starts(s, q, k)) /\ Cardinality(Starts(s, q, k)) \in Nat
      /\ Cardinality(Starts(s, q, k)) <= Cardinality(0..(k - 1))
  BY <1>1, <1>3, FS_Subset, FS_CardinalityType
<1> QED
  BY <1>3, <1>4

LEMMA StartsBefore ==
  ASSUME NEW s, NEW q, NEW k \in Nat, NEW t \in Starts(s, q, k)
  PROVE  Cardinality(Starts(s, q, t)) \in 0..(Cardinality(Starts(s, q, k)) - 1)
<1> DEFINE S == Starts(s, q, k)
           U == Starts(s, q, t)
<1>1. t \in Nat /\ t \in S /\ t \notin U /\ U \subseteq S
  BY DEF Starts
<1>2. IsFiniteSet(S) /\ Cardinality(S) \in Nat /\ IsFiniteSet(U) /\ Cardinality(U) \in Nat
  BY <1>1, StartsFinite
<1> HIDE DEF S, U
<1>3. Cardinality(U \cup {t}) = Cardinality(U) + 1
  BY <1>1, <1>2, FS_AddElement
<1>4. U \cup {t} \in SUBSET S
  BY <1>1
<1>5. Cardinality(U \cup {t}) <= Cardinality(S)
  BY <1>2, <1>4, FS_Subset
<1> QED
  BY <1>2, <1>3, <1>5 DEF S, U

MoreDecoded(s, q, st, k) ==
  LET c == BestClass(s, k - 1, q)
  IN  [prev |-> c,
       out  |-> IF c < s.C - 1 /\ c # st.prev THEN Append(st.out, c) ELSE st.out]

LEMMA DecodeStep ==
  ASSUME NEW s \in CTCNodes, NEW q \in Cells(s.N), NEW k \in 1..s.T, NEW st,
         Decoding(s, q, k - 1, st)
  PROVE  Decoding(s, q, k, MoreDecoded(s, q, st, k))
<1> DEFINE c == BestClass(s, k - 1, q)
           S(j) == Starts(s, q, j)
           w == MoreDecoded(s, q, st, k)
<1>1. k \in Nat \ {0} /\ k - 1 \in Nat /\ k - 1 \in Cells(s.T) /\ s.C \in Nat \ {0}
  BY AnswerAssumption DEF Cells
<1>2. c \in Cells(s.C) /\ c \in Nat /\ c < s.C /\ c <= s.C - 1
  BY <1>1, BestOf DEF Cells
<1>3. w.prev = c /\ w.out = IF c < s.C - 1 /\ c # st.prev THEN Append(st.out, c) ELSE st.out
  BY DEF MoreDecoded
<1>4. st.prev = IF k = 1 THEN -1 ELSE BestClass(s, (k - 1) - 1, q)
  BY <1>1 DEF Decoding
<1>5. Starting(s, q, k - 1) <=> c < s.C - 1 /\ c # st.prev
  BY <1>1, <1>2, <1>4 DEF Starting
<1>6. \A t \in 0..(k - 1) : t \in 0..((k - 1) - 1) \/ t = k - 1
  BY <1>1
<1>7. S(k) = S(k - 1) \cup IF Starting(s, q, k - 1) THEN {k - 1} ELSE {}
  <2>1. 0..((k - 1) - 1) \subseteq 0..(k - 1) /\ k - 1 \in 0..(k - 1)
    BY <1>1
  <2> HIDE DEF c
  <2> QED
    BY <1>6, <2>1 DEF Starts
<1>8. k - 1 \notin S(k - 1)
  BY <1>1 DEF Starts
<1>9. /\ st.out \in Seq(Cells(s.C)) /\ Len(st.out) = Cardinality(S(k - 1))
      /\ \A t \in S(k - 1) : st.out[Cardinality(S(t)) + 1] = BestClass(s, t, q)
  BY DEF Decoding
<1>10. /\ IsFiniteSet(S(k - 1)) /\ Cardinality(S(k - 1)) \in Nat
       /\ \A t \in S(k - 1) : Cardinality(S(t)) \in 0..(Cardinality(S(k - 1)) - 1)
  BY <1>1, StartsFinite, StartsBefore
<1> HIDE DEF S, w, c
<1>11. CASE ~Starting(s, q, k - 1)
  <2>1. w.out = st.out /\ S(k) = S(k - 1)
    BY <1>3, <1>5, <1>7, <1>11
  <2> QED
    BY <1>1, <1>3, <1>9, <2>1 DEF Decoding, S, w, c
<1>12. CASE Starting(s, q, k - 1)
  <2>1. w.out = Append(st.out, c) /\ S(k) = S(k - 1) \cup {k - 1}
    BY <1>3, <1>5, <1>7, <1>12
  <2>2. Cardinality(S(k)) = Cardinality(S(k - 1)) + 1
    BY <1>8, <1>10, <2>1, FS_AddElement
  <2>3. /\ w.out \in Seq(Cells(s.C)) /\ Len(w.out) = Len(st.out) + 1
        /\ \A j \in 1..Len(st.out) : w.out[j] = st.out[j]
        /\ w.out[Len(st.out) + 1] = c
    BY <1>2, <1>9, <2>1, AppendProperties
  <2>4. ASSUME NEW t \in S(k) PROVE w.out[Cardinality(S(t)) + 1] = BestClass(s, t, q)
    <3>1. CASE t \in S(k - 1)
      <4>1. Cardinality(S(t)) + 1 \in 1..Len(st.out)
        BY <1>9, <1>10, <3>1
      <4> QED
        BY <1>9, <2>3, <3>1, <4>1
    <3>2. CASE t = k - 1
      BY <1>9, <2>3, <3>2 DEF c
    <3> QED
      BY <2>1, <3>1, <3>2
  <2> QED
    BY <1>1, <1>3, <1>9, <2>2, <2>3, <2>4 DEF Decoding, S, w, c
<1> QED
  BY <1>11, <1>12

LEMMA DecodeOf ==
  ASSUME NEW s \in CTCNodes, NEW q \in Cells(s.N)
  PROVE  \E st : /\ Decode(s, q) = st.out
                 /\ Decoding(s, q, Cardinality(Steps(s, q)), st)
<1> DEFINE N == Cardinality(Steps(s, q))
           V == [prev : Int, out : Seq(Cells(s.C))]
           v0 == [prev |-> -1, out |-> <<>>]
           More(v, i) == MoreDecoded(s, q, v, i)
           Body(f, i) == IF i = 0 THEN v0 ELSE More(f[i - 1], i)
           list == CHOOSE f : f = [i \in 0..N |-> Body(f, i)]
           step == [x \in V \X (1..N) |-> More(x[1], x[2])]
           good == {i \in 0..N : Decoding(s, q, i, list[i])}
<1>1. N \in Nat /\ N <= s.T /\ s.T \in Nat /\ v0 \in V
  BY StepsOf, AnswerAssumption
<1>2. \A v \in V, i \in 1..N : More(v, i) \in V
  <2> SUFFICES ASSUME NEW v \in V, NEW i \in 1..N PROVE More(v, i) \in V
    OBVIOUS
  <2> DEFINE c == BestClass(s, i - 1, q)
  <2>1. i - 1 \in Cells(s.T)
    BY <1>1 DEF Cells
  <2>2. c \in Cells(s.C) /\ c \in Int
    BY <2>1, BestOf DEF Cells
  <2> DEFINE w == IF c < s.C - 1 /\ c # v.prev THEN Append(v.out, c) ELSE v.out
  <2>3. More(v, i) = [prev |-> c, out |-> w]
    BY DEF MoreDecoded
  <2> HIDE DEF c, More
  <2>4. v.out \in Seq(Cells(s.C))
    OBVIOUS
  <2>5. Append(v.out, c) \in Seq(Cells(s.C))
    BY <2>2, <2>4, AppendProperties
  <2>6. w \in Seq(Cells(s.C))
    BY <2>4, <2>5
  <2> HIDE DEF w
  <2> QED
    BY <2>2, <2>3, <2>6
<1>3. Decode(s, q) = list[N].out
  BY DEF Decode, MoreDecoded
<1> HIDE DEF V, N, More
<1>4. step \in [V \X (1..N) -> V]
  BY <1>2
<1>5. PICK g \in [0..N -> V] : g[0] = v0 /\ \A i \in 1..N : g[i] = step[<<g[i - 1], i>>]
  <2> HIDE DEF step, v0
  <2>1. \E g \in [0..N -> V] : Runs(v0, N, step, g)
    BY <1>1, <1>4, Iterates, Zenon
  <2> QED
    BY <2>1 DEF Runs
<1>6. \A i \in 1..N : g[i] = More(g[i - 1], i)
  <2> SUFFICES ASSUME NEW i \in 1..N PROVE g[i] = More(g[i - 1], i)
    OBVIOUS
  <2>1. i - 1 \in 0..N
    BY <1>1
  <2>2. <<g[i - 1], i>> \in V \X (1..N)
    <3>1. g[i - 1] \in V
      BY <1>5, <2>1
    <3> HIDE DEF step
    <3> QED
      BY <3>1
  <2>3. step[<<g[i - 1], i>>] = More(g[i - 1], i)
    BY <2>2
  <2> QED
    BY <1>5, <2>3
<1>7. g = [i \in 0..N |-> Body(g, i)]
  <2>1. ASSUME NEW i \in 0..N PROVE g[i] = Body(g, i)
    <3>1. i = 0 \/ i \in 1..N
      BY <1>1
    <3> HIDE DEF v0
    <3> QED
      BY <1>5, <1>6, <3>1
  <2> HIDE DEF Body
  <2> QED
    BY <1>5, <2>1
<1>8. list = [i \in 0..N |-> Body(list, i)]
  <2> HIDE DEF Body
  <2> QED
    BY <1>7
<1> HIDE DEF list
<1>9. list[0] = v0 /\ \A i \in 1..N : list[i] = More(list[i - 1], i)
  <2>1. 0 \in 0..N /\ \A i \in 1..N : i \in 0..N /\ i # 0
    BY <1>1
  <2>2. \A i \in 0..N : list[i] = Body(list, i)
    <3> HIDE DEF Body
    <3> QED
      BY <1>8
  <2> HIDE DEF v0
  <2> QED
    BY <2>1, <2>2
<1>10. 0 \in good
  <2>1. Starts(s, q, 0) = {} /\ 0 \in 0..N
    BY <1>1 DEF Starts
  <2>2. Cardinality(Starts(s, q, 0)) = 0
    BY <2>1, FS_EmptySet
  <2>3. v0.prev = -1 /\ v0.out \in Seq(Cells(s.C)) /\ Len(v0.out) = 0
    OBVIOUS
  <2> HIDE DEF v0
  <2> QED
    BY <1>9, <2>1, <2>2, <2>3 DEF Decoding
<1>11. ASSUME NEW i \in 1..N, i - 1 \in good PROVE i \in good
  <2>1. i \in 0..N /\ i \in 1..s.T /\ Decoding(s, q, i - 1, list[i - 1])
    BY <1>1, <1>11
  <2>2. Decoding(s, q, i, More(list[i - 1], i))
    BY <2>1, DecodeStep DEF More
  <2> QED
    BY <1>9, <2>1, <2>2
<1>12. N \in good
  <2>1. N \in 0..N
    BY <1>1
  <2> HIDE DEF good
  <2> QED
    BY <1>1, <1>10, <1>11, <2>1, UpTo
<1> QED
  BY <1>3, <1>12 DEF N

(* The string of a sequence.                                               *)
LEMMA CharactersOf ==
  ASSUME NEW s \in CTCNodes, NEW q \in Cells(s.N)
  PROVE  LET m == Cardinality(Steps(s, q)) IN
         /\ m \in 1..s.T
         /\ Len(Decode(s, q)) = Cardinality(Starts(s, q, m))
         /\ Cardinality(Starts(s, q, m)) \in 0..s.T
         /\ \A t \in Starts(s, q, m) :
              /\ t \in Cells(s.T)
              /\ Cardinality(Starts(s, q, t)) \in 0..(Cardinality(Starts(s, q, m)) - 1)
              /\ Decode(s, q)[Cardinality(Starts(s, q, t)) + 1] = BestClass(s, t, q)
<1> DEFINE m == Cardinality(Steps(s, q))
<1>1. m \in 1..s.T /\ s.T \in Nat
  BY StepsOf, AnswerAssumption
<1>2. PICK st : Decode(s, q) = st.out /\ Decoding(s, q, m, st)
  BY DecodeOf
<1> HIDE DEF m
<1>3. Cardinality(Starts(s, q, m)) \in 0..s.T
  <2>1. m \in Nat
    BY <1>1
  <2>2. Cardinality(Starts(s, q, m)) \in 0..m
    BY <2>1, StartsFinite
  <2> QED
    BY <1>1, <2>2
<1>4. ASSUME NEW t \in Starts(s, q, m)
      PROVE  t \in Cells(s.T)
             /\ Cardinality(Starts(s, q, t)) \in 0..(Cardinality(Starts(s, q, m)) - 1)
  BY <1>1, StartsBefore DEF Starts, Cells
<1> QED
  BY <1>1, <1>2, <1>3, <1>4 DEF Decoding, m

LEMMA CTCAnswer ==
  ASSUME NEW s \in CTCNodes, CTCGreedyDecoder(s)
  PROVE  CTCRight(s, answer')
<1> DEFINE T == s.T
           blob == [d \in Cells(s.T * s.N) |-> -1]
           I == UNION {{q} \X (1..Len(Decode(s, q))) : q \in Cells(s.N)}
           stores == {<<i[1] * s.T + i[2] - 1, Decode(s, i[1])[i[2]]>> : i \in I}
           c == [i \in I |-> Place(i[1], T, i[2] - 1)]
           v == [i \in I |-> Decode(s, i[1])[i[2]]]
           best(q, t) == CHOOSE k \in Cells(s.C) : \A d \in Cells(s.C) :
                           \/ s.probs[t][q][k] > s.probs[t][q][d]
                           \/ s.probs[t][q][k] = s.probs[t][q][d] /\ k <= d
           m(q) == Cardinality(Steps(s, q))
           starts(q) == {t \in Steps(s, q) : /\ best(q, t) # s.C - 1
                                             /\ t = 0 \/ best(q, t - 1) # best(q, t)}
<1>1. T \in Nat \ {0} /\ s.N \in Nat /\ T = s.T
  BY AnswerAssumption
<1>2. answer' = Stored(blob, stores)
  BY DEF CTCGreedyDecoder, Fill
<1>3. \A q, k : <<q, k>> \in I <=> q \in Cells(s.N) /\ k \in 1..Len(Decode(s, q))
  OBVIOUS
<1>4. ASSUME NEW i \in I
      PROVE  /\ i = <<i[1], i[2]>> /\ i[1] \in Cells(s.N) /\ i[1] \in Nat
             /\ i[2] \in 1..Len(Decode(s, i[1])) /\ i[2] \in Nat /\ i[2] - 1 \in Cells(T)
  <2>1. i = <<i[1], i[2]>> /\ i[1] \in Cells(s.N) /\ i[2] \in 1..Len(Decode(s, i[1]))
    OBVIOUS
  <2>2. Len(Decode(s, i[1])) \in 0..T
    BY <2>1, CharactersOf
  <2> QED
    BY <1>1, <2>1, <2>2 DEF Cells
<1>5. \A i \in I : i[1] * s.T + i[2] - 1 = Place(i[1], T, i[2] - 1)
  BY <1>1, <1>4 DEF Place
<1>6. stores = {<<c[i], v[i]>> : i \in I}
  <2> HIDE DEF I
  <2> QED
    BY <1>5
<1>7. StoresOf(stores, I, c, v)
  <2> HIDE DEF I, c, v, stores
  <2> QED
    BY <1>6 DEF StoresOf
<1>8. ASSUME NEW q \in Cells(s.N), NEW k \in Cells(T)
      PROVE  /\ q * s.T + k = Place(q, T, k) /\ Place(q, T, k) \in DOMAIN blob
             /\ k + 1 \in 1..Len(Decode(s, q)) =>
                  answer'[q * s.T + k] = Decode(s, q)[k + 1]
             /\ k + 1 \notin 1..Len(Decode(s, q)) => answer'[q * s.T + k] = -1
  <2>1. q * s.T + k = Place(q, T, k)
    BY DEF Place
  <2>2. Place(q, T, k) \in Cells(s.T * s.N)
    <3>1. Place(q, T, k) \in Cells(s.N * T)
      BY <1>1, DigitRange
    <3>2. s.N * T = s.T * s.N
      BY <1>1
    <3> QED
      BY <3>1, <3>2
  <2>3. DOMAIN blob = Cells(s.T * s.N) /\ blob[Place(q, T, k)] = -1
    BY <2>2
  <2>4. q \in Int /\ k \in Int /\ (k + 1) - 1 = k
    BY DEF Cells
  <2>5. \A i \in I : c[i] = Place(q, T, k) => i = <<q, k + 1>>
    <3> SUFFICES ASSUME NEW i \in I, c[i] = Place(q, T, k) PROVE i = <<q, k + 1>>
      OBVIOUS
    <3>1. Place(i[1], T, i[2] - 1) = Place(q, T, k)
      OBVIOUS
    <3> HIDE DEF I, c, T
    <3>2. i[1] \in Int /\ i[2] \in Int /\ i[2] - 1 \in Cells(T) /\ T \in Nat
      BY <1>1, <1>4
    <3>3. i[1] = q /\ i[2] - 1 = k
      BY <2>4, <3>1, <3>2, Digits
    <3> QED
      BY <1>4, <2>4, <3>2, <3>3
  <2>6. ASSUME k + 1 \in 1..Len(Decode(s, q))
        PROVE  answer'[Place(q, T, k)] = Decode(s, q)[k + 1]
    <3> DEFINE i == <<q, k + 1>>
    <3>1. i \in I
      BY <1>3, <2>6
    <3>2. c[i] = Place(q, T, k) /\ v[i] = Decode(s, q)[k + 1]
      <4> HIDE DEF I
      <4> QED
        BY <2>4, <3>1
    <3> HIDE DEF I, c, v, stores, blob, i, T
    <3>3. \A j \in I : c[j] = c[i] => v[j] = v[i]
      BY <2>5, <3>2 DEF i
    <3>4. c[i] \in DOMAIN blob
      BY <2>2, <2>3, <3>2
    <3>5. Stored(blob, stores)[c[i]] = v[i]
      BY <1>7, <3>1, <3>3, <3>4, StoredBy
    <3> QED
      BY <1>2, <3>2, <3>5
  <2>7. ASSUME k + 1 \notin 1..Len(Decode(s, q)) PROVE answer'[Place(q, T, k)] = -1
    <3> HIDE DEF I, c, v, stores, blob, T
    <3>1. \A p \in stores : p[1] # Place(q, T, k)
      <4> SUFFICES ASSUME NEW p \in stores, p[1] = Place(q, T, k) PROVE FALSE
        OBVIOUS
      <4>1. PICK j \in I : p = <<c[j], v[j]>>
        BY <1>6
      <4>2. j = <<q, k + 1>>
        BY <2>5, <4>1
      <4> QED
        BY <1>3, <2>7, <4>2
    <3>2. Stored(blob, stores)[Place(q, T, k)] = blob[Place(q, T, k)]
      BY <2>2, <2>3, <3>1, StoredElsewhere
    <3> QED
      BY <1>2, <2>3, <3>2
  <2> QED
    BY <2>1, <2>2, <2>3, <2>6, <2>7
<1>9. ASSUME NEW q \in Cells(s.N)
      PROVE  /\ m(q) \in 1..s.T /\ starts(q) = Starts(s, q, m(q))
             /\ \A t \in starts(q) :
                  /\ {u \in starts(q) : u < t} = Starts(s, q, t)
                  /\ best(q, t) = BestClass(s, t, q)
  <2>1. m(q) \in 1..s.T /\ Steps(s, q) = 0..(m(q) - 1)
    BY StepsOf
  <2>2. \A t \in Cells(s.T) : best(q, t) = BestClass(s, t, q)
    BY BestIsChosen
  <2>3. \A t \in 0..(m(q) - 1) : t \in Cells(s.T) /\ t \in Nat /\ (t = 0 \/ t - 1 \in Cells(s.T))
    <3> HIDE DEF m
    <3> QED
      BY <1>1, <2>1 DEF Cells
  <2> HIDE DEF m, best
  <2>4. \A t \in 0..(m(q) - 1) :
          Starting(s, q, t) <=> /\ best(q, t) # s.C - 1
                                /\ t = 0 \/ best(q, t - 1) # best(q, t)
    BY <2>2, <2>3 DEF Starting
  <2>5. starts(q) = Starts(s, q, m(q))
    BY <2>1, <2>4 DEF Starts
  <2> HIDE DEF starts
  <2>6. \A t \in starts(q) : t \in 0..(m(q) - 1) /\ t \in Cells(s.T)
    BY <2>3, <2>5 DEF Starts
  <2>7. ASSUME NEW t \in starts(q)
        PROVE  {u \in starts(q) : u < t} = Starts(s, q, t)
    <3>1. \A u \in 0..(m(q) - 1) : u < t <=> u \in 0..(t - 1)
      BY <1>1, <2>1, <2>6
    <3>2. 0..(t - 1) \subseteq 0..(m(q) - 1)
      BY <1>1, <2>1, <2>6
    <3> QED
      BY <2>5, <3>1, <3>2 DEF Starts
  <2> QED
    BY <2>1, <2>2, <2>5, <2>6, <2>7
<1>10. ASSUME NEW q \in Cells(s.N)
       PROVE  /\ \A t \in starts(q) :
                   answer'[q * s.T + Cardinality({u \in starts(q) : u < t})] = best(q, t)
              /\ \A k \in Cardinality(starts(q))..(s.T - 1) : answer'[q * s.T + k] = -1
  <2> HIDE DEF I, c, v, stores, blob, m, starts, best
  <2> DEFINE S == Starts(s, q, m(q))
             l == Cardinality(S)
  <2>1. /\ Len(Decode(s, q)) = l /\ l \in 0..s.T
        /\ \A t \in S :
              /\ t \in Cells(s.T)
              /\ Cardinality(Starts(s, q, t)) \in 0..(l - 1)
              /\ Decode(s, q)[Cardinality(Starts(s, q, t)) + 1] = BestClass(s, t, q)
    BY CharactersOf DEF m
  <2>2. starts(q) = S
    BY <1>9
  <2> HIDE DEF S, l
  <2>3. ASSUME NEW t \in starts(q)
        PROVE  answer'[q * s.T + Cardinality({u \in starts(q) : u < t})] = best(q, t)
    <3> DEFINE k == Cardinality(Starts(s, q, t))
    <3>1. Cardinality({u \in starts(q) : u < t}) = k /\ best(q, t) = BestClass(s, t, q)
      BY <1>9
    <3>2. k \in 0..(l - 1) /\ Decode(s, q)[k + 1] = BestClass(s, t, q)
      BY <2>1, <2>2
    <3> HIDE DEF k
    <3>3. k \in Cells(T) /\ k + 1 \in 1..Len(Decode(s, q))
      BY <1>1, <2>1, <3>2 DEF Cells
    <3> QED
      BY <1>8, <3>1, <3>2, <3>3
  <2>4. ASSUME NEW k \in Cardinality(starts(q))..(s.T - 1) PROVE answer'[q * s.T + k] = -1
    <3>1. Cardinality(starts(q)) = l
      BY <2>2 DEF l
    <3>2. k \in Cells(T) /\ k + 1 \notin 1..Len(Decode(s, q))
      BY <1>1, <2>1, <3>1 DEF Cells
    <3> QED
      BY <1>8, <3>2
  <2> QED
    BY <2>3, <2>4
<1> QED
  BY <1>10 DEF CTCRight

-----------------------------------------------------------------------------
(* ArgMax.                                                                 *)

(* The products of count(d, a), as they grow.                              *)
LEMMA ProductsOf ==
  ASSUME NEW d \in Seq(Nat \ {0}), NEW a \in 0..Len(d)
  PROVE  \E f \in [a..Len(d) -> Nat \ {0}] :
           /\ count(d, a) = f[Len(d)] /\ f[a] = 1
           /\ \A k \in (a + 1)..Len(d) : f[k] = f[k - 1] * d[k]
<1> DEFINE L == Len(d)
           N == L - a
           V == Nat \ {0}
           Body(f, k) == IF k = a THEN 1 ELSE f[k - 1] * d[k]
           list == CHOOSE f : f = [k \in a..L |-> Body(f, k)]
           step == [x \in V \X (1..N) |-> x[1] * d[a + x[2]]]
<1>1. /\ L \in Nat /\ N \in Nat /\ a \in Nat /\ a <= L /\ 1 \in V /\ a + N = L
      /\ \A k \in 1..L : d[k] \in V
  BY LenProperties, ElementOfSeq
<1>2. count(d, a) = list[L]
  BY DEF count
<1>3. step \in [V \X (1..N) -> V]
  <2>1. \A x \in V \X (1..N) : x[1] * d[a + x[2]] \in V
    <3> SUFFICES ASSUME NEW x \in V \X (1..N) PROVE x[1] * d[a + x[2]] \in V
      OBVIOUS
    <3>1. x[1] \in V /\ a + x[2] \in 1..L
      BY <1>1
    <3>2. d[a + x[2]] \in V
      BY <1>1, <3>1
    <3> QED
      BY <3>1, <3>2, \A u, v \in V : u * v \in V
  <2> QED
    BY <2>1
<1> HIDE DEF N
<1>4. PICK g \in [0..N -> V] : g[0] = 1 /\ \A i \in 1..N : g[i] = step[<<g[i - 1], i>>]
  <2> HIDE DEF step, V
  <2>1. \E g \in [0..N -> V] : Runs(1, N, step, g)
    BY <1>1, <1>3, Iterates, Zenon
  <2> QED
    BY <2>1 DEF Runs
<1> DEFINE f == [k \in a..L |-> g[k - a]]
<1>5. f \in [a..L -> V] /\ f[a] = 1
  <2>1. a \in a..L /\ a - a = 0 /\ \A k \in a..L : k - a \in 0..N
    BY <1>1
  <2> QED
    BY <1>4, <2>1
<1>6. ASSUME NEW k \in (a + 1)..L PROVE f[k] = f[k - 1] * d[k]
  <2> DEFINE i == k - a
  <2>1. /\ i \in 1..N /\ i - 1 \in 0..N /\ a + i = k /\ k \in a..L /\ k - 1 \in a..L
        /\ (k - 1) - a = i - 1
    BY <1>1
  <2>2. f[k] = g[i] /\ f[k - 1] = g[i - 1]
    BY <2>1
  <2> HIDE DEF i, f
  <2>3. <<g[i - 1], i>> \in V \X (1..N)
    BY <1>4, <2>1
  <2>4. step[<<g[i - 1], i>>] = g[i - 1] * d[k]
    BY <2>1, <2>3
  <2> QED
    BY <1>4, <2>1, <2>2, <2>4
<1>7. f = [k \in a..L |-> Body(f, k)]
  <2>1. ASSUME NEW k \in a..L PROVE f[k] = Body(f, k)
    <3>1. k = a \/ k \in (a + 1)..L
      BY <1>1
    <3>2. k \in (a + 1)..L => k # a
      BY <1>1
    <3> HIDE DEF f
    <3> QED
      BY <1>5, <1>6, <3>1, <3>2
  <2> HIDE DEF Body
  <2> QED
    BY <1>5, <2>1
<1>8. list = [k \in a..L |-> Body(list, k)]
  <2> HIDE DEF Body
  <2> QED
    BY <1>7
<1> HIDE DEF list
<1>9. list \in [a..L -> V] /\ list[a] = 1 /\ \A k \in (a + 1)..L : list[k] = list[k - 1] * d[k]
  <2>1. a \in a..L /\ \A k \in (a + 1)..L : k \in a..L /\ k # a
    BY <1>1
  <2>2. \A k \in a..L : list[k] = Body(list, k)
    <3> HIDE DEF Body
    <3> QED
      BY <1>8
  <2>3. list[a] = 1 /\ \A k \in (a + 1)..L : list[k] = list[k - 1] * d[k]
    BY <2>1, <2>2
  <2>4. DOMAIN list = a..L
    BY <1>8
  <2> DEFINE good == {i \in 0..N : list[a + i] \in V}
  <2>5. 0 \in good
    BY <1>1, <2>3
  <2>6. ASSUME NEW i \in 1..N, i - 1 \in good PROVE i \in good
    <3>1. /\ a + i \in (a + 1)..L /\ a + i \in 1..L /\ (a + i) - 1 = a + (i - 1)
          /\ i \in 0..N
      BY <1>1
    <3>2. list[a + i] = list[a + (i - 1)] * d[a + i]
      BY <2>3, <3>1
    <3>3. list[a + (i - 1)] \in V /\ d[a + i] \in V
      BY <1>1, <2>6, <3>1
    <3>4. list[a + i] \in V
      BY <3>2, <3>3, \A u, v \in V : u * v \in V
    <3> QED
      BY <3>1, <3>4
  <2> HIDE DEF good
  <2>7. \A i \in 0..N : i \in good
    BY <1>1, <2>5, <2>6, UpTo
  <2>8. ASSUME NEW k \in a..L PROVE list[k] \in V
    <3>1. k - a \in 0..N /\ a + (k - a) = k
      BY <1>1
    <3> QED
      BY <2>7, <3>1 DEF good
  <2>9. list \in [a..L -> V]
    <3> HIDE DEF V, Body
    <3> QED
      BY <1>8, <2>4, <2>8
  <2> QED
    BY <2>3, <2>9
<1> HIDE DEF V, L
<1> QED
  BY <1>2, <1>9 DEF V, L

(* A product splits at any place.                                          *)
LEMMA CountSplits ==
  ASSUME NEW d \in Seq(Nat \ {0}), NEW a \in 0..Len(d), NEW b \in a..Len(d)
  PROVE  /\ count(d, a) \in Nat \ {0}
         /\ \E P \in Nat \ {0} : count(d, a) = P * count(d, b) /\ (b = a + 1 => P = d[b])
<1> DEFINE L == Len(d)
           V == Nat \ {0}
<1>1. L \in Nat /\ a \in Nat /\ b \in 0..L /\ L \in a..L /\ L \in b..L /\ b \in a..L
      /\ \A k \in 1..L : d[k] \in V
  BY LenProperties, ElementOfSeq
<1>2. PICK f \in [a..L -> V] : /\ count(d, a) = f[L] /\ f[a] = 1
                               /\ \A k \in (a + 1)..L : f[k] = f[k - 1] * d[k]
  BY ProductsOf
<1>3. PICK g \in [b..L -> V] : /\ count(d, b) = g[L] /\ g[b] = 1
                               /\ \A k \in (b + 1)..L : g[k] = g[k - 1] * d[k]
  BY <1>1, ProductsOf
<1> DEFINE P == f[b]
           N == L - b
           good == {i \in 0..N : f[b + i] = P * g[b + i]}
<1> HIDE DEF L
<1>4. N \in Nat /\ P \in V /\ b + N = L
  BY <1>1, <1>2
<1>5. 0 \in good
  BY <1>1, <1>3, <1>4
<1>6. ASSUME NEW i \in 1..N, i - 1 \in good PROVE i \in good
  <2> DEFINE k == b + i
  <2>1. /\ k \in (a + 1)..L /\ k \in (b + 1)..L /\ k \in 1..L /\ k - 1 = b + (i - 1)
        /\ k - 1 \in b..L /\ i \in 0..N
    BY <1>1, <1>4
  <2>2. f[k] = f[k - 1] * d[k] /\ g[k] = g[k - 1] * d[k]
    BY <1>2, <1>3, <2>1
  <2>3. f[k - 1] = P * g[k - 1]
    BY <1>6, <2>1
  <2> HIDE DEF P, k
  <2>4. g[k - 1] \in Nat /\ d[k] \in Nat /\ P \in Nat
    BY <1>1, <1>3, <1>4, <2>1
  <2>5. \A x, y, z \in Nat : (x * y) * z = x * (y * z)
    OBVIOUS
  <2>6. f[k] = P * g[k]
    BY <2>2, <2>3, <2>4, <2>5
  <2> QED
    BY <2>1, <2>6 DEF k, P
<1>7. N \in good
  <2>1. N \in 0..N
    BY <1>4
  <2> HIDE DEF good
  <2> QED
    BY <1>4, <1>5, <1>6, <2>1, UpTo
<1>8. count(d, a) = P * count(d, b)
  <2> HIDE DEF P
  <2> QED
    BY <1>2, <1>3, <1>4, <1>7
<1>9. ASSUME b = a + 1 PROVE P = d[b]
  <2>1. b \in (a + 1)..L /\ b \in 1..L /\ b - 1 = a
    BY <1>1, <1>9
  <2>2. f[b] = f[a] * d[b]
    BY <1>2, <2>1
  <2> QED
    BY <1>1, <1>2, <2>1, <2>2
<1>10. count(d, a) \in V
  BY <1>1, <1>2
<1> QED
  BY <1>4, <1>8, <1>9, <1>10

LEMMA Quotient ==
  ASSUME NEW N \in Nat \ {0}, NEW a \in Int PROVE (a * N) \div N = a
<1>1. 0 \in Cells(N) /\ Place(a, N, 0) = a * N
  BY DEF Cells, Place
<1>2. Place(a, N, 0) \div N = a
  BY <1>1, PartsOf
<1> QED
  BY <1>1, <1>2

(* The axis of ArgMax: outer slices of dim(s) values axis_dist(s) apart.   *)
LEMMA AxisOf ==
  ASSUME NEW s \in ArgMaxNodes
  PROVE  /\ dim(s) \in Nat \ {0} /\ axis_dist(s) \in Nat \ {0}
         /\ axis_dist(s) = IF s.has_axis THEN count(s.dims, axis_(s) + 1) ELSE 1
         /\ \E outer \in Nat \ {0} :
              /\ count(s.dims, 0) = outer * (dim(s) * axis_dist(s))
              /\ count(s.dims, 0) \div dim(s) = outer * axis_dist(s)
              /\ count(s.dims, 0) \div (dim(s) * axis_dist(s)) = outer
<1> DEFINE V == Nat \ {0}
           d == s.dims
           D == dim(s)
           A == axis_dist(s)
           x == axis_(s)
<1>1. /\ d \in Seq(V) /\ Len(d) \in Nat /\ Len(d) >= 1 /\ s.has_axis \in BOOLEAN
      /\ s.axis_index \in Int
      /\ s.has_axis => s.axis_index \in (-Len(d))..(Len(d) - 1)
      /\ \A k \in 1..Len(d) : d[k] \in V
  <2>1. d \in Seq(V) /\ d # <<>>
    BY AnswerAssumption
  <2>2. Len(d) \in Nat /\ Len(d) # 0
    BY <2>1, LenProperties, EmptySeq
  <2>3. \A k \in 1..Len(d) : d[k] \in V
    BY <2>1, ElementOfSeq
  <2> QED
    BY <2>1, <2>2, <2>3, AnswerAssumption
<1>2. \A u, v \in V : u * v \in V
  OBVIOUS
<1>3. /\ D \in V /\ A \in V
      /\ A = IF s.has_axis THEN count(d, x + 1) ELSE 1
      /\ \E outer \in V : count(d, 0) = outer * (D * A)
  <2>1. CASE s.has_axis
    <3>1. x \in 0..(Len(d) - 1) /\ x \in Int
      BY <1>1, <2>1 DEF axis_
    <3>2. D = d[x + 1] /\ A = count(d, x) \div D
      BY <2>1 DEF dim, axis_dist
    <3> HIDE DEF x, D, A, d, V
    <3>3. /\ x + 1 \in 1..Len(d) /\ 0 \in 0..Len(d) /\ x \in 0..Len(d) /\ x + 1 \in 0..Len(d)
          /\ x + 1 \in x..Len(d) /\ Len(d) \in 0..Len(d)
      BY <1>1, <3>1
    <3>4. count(d, x + 1) \in V
      <4>1. x + 1 \in (x + 1)..Len(d)
        BY <1>1, <3>1
      <4> QED
        BY <1>1, <3>3, <4>1, CountSplits DEF V
    <3>5. PICK P \in V : count(d, x) = P * count(d, x + 1) /\ (x + 1 = x + 1 => P = d[x + 1])
      BY <1>1, <3>3, CountSplits DEF V
    <3>6. PICK Q \in V : count(d, 0) = Q * count(d, x)
      BY <1>1, <3>3, CountSplits DEF V
    <3> DEFINE I == count(d, x + 1)
    <3>7. D \in V /\ count(d, x) = D * I
      BY <1>1, <3>2, <3>3, <3>5
    <3> HIDE DEF I
    <3>8. I \in V
      BY <3>4 DEF I
    <3>9. D * I = I * D
      BY <3>7, <3>8 DEF V
    <3>10. A = I
      <4>1. (I * D) \div D = I
        BY <3>7, <3>8, Quotient DEF V
      <4> QED
        BY <3>2, <3>7, <3>9, <4>1
    <3> QED
      BY <2>1, <3>6, <3>7, <3>8, <3>10 DEF I
  <2>2. CASE ~s.has_axis
    <3>1. D = count(d, 1) /\ A = 1
      BY <2>2 DEF dim, axis_dist
    <3> HIDE DEF D, A, d, V
    <3>2. 0 \in 0..Len(d) /\ 1 \in 0..Len(d) /\ 1 \in 1..Len(d) /\ 1 \in 0..Len(d)
      BY <1>1
    <3>3. D \in V
      BY <1>1, <3>1, <3>2, CountSplits DEF V
    <3>4. PICK P \in V : count(d, 0) = P * count(d, 1)
      BY <1>1, <3>2, CountSplits DEF V
    <3>5. D * A = D /\ A \in V
      BY <3>1, <3>3 DEF V
    <3> QED
      BY <2>2, <3>1, <3>3, <3>4, <3>5
  <2> QED
    BY <1>1, <2>1, <2>2
<1>4. PICK outer \in V : count(d, 0) = outer * (D * A)
  BY <1>3
<1> DEFINE c == count(d, 0)
<1> HIDE DEF D, A, c, V
<1>5. D * A \in V /\ outer * (D * A) = (outer * A) * D /\ outer * A \in V
  <2>1. D \in Nat /\ A \in Nat /\ outer \in Nat
    BY <1>3 DEF V
  <2>2. outer * (D * A) = (outer * A) * D
    BY <2>1
  <2> QED
    BY <1>2, <1>3, <2>2
<1>6. c = outer * (D * A)
  BY <1>4 DEF c
<1>7. c \div D = outer * A
  BY <1>3, <1>5, <1>6, Quotient DEF V
<1>8. c \div (D * A) = outer
  <2> DEFINE W == D * A
  <2>1. W \in Nat \ {0} /\ c = outer * W /\ outer \in Int
    BY <1>5, <1>6 DEF V
  <2> HIDE DEF W
  <2>2. c \div W = outer
    BY <2>1, Quotient
  <2> QED
    BY <2>2 DEF W
<1>9. \E o \in V : c = o * (D * A) /\ c \div D = o * A /\ c \div (D * A) = o
  BY <1>6, <1>7, <1>8
<1>10. D \in V /\ A \in V /\ A = IF s.has_axis THEN count(d, x + 1) ELSE 1
  BY <1>3
<1> QED
  BY <1>9, <1>10, Zenon DEF V, c, D, A

(* The pairs of a slice, and the order of std::greater among them.         *)
LEMMA PairsSorted ==
  ASSUME NEW s \in ArgMaxNodes, NEW i \in Cells(count(s.dims, 0) \div dim(s))
  PROVE  /\ \A j \in Cells(dim(s)) : Value(s, i, j) \in Int
         /\ IsFiniteSet(Pairs(s, i)) /\ StrictOrder(Pairs(s, i), Greater)
<1> DEFINE D == dim(s)
           A == axis_dist(s)
           K == Cells(D)
           Pair == [value : Int, index : Nat]
<1>1. PICK outer \in Nat \ {0} : /\ count(s.dims, 0) = outer * (D * A)
                                 /\ count(s.dims, 0) \div D = outer * A
                                 /\ D \in Nat \ {0} /\ A \in Nat \ {0}
  BY AxisOf
<1> DEFINE b == i \div A
           a == i % A
<1>2. b \in Cells(outer) /\ a \in Cells(A)
  <2>1. i \in Cells(outer * A)
    BY <1>1
  <2> HIDE DEF A
  <2> QED
    BY <1>1, <2>1, PartsRange
<1> HIDE DEF a, b
<1>3. ASSUME NEW j \in K PROVE Value(s, i, j) \in Int
  <2> DEFINE p == Place3(D, A, <<b, j, a>>)
  <2>1. p \in Cells(outer * D * A)
    <3>1. <<b, j, a>> \in Cells(outer) \X Cells(D) \X Cells(A)
      BY <1>2
    <3> HIDE DEF D, A
    <3> QED
      BY <1>1, <3>1, ThreeRange
  <2>2. outer * D * A = outer * (D * A)
    <3> HIDE DEF D, A
    <3> QED
      BY <1>1
  <2>3. p \in Cells(count(s.dims, 0))
    BY <1>1, <2>1, <2>2
  <2>4. Value(s, i, j) = s.src[p]
    BY DEF Value, Place3, Place, a, b
  <2>5. s.src \in [Cells(count(s.dims, 0)) -> Int]
    BY AnswerAssumption
  <2> HIDE DEF p
  <2> QED
    BY <2>3, <2>4, <2>5
<1>4. Pairs(s, i) \in SUBSET Pair
  BY <1>3 DEF Pairs, Cells
<1>5. IsFiniteSet(Pairs(s, i))
  <2>1. IsFiniteSet(K)
    <3>1. 0 \in Int /\ D - 1 \in Int /\ 0 <= (D - 1) + 1
      BY <1>1
    <3> QED
      BY <3>1, Interval DEF Cells
  <2> DEFINE pair(j) == [value |-> Value(s, i, j), index |-> j]
  <2>2. Pairs(s, i) = {pair(j) : j \in K}
    BY DEF Pairs
  <2> HIDE DEF pair, K
  <2>3. IsFiniteSet({pair(j) : j \in K})
    <3> DEFINE f == [j \in K |-> pair(j)]
    <3>1. f \in Surjection(K, {pair(j) : j \in K})
      BY DEF Surjection
    <3> HIDE DEF f
    <3> QED
      BY <2>1, <3>1, FS_Surjection
  <2> QED
    BY <2>2, <2>3
<1>6. \A x, y \in Pair :
        <<x, y>> \in Greater <=> \/ x.value > y.value
                                 \/ x.value = y.value /\ x.index > y.index
  BY DEF Greater
<1>7. \A x, y \in Pairs(s, i) : x.index = y.index => x = y
  BY DEF Pairs
<1>8. StrictOrder(Pairs(s, i), Greater)
  <2> DEFINE S == Pairs(s, i)
  <2>1. S \subseteq Pair
    BY <1>4
  <2> HIDE DEF S
  <2>2. \A x \in S : x.value \in Int /\ x.index \in Nat
    BY <2>1
  <2>3. \A x \in S : <<x, x>> \notin Greater
    BY <1>6, <2>1, <2>2
  <2>4. \A x, y, z \in S : <<x, y>> \in Greater /\ <<y, z>> \in Greater => <<x, z>> \in Greater
    <3> SUFFICES ASSUME NEW x \in S, NEW y \in S, NEW z \in S,
                        <<x, y>> \in Greater, <<y, z>> \in Greater
                 PROVE  <<x, z>> \in Greater
      OBVIOUS
    <3>1. x \in Pair /\ y \in Pair /\ z \in Pair
      BY <2>1
    <3>2. \/ x.value > y.value
          \/ x.value = y.value /\ x.index > y.index
      BY <1>6, <3>1
    <3>3. \/ y.value > z.value
          \/ y.value = z.value /\ y.index > z.index
      BY <1>6, <3>1
    <3>4. \/ x.value > z.value
          \/ x.value = z.value /\ x.index > z.index
      BY <2>2, <3>2, <3>3
    <3> QED
      BY <1>6, <3>1, <3>4
  <2>5. \A x, y \in S : x = y \/ <<x, y>> \in Greater \/ <<y, x>> \in Greater
    <3> SUFFICES ASSUME NEW x \in S, NEW y \in S, x # y
                 PROVE  <<x, y>> \in Greater \/ <<y, x>> \in Greater
      OBVIOUS
    <3>1. x \in Pair /\ y \in Pair /\ x.index # y.index
      BY <1>7, <2>1 DEF S
    <3>2. x.value > y.value \/ y.value > x.value \/ x.value = y.value
      BY <2>2
    <3>3. x.index > y.index \/ y.index > x.index
      BY <2>2, <3>1
    <3> QED
      BY <1>6, <3>1, <3>2, <3>3
  <2> QED
    BY <2>3, <2>4, <2>5 DEF StrictOrder, S
<1> QED
  BY <1>3, <1>5, <1>8

(* The pair of value j has as many pairs before it as ArgMaxRight counts.  *)
Greaters(s, i, j) ==
  {k \in Cells(dim(s)) : \/ Value(s, i, k) > Value(s, i, j)
                         \/ Value(s, i, k) = Value(s, i, j) /\ k > j}

LEMMA PairRanked ==
  ASSUME NEW s \in ArgMaxNodes, NEW i \in Cells(count(s.dims, 0) \div dim(s)),
         NEW j \in Cells(dim(s))
  PROVE  /\ Cardinality(Greaters(s, i, j)) \in Nat
         /\ Ranked(Pairs(s, i), Greater)[Cardinality(Greaters(s, i, j)) + 1]
              = [value |-> Value(s, i, j), index |-> j]
<1> DEFINE K == Cells(dim(s))
           S == Pairs(s, i)
           p == [k \in K |-> [value |-> Value(s, i, k), index |-> k]]
           G == Greaters(s, i, j)
           list == Ranked(S, Greater)
           B == Before(S, Greater, p[j])
<1>1. /\ \A k \in K : Value(s, i, k) \in Int /\ k \in Nat
      /\ IsFiniteSet(S) /\ StrictOrder(S, Greater)
  BY PairsSorted DEF Cells
<1>2. S = {p[k] : k \in K} /\ p \in [K -> S]
  BY DEF Pairs
<1>3. \A k \in K : p[k].value = Value(s, i, k) /\ p[k].index = k
  OBVIOUS
<1>4. \A k \in K : <<p[k], p[j]>> \in Greater <=> k \in G
  <2> SUFFICES ASSUME NEW k \in K PROVE <<p[k], p[j]>> \in Greater <=> k \in G
    OBVIOUS
  <2>1. p[k] \in [value : Int, index : Nat] /\ p[j] \in [value : Int, index : Nat]
    BY <1>1
  <2>2. <<p[k], p[j]>> \in Greater <=> \/ p[k].value > p[j].value
                                       \/ p[k].value = p[j].value /\ p[k].index > p[j].index
    <3> HIDE DEF p
    <3> QED
      BY <2>1 DEF Greater
  <2> HIDE DEF p
  <2> QED
    BY <1>3, <2>2 DEF Greaters
<1> HIDE DEF p
<1>5. G \subseteq K
  BY DEF Greaters
<1> HIDE DEF S, G, K
<1>6. B = {p[k] : k \in G}
  <2>1. \A x \in B : \E k \in G : x = p[k]
    BY <1>2, <1>4 DEF Before
  <2>2. \A k \in G : p[k] \in B
    BY <1>2, <1>4, <1>5 DEF Before
  <2> QED
    BY <2>1, <2>2
<1>7. IsFiniteSet(B) /\ IsFiniteSet(K)
  <2>1. B \in SUBSET S
    BY DEF Before
  <2>2. IsFiniteSet(K)
    <3>1. dim(s) \in Nat \ {0}
      BY AxisOf
    <3>2. 0 \in Int /\ dim(s) - 1 \in Int /\ 0 <= (dim(s) - 1) + 1
      BY <3>1
    <3> QED
      BY <3>2, Interval DEF Cells, K
  <2> QED
    BY <1>1, <2>1, <2>2, FS_Subset
<1>8. IsFiniteSet(G)
  <2>1. G \in SUBSET K
    BY <1>5
  <2> QED
    BY <1>7, <2>1, FS_Subset
<1>9. Cardinality(G) = Cardinality(B) /\ Cardinality(G) \in Nat
  <2> DEFINE f == [k \in G |-> p[k]]
  <2>1. f \in [G -> B]
    BY <1>6
  <2>2. \A k, l \in G : f[k] = f[l] => k = l
    <3> SUFFICES ASSUME NEW k \in G, NEW l \in G, f[k] = f[l] PROVE k = l
      OBVIOUS
    <3>1. p[k] = p[l]
      OBVIOUS
    <3>2. k \in K /\ l \in K
      BY <1>5
    <3> QED
      BY <1>3, <3>1, <3>2
  <2>3. \A x \in B : \E k \in G : f[k] = x
    BY <1>6
  <2> HIDE DEF f, B
  <2>4. f \in Bijection(G, B)
    BY <2>1, <2>2, <2>3 DEF Bijection, Injection, Surjection, IsInjective
  <2>5. ExistsBijection(G, B)
    BY <2>4 DEF ExistsBijection
  <2> QED
    BY <1>8, <2>5, FS_Bijection, FS_CardinalityType
<1>10. p[j] \in S
  BY <1>2 DEF K
<1>11. /\ Cardinality(S) \in Nat /\ \A x \in S : \E k \in 1..Cardinality(S) : list[k] = x
      /\ \A k \in 1..Cardinality(S) : Cardinality(Before(S, Greater, list[k])) = k - 1
  BY <1>1, RankedList
<1>12. PICK m \in 1..Cardinality(S) : list[m] = p[j]
  BY <1>10, <1>11
<1>13. Cardinality(Before(S, Greater, list[m])) = m - 1 /\ Cardinality(S) \in Nat
  BY <1>11
<1>14. Cardinality(G) + 1 = m
  BY <1>9, <1>12, <1>13
<1>15. list[Cardinality(G) + 1] = p[j]
  BY <1>12, <1>14
<1>16. p[j] = [value |-> Value(s, i, j), index |-> j]
  BY DEF p, K
<1> HIDE DEF list
<1>17. list[Cardinality(G) + 1] = [value |-> Value(s, i, j), index |-> j]
  BY <1>15, <1>16
<1> QED
  BY <1>9, <1>17 DEF G, S, list

(* The loops of ArgMax and the cells they store the pairs in.              *)
ArgLoops(s) == Cells(count(s.dims, 0) \div dim(s)) \X Cells(s.top_k)
ArgCell(s, i) ==
  ((i[1] \div axis_dist(s)) * s.top_k + i[2]) * axis_dist(s) + (i[1] % axis_dist(s))

LEMMA ArgMaxShape ==
  ASSUME NEW s \in ArgMaxNodes
  PROVE  /\ s.top_k \in Nat /\ axis_dist(s) \in Nat \ {0} /\ dim(s) \in Nat \ {0}
         /\ \E outer \in Nat \ {0} :
              /\ count(s.dims, 0) \div dim(s) = outer * axis_dist(s)
              /\ count(s.dims, 0) \div (dim(s) * axis_dist(s)) = outer
<1>1. dim(s) \in Nat \ {0} /\ s.top_k \in 0..dim(s)
  BY AxisOf, AnswerAssumption
<1>2. s.top_k \in Nat
  BY <1>1
<1> QED
  BY <1>1, <1>2, AxisOf

LEMMA ArgMaxCell ==
  ASSUME NEW s \in ArgMaxNodes, NEW outer \in Nat \ {0},
         count(s.dims, 0) \div dim(s) = outer * axis_dist(s),
         NEW v, NEW stores,
         StoresOf(stores, ArgLoops(s), [i \in ArgLoops(s) |-> ArgCell(s, i)], v),
         NEW b \in Cells(outer), NEW a \in Cells(axis_dist(s)), NEW r \in Cells(s.top_k)
  PROVE  LET i == <<Place(b, axis_dist(s), a), r>> IN
         /\ i \in ArgLoops(s)
         /\ Stored(Blob((count(s.dims, 0) \div dim(s)) * s.top_k), stores)
              [(b * s.top_k + r) * axis_dist(s) + a] = v[i]
<1> DEFINE A == axis_dist(s)
           K == s.top_k
           I == ArgLoops(s)
           c == [k \in I |-> ArgCell(s, k)]
           blob == Blob((count(s.dims, 0) \div dim(s)) * s.top_k)
           i == <<Place(b, A, a), r>>
           parts(k) == <<k[1] \div A, k[2], k[1] % A>>
           Parts == Cells(outer) \X Cells(K) \X Cells(A)
<1>1. A \in Nat \ {0} /\ K \in Nat \ {0}
  BY ArgMaxShape DEF Cells
<1>2. I = Cells(outer * A) \X Cells(K)
  BY DEF ArgLoops
<1>3. \A k \in I : ArgCell(s, k) = Place3(K, A, parts(k))
  BY DEF ArgCell, Place3, Place
<1> HIDE DEF A, K, I
<1>4. i \in I
  <2>1. Place(b, A, a) \in Cells(outer * A)
    BY <1>1, DigitRange DEF A
  <2> QED
    BY <1>2, <2>1 DEF K
<1>5. ASSUME NEW k \in I
      PROVE  parts(k) \in Parts /\ k = <<Place(k[1] \div A, A, k[1] % A), k[2]>>
  <2>1. k[1] \in Cells(outer * A) /\ k[2] \in Cells(K) /\ k = <<k[1], k[2]>>
    BY <1>2
  <2>2. k[1] \in Int
    BY <2>1 DEF Cells
  <2>3. k[1] \div A \in Cells(outer) /\ k[1] % A \in Cells(A)
    BY <1>1, <2>1, PartsRange
  <2>4. k[1] = Place(k[1] \div A, A, k[1] % A)
    BY <1>1, <2>2, DigitParts
  <2> QED
    BY <2>1, <2>3, <2>4
<1>6. parts(i) = <<b, r, a>> /\ <<b, r, a>> \in Parts
  <2>1. b \in Int /\ i[1] = Place(b, A, a) /\ i[2] = r
    BY DEF Cells
  <2>2. Place(b, A, a) \div A = b /\ Place(b, A, a) % A = a
    BY <1>1, <2>1, PartsOf DEF A
  <2> QED
    BY <2>1, <2>2 DEF A, K
<1>7. c[i] = Place3(K, A, <<b, r, a>>)
  <2> HIDE DEF i, parts
  <2> QED
    BY <1>3, <1>4, <1>6
<1>8. c[i] = (b * s.top_k + r) * axis_dist(s) + a
  BY <1>7 DEF Place3, Place, A, K
<1>9. c[i] \in DOMAIN blob
  <2>1. Place3(K, A, <<b, r, a>>) \in Cells(outer * K * A)
    BY <1>1, <1>6, ThreeRange
  <2>2. outer * K * A = (outer * A) * K
    BY <1>1
  <2>3. DOMAIN blob = Cells((outer * A) * K)
    BY DEF Blob, A, K
  <2> QED
    BY <1>7, <2>1, <2>2, <2>3
<1>10. \A k \in I : c[k] = c[i] => v[k] = v[i]
  <2> SUFFICES ASSUME NEW k \in I, c[k] = c[i] PROVE k = i
    BY Zenon
  <2>1. Place3(K, A, parts(k)) = Place3(K, A, <<b, r, a>>)
    BY <1>3, <1>7
  <2>2. parts(k) = <<b, r, a>>
    BY <1>1, <1>5, <1>6, <2>1, ThreeDigits
  <2>3. k[1] \div A = b /\ k[2] = r /\ k[1] % A = a
    BY <2>2
  <2> QED
    BY <1>5, <2>3
<1>11. StoresOf(stores, I, c, v)
  BY DEF I
<1>12. Stored(blob, stores)[c[i]] = v[i]
  <2> HIDE DEF c, i, blob
  <2> QED
    BY <1>4, <1>9, <1>10, <1>11, StoredBy
<1> QED
  BY <1>4, <1>8, <1>12 DEF I, A

(* Without an axis: the indices and then the values of each slice.         *)
HalvesStored(num, K, v, w, low, high) ==
  LET I == Cells(num) \X Cells(K)
  IN  /\ StoresOf(low, I, [i \in I |-> 2 * i[1] * K + i[2]], v)
      /\ StoresOf(high, I, [i \in I |-> 2 * i[1] * K + K + i[2]], w)

LEMMA ArgMaxHalves ==
  ASSUME NEW num \in Nat, NEW K \in Nat, NEW v, NEW w, NEW low, NEW high,
         HalvesStored(num, K, v, w, low, high),
         NEW b \in Cells(num), NEW r \in Cells(K)
  PROVE  /\ Stored(Stored(Blob(2 * num * K), low), high)[b * 2 * K + r] = v[<<b, r>>]
         /\ Stored(Stored(Blob(2 * num * K), low), high)[(b * 2 + 1) * K + r] = w[<<b, r>>]
<1> DEFINE I == Cells(num) \X Cells(K)
           Parts == Cells(num) \X Cells(2) \X Cells(K)
           part(i, e) == <<i[1], e, i[2]>>
           c == [i \in I |-> 2 * i[1] * K + i[2]]
           d == [i \in I |-> 2 * i[1] * K + K + i[2]]
           blob == Blob(2 * num * K)
           half == Stored(blob, low)
           x == <<b, r>>
<1>1. 0 \in Cells(2) /\ 1 \in Cells(2) /\ 2 \in Nat /\ x \in I
  BY DEF Cells
<1>2. ASSUME NEW i \in I
      PROVE  /\ i = <<i[1], i[2]>>
             /\ part(i, 0) \in Parts /\ part(i, 1) \in Parts
             /\ c[i] = Place3(2, K, part(i, 0)) /\ d[i] = Place3(2, K, part(i, 1))
  <2>1. i = <<i[1], i[2]>> /\ i[1] \in Cells(num) /\ i[2] \in Cells(K)
    OBVIOUS
  <2>2. i[1] \in Int /\ i[2] \in Int
    BY <2>1 DEF Cells
  <2>3. part(i, 0) \in Parts /\ part(i, 1) \in Parts
    BY <1>1, <2>1
  <2>4. 2 * i[1] * K + i[2] = (i[1] * 2 + 0) * K + i[2]
    BY <2>2
  <2>5. 2 * i[1] * K + K + i[2] = (i[1] * 2 + 1) * K + i[2]
    <3> DEFINE u == i[1]
               z == i[2]
    <3>1. u \in Int /\ z \in Int /\ K \in Int
      BY <2>2
    <3> HIDE DEF u, z
    <3>2. (u * 2 + 1) * K = (2 * u) * K + K
      BY <3>1
    <3> QED
      BY <3>1, <3>2 DEF u, z
  <2>6. /\ Place3(2, K, part(i, 0)) = (i[1] * 2 + 0) * K + i[2]
        /\ Place3(2, K, part(i, 1)) = (i[1] * 2 + 1) * K + i[2]
    BY DEF Place3, Place
  <2>7. c[i] = 2 * i[1] * K + i[2] /\ d[i] = 2 * i[1] * K + K + i[2]
    OBVIOUS
  <2> HIDE DEF c, d, part, Parts, I
  <2> QED
    BY <2>1, <2>3, <2>4, <2>5, <2>6, <2>7
<1>3. \A i, j \in I : /\ c[i] = c[j] => i = j
                      /\ d[i] = d[j] => i = j
                      /\ c[i] # d[j]
  <2> SUFFICES ASSUME NEW i \in I, NEW j \in I
               PROVE  (c[i] = c[j] => i = j) /\ (d[i] = d[j] => i = j) /\ c[i] # d[j]
    BY Zenon
  <2> HIDE DEF c, d, I
  <2>1. \A p, q \in Parts : Place3(2, K, p) = Place3(2, K, q) => p = q
    BY <1>1, ThreeDigits
  <2>2. c[i] = c[j] => part(i, 0) = part(j, 0)
    <3> HIDE DEF part, Parts
    <3> QED
      BY <1>2, <2>1
  <2>3. d[i] = d[j] => part(i, 1) = part(j, 1)
    <3> HIDE DEF part, Parts
    <3> QED
      BY <1>2, <2>1
  <2>4. c[i] = d[j] => part(i, 0) = part(j, 1)
    <3> HIDE DEF part, Parts
    <3> QED
      BY <1>2, <2>1
  <2>5. \A e, f : part(i, e) = part(j, f) => i[1] = j[1] /\ i[2] = j[2] /\ e = f
    OBVIOUS
  <2>6. i = <<i[1], i[2]>> /\ j = <<j[1], j[2]>> /\ 0 # 1
    BY DEF I
  <2>7. i[1] = j[1] /\ i[2] = j[2] => i = j
    BY <2>6
  <2>8. part(i, 0) # part(j, 1)
    BY <2>5, <2>6
  <2>9. part(i, 0) = part(j, 0) => i = j
    BY <2>5, <2>7
  <2>10. part(i, 1) = part(j, 1) => i = j
    BY <2>5, <2>7
  <2> HIDE DEF part
  <2> QED
    BY <2>2, <2>3, <2>4, <2>8, <2>9, <2>10
<1>4. c[x] \in DOMAIN blob /\ d[x] \in DOMAIN blob
  <2>1. part(x, 0) \in Parts /\ part(x, 1) \in Parts
        /\ c[x] = Place3(2, K, part(x, 0)) /\ d[x] = Place3(2, K, part(x, 1))
    BY <1>1, <1>2
  <2>2. \A p \in Parts : Place3(2, K, p) \in Cells(num * 2 * K)
    BY <1>1, ThreeRange
  <2>3. num * 2 * K = 2 * num * K
    OBVIOUS
  <2>4. DOMAIN blob = Cells(2 * num * K)
    BY DEF Blob
  <2> HIDE DEF part, Parts, c, d, x, blob
  <2> QED
    BY <2>1, <2>2, <2>3, <2>4
<1>5. StoresOf(low, I, c, v) /\ StoresOf(high, I, d, w)
  BY DEF HalvesStored
<1>6. c[x] = b * 2 * K + r /\ d[x] = (b * 2 + 1) * K + r
  <2>1. c[x] = Place3(2, K, part(x, 0)) /\ d[x] = Place3(2, K, part(x, 1))
    BY <1>1, <1>2
  <2>2. b \in Int
    BY DEF Cells
  <2>3. /\ Place3(2, K, part(x, 0)) = (b * 2 + 0) * K + r
        /\ Place3(2, K, part(x, 1)) = (b * 2 + 1) * K + r
    BY DEF Place3, Place
  <2>4. b * 2 + 0 = b * 2
    BY <2>2
  <2> HIDE DEF c, d, x, part
  <2> QED
    BY <2>1, <2>3, <2>4
<1> HIDE DEF c, d, I, blob, x
<1>7. half[c[x]] = v[x]
  BY <1>1, <1>3, <1>4, <1>5, StoredBy
<1>8. DOMAIN half = DOMAIN blob
  BY StoredDomain
<1> HIDE DEF half
<1>9. \A p \in high : p[1] # c[x]
  <2> SUFFICES ASSUME NEW p \in high, p[1] = c[x] PROVE FALSE
    OBVIOUS
  <2>1. PICK j \in I : p = <<d[j], w[j]>>
    BY <1>5 DEF StoresOf
  <2> QED
    BY <1>1, <1>3, <2>1
<1>10. Stored(half, high)[c[x]] = v[x]
  BY <1>4, <1>7, <1>8, <1>9, StoredElsewhere
<1>11. Stored(half, high)[d[x]] = w[x]
  BY <1>1, <1>3, <1>4, <1>5, <1>8, StoredBy
<1> QED
  BY <1>6, <1>10, <1>11 DEF half, blob, x

LEMMA ArgMaxAnswer ==
  ASSUME NEW s \in ArgMaxNodes, ArgMax(s)
  PROVE  ArgMaxRight(s, answer')
<1> DEFINE D == dim(s)
           A == axis_dist(s)
           K == s.top_k
           num == count(s.dims, 0) \div D
           inner == IF s.has_axis THEN count(s.dims, axis_(s) + 1) ELSE 1
           I == ArgLoops(s)
           best(i) == Ranked(Pairs(s, i[1]), Greater)[i[2] + 1]
           val == [i \in I |-> best(i).value]
           idx == [i \in I |-> best(i).index]
           c == [i \in I |-> ArgCell(s, i)]
           lo == [i \in I |-> 2 * i[1] * K + i[2]]
           hi == [i \in I |-> 2 * i[1] * K + K + i[2]]
           vals == {<<ArgCell(s, i), best(i).value>> : i \in I}
           idxs == {<<ArgCell(s, i), best(i).index>> : i \in I}
           low == {<<2 * i[1] * K + i[2], best(i).index>> : i \in I}
           high == {<<2 * i[1] * K + K + i[2], best(i).value>> : i \in I}
<1>1. PICK outer \in Nat \ {0} :
        /\ num = outer * A /\ count(s.dims, 0) \div (D * A) = outer
        /\ K \in Nat /\ A \in Nat \ {0} /\ D \in Nat \ {0}
  BY ArgMaxShape
<1>2. inner = A
  BY AxisOf
<1>3. /\ s.out_max_val /\ s.has_axis => answer' = Stored(Blob(num * K), vals)
      /\ s.out_max_val /\ ~s.has_axis =>
           answer' = Stored(Stored(Blob(2 * num * K), low), high)
      /\ ~s.out_max_val => answer' = Stored(Blob(num * K), idxs)
  BY DEF ArgMax, Fill, ArgLoops, ArgCell
<1>4. /\ StoresOf(vals, I, c, val) /\ StoresOf(idxs, I, c, idx)
      /\ StoresOf(low, I, lo, idx) /\ StoresOf(high, I, hi, val)
  <2>1. \A i \in I : c[i] = ArgCell(s, i) /\ val[i] = best(i).value /\ idx[i] = best(i).index
                     /\ lo[i] = 2 * i[1] * K + i[2] /\ hi[i] = 2 * i[1] * K + K + i[2]
    OBVIOUS
  <2>2. /\ vals = {<<c[i], val[i]>> : i \in I} /\ idxs = {<<c[i], idx[i]>> : i \in I}
        /\ low = {<<lo[i], idx[i]>> : i \in I} /\ high = {<<hi[i], val[i]>> : i \in I}
    <3> HIDE DEF c, val, idx, lo, hi, I, best
    <3> QED
      BY <2>1
  <2> HIDE DEF c, val, idx, lo, hi, I, vals, idxs, low, high
  <2> QED
    BY <2>2 DEF StoresOf
<1> DEFINE value(b, a, j) == s.src[(b * D + j) * inner + a]
           before(b, a, j) == {k \in Cells(D) : \/ value(b, a, k) > value(b, a, j)
                                                \/ value(b, a, k) = value(b, a, j) /\ k > j}
           Right(b, a, j) ==
             LET rank == Cardinality(before(b, a, j))
             IN  rank < s.top_k =>
                   IF s.out_max_val /\ ~s.has_axis
                   THEN /\ answer[b * 2 * s.top_k + rank] = j
                        /\ answer[(b * 2 + 1) * s.top_k + rank] = value(b, a, j)
                   ELSE answer[(b * s.top_k + rank) * inner + a]
                          = IF s.out_max_val THEN value(b, a, j) ELSE j
<1>5. ASSUME NEW b \in Cells(outer), NEW a \in Cells(A), NEW j \in Cells(D)
      PROVE  Right(b, a, j)'
  <2> DEFINE i == Place(b, A, a)
             rank == Cardinality(before(b, a, j))
             x == <<i, rank>>
  <2>1. i \in Cells(num) /\ i \div A = b /\ i % A = a
    <3>1. b \in Int
      BY DEF Cells
    <3> HIDE DEF A, num
    <3>2. i \div A = b /\ i % A = a
      BY <1>1, <3>1, PartsOf
    <3>3. i \in Cells(outer * A)
      <4>1. A \in Nat /\ outer \in Nat
        BY <1>1
      <4> QED
        BY <4>1, DigitRange
    <3> QED
      BY <1>1, <3>2, <3>3
  <2>2. \A k : Value(s, i, k) = value(b, a, k)
    <3> HIDE DEF i
    <3>1. \A k : Value(s, i, k) = s.src[((i \div A) * D + k) * A + (i % A)]
      BY DEF Value
    <3> HIDE DEF A, D, inner
    <3> QED
      BY <1>2, <2>1, <3>1
  <2>3. before(b, a, j) = Greaters(s, i, j)
    <3> HIDE DEF i, value
    <3> QED
      BY <2>2 DEF Greaters
  <2> HIDE DEF value, before, i
  <2>4. /\ rank \in Nat
        /\ Ranked(Pairs(s, i), Greater)[rank + 1] = [value |-> value(b, a, j), index |-> j]
    BY <2>1, <2>2, <2>3, PairRanked
  <2> SUFFICES ASSUME rank < K
               PROVE  IF s.out_max_val /\ ~s.has_axis
                      THEN /\ answer'[b * 2 * K + rank] = j
                           /\ answer'[(b * 2 + 1) * K + rank] = value(b, a, j)
                      ELSE answer'[(b * K + rank) * inner + a]
                             = IF s.out_max_val THEN value(b, a, j) ELSE j
    OBVIOUS
  <2>5. rank \in Cells(K)
    <3> HIDE DEF rank
    <3> QED
      BY <1>1, <2>4 DEF Cells
  <2>6. x \in I
    BY <2>1, <2>5 DEF ArgLoops
  <2>7. val[x] = value(b, a, j) /\ idx[x] = j
    <3>1. best(x) = [value |-> value(b, a, j), index |-> j]
      BY <2>4
    <3> HIDE DEF best, x, I
    <3> QED
      BY <2>6, <3>1
  <2> HIDE DEF rank, c, val, idx, lo, hi, I, vals, idxs, low, high, best
  <2>8. CASE s.out_max_val /\ s.has_axis
    <3>1. Stored(Blob(num * K), vals)[(b * K + rank) * A + a] = val[x]
      BY <1>1, <1>4, <2>5, ArgMaxCell DEF c, I, x, i
    <3> QED
      BY <1>2, <1>3, <2>7, <2>8, <3>1
  <2>9. CASE s.out_max_val /\ ~s.has_axis
    <3>1. A = 1 /\ num = outer /\ b \in Cells(num)
      <4>1. A = 1
        BY <1>2, <2>9
      <4> HIDE DEF A, num
      <4> QED
        BY <1>1, <4>1
    <3>2. i = b
      <4>1. a = 0 /\ b \in Int
        BY <3>1 DEF Cells
      <4> HIDE DEF A
      <4> QED
        BY <3>1, <4>1 DEF i, Place
    <3>3. /\ Stored(Stored(Blob(2 * num * K), low), high)[b * 2 * K + rank] = idx[<<b, rank>>]
          /\ Stored(Stored(Blob(2 * num * K), low), high)[(b * 2 + 1) * K + rank]
               = val[<<b, rank>>]
      <4>1. num \in Nat /\ K \in Nat /\ I = Cells(num) \X Cells(K)
        BY <1>1, <3>1 DEF I, ArgLoops
      <4>2. HalvesStored(num, K, idx, val, low, high)
        BY <1>4, <4>1, Zenon DEF HalvesStored, lo, hi
      <4> HIDE DEF num, K
      <4> QED
        BY <2>5, <3>1, <4>1, <4>2, ArgMaxHalves
    <3> QED
      BY <1>3, <2>7, <2>9, <3>2, <3>3
  <2>10. CASE ~s.out_max_val
    <3>1. Stored(Blob(num * K), idxs)[(b * K + rank) * A + a] = idx[x]
      BY <1>1, <1>4, <2>5, ArgMaxCell DEF c, I, x, i
    <3> QED
      BY <1>2, <1>3, <2>7, <2>10, <3>1
  <2> QED
    BY <2>8, <2>9, <2>10
<1>6. \A b \in Cells(count(s.dims, 0) \div (D * inner)), a \in Cells(inner), j \in Cells(D) :
        Right(b, a, j)'
  <2> HIDE DEF Right, inner, D
  <2> QED
    BY <1>1, <1>2, <1>5
<1> QED
  BY <1>6, Zenon DEF ArgMaxRight

-----------------------------------------------------------------------------
(* The answers of the library.                                             *)

LEMMA AnswersNext ==
  ASSUME AnswersRight, [Next]_vars PROVE AnswersRight'
<1>1. CASE UNCHANGED answerVars
  <2>1. choice' = choice /\ answer' = answer
    BY <1>1 DEF answerVars
  <2> QED
    BY <2>1 DEF AnswersRight
<1>2. CASE ExecuteAnswer
  <2>1. \/ \E s \in ArgMaxNodes : ArgMax(s)
        \/ \E s \in CTCNodes : CTCGreedyDecoder(s)
        \/ \E s \in ResampleNodes : Resample(s)
        \/ \E s \in PSROINodes : PSROIPooling(s)
    BY <1>2 DEF ExecuteAnswer, AnswerLayer
  <2>2. ASSUME NEW s \in ArgMaxNodes, ArgMax(s) PROVE AnswersRight'
    <3>1. choice' = [type |-> "ArgMax", of |-> s]
      BY <2>2 DEF ArgMax
    <3>2. choice'.type = "ArgMax" /\ choice'.of = s
      BY <3>1
    <3>3. ArgMaxRight(s, answer')
      BY <2>2, ArgMaxAnswer
    <3> QED
      BY <3>2, <3>3 DEF AnswersRight
  <2>3. ASSUME NEW s \in CTCNodes, CTCGreedyDecoder(s) PROVE AnswersRight'
    <3>1. choice' = [type |-> "CTCGreedyDecoder", of |-> s]
      BY <2>3 DEF CTCGreedyDecoder
    <3>2. choice'.type = "CTCGreedyDecoder" /\ choice'.of = s
      BY <3>1
    <3>3. CTCRight(s, answer')
      BY <2>3, CTCAnswer
    <3> QED
      BY <3>2, <3>3 DEF AnswersRight
  <2>4. ASSUME NEW s \in ResampleNodes, Resample(s) PROVE AnswersRight'
    <3>1. choice' = [type |-> "Resample", of |-> s]
      BY <2>4 DEF Resample
    <3>2. choice'.type = "Resample" /\ choice'.of = s
      BY <3>1
    <3>3. ResampleRight(s, answer')
      BY <2>4, ResampleAnswer
    <3> QED
      BY <3>2, <3>3 DEF AnswersRight
  <2>5. ASSUME NEW s \in PSROINodes, PSROIPooling(s) PROVE AnswersRight'
    <3>1. choice' = [type |-> "PSROIPooling", of |-> s]
      BY <2>5 DEF PSROIPooling
    <3>2. choice'.type = "PSROIPooling" /\ choice'.of = s
      BY <3>1
    <3>3. PSROIRight(s, answer')
      BY <2>5, PSROIAnswer
    <3> QED
      BY <3>2, <3>3 DEF AnswersRight
  <2> QED
    BY <2>1, <2>2, <2>3, <2>4, <2>5
<1>3. Next => UNCHANGED answerVars \/ ExecuteAnswer
  <2>1. layersIdle => UNCHANGED answerVars
    BY DEF layersIdle
  <2>2. ExecuteDetection \/ ExecuteProposal \/ ExecuteGrid => UNCHANGED answerVars
    BY DEF ExecuteDetection, ExecuteProposal, ExecuteGrid
  <2>3. Next => layersIdle \/ Execute
    BY DEF Next, GetFactoryFor, Construct, GetSupportedConfigurations, InitLayer
  <2> QED
    BY <2>1, <2>2, <2>3 DEF Execute
<1>4. UNCHANGED vars => UNCHANGED answerVars
  BY DEF vars
<1> QED
  BY <1>1, <1>2, <1>3, <1>4

(* ArgMax, CTCGreedyDecoder, Resample and PSROIPooling: whatever the shape *)
(* and the values of its node, a layer answers what was asked, also for    *)
(* equal values, repeated characters and regions that leave the picture.   *)
(* A Resample whose two factors differ does not: the theorem says how far  *)
(* beside it reads.  Of ArgMax, top_k_ is within the dimension.            *)
THEOREM AnswersAreRight == Spec => []AnswersRight
<1>1. Init => AnswersRight
  BY DEF Init, AnswerInit, AnswersRight
<1>2. AnswersRight /\ [Next]_vars => AnswersRight'
  BY AnswersNext
<1> QED
  BY <1>1, <1>2, PTL DEF Spec
=============================================================================

--------------------------- MODULE DetectorProofs ---------------------------
(***************************************************************************)
(* Proofs about Detector, for every batch size and every set of images.    *)
(*                                                                         *)
(* QueueMatchesBlobs is not inductive: popping a batch after a swap keeps  *)
(* it only if the request swapped in was really started, and writing a     *)
(* slot keeps it only if the slot belongs to the request being filled and  *)
(* not to the one in flight.  Rotation adds what is missing.               *)
(***************************************************************************)
EXTENDS Detector, TLAPS

(* The two requests take turns.                                            *)
Rotation ==
  /\ pc = "wait" => nbatch_index_ = 0 /\ status[Target] # "created"
  /\ pc = "idle" => status[Target] # "busy"
  /\ nbatch_index_ > 0 => wrapped = Target
  /\ InFlight /\ status[curr] = "done" => output[curr] = blob[curr]
  /\ pc = "wait" /\ status[Target] = "done" => output[Target] = blob[Target]
  /\ ~bLoad => NeverStarted /\ ~bisASync /\ pc = "idle" /\ nbatch_index_ = 0

Inv == TypeOK /\ QueueMatchesBlobs /\ PairedResults /\ NeverThrows /\ Rotation

-----------------------------------------------------------------------------
(* What Append does to length and elements.                                *)
LEMMA AppendFacts ==
  ASSUME NEW S, NEW s \in Seq(S), NEW x \in S
  PROVE  /\ Append(s, x) \in Seq(S)
         /\ Len(Append(s, x)) = Len(s) + 1
         /\ \A i \in 1..Len(s) : Append(s, x)[i] = s[i]
         /\ Append(s, x)[Len(s) + 1] = x
  OBVIOUS

(* What dropping the first m elements does to length and elements.         *)
LEMMA DropFacts ==
  ASSUME NEW S, NEW s \in Seq(S), NEW m \in Nat, m <= Len(s)
  PROVE  /\ SubSeq(s, m + 1, Len(s)) \in Seq(S)
         /\ Len(SubSeq(s, m + 1, Len(s))) = Len(s) - m
         /\ \A i \in 1..(Len(s) - m) : SubSeq(s, m + 1, Len(s))[i] = s[m + i]
  OBVIOUS

(* The invariant holds initially.                                          *)
LEMMA InitInv == Init => Inv
<1> SUFFICES ASSUME Init PROVE Inv
  OBVIOUS
<1> USE DetectorAssumption DEF Init, Requests, Slots
<1>1. TypeOK
  <2>1. /\ blob \in [Requests -> [Slots -> Images \cup {NoImage}]]
        /\ output \in [Requests -> [Slots -> Images \cup {NoImage}]]
    BY Zenon
  <2>2. status \in [Requests -> {"created", "busy", "done"}]
    BY Zenon
  <2>3. imginfoque_ \in Seq(Images) /\ nbatch_index_ \in 0..(num_batch_ - 1)
    OBVIOUS
  <2> QED
    BY <2>1, <2>2, <2>3 DEF TypeOK
<1>2. QueueMatchesBlobs
  BY DEF QueueMatchesBlobs, Behind, Fresh, InFlight
<1>3. PairedResults /\ NeverThrows
  BY DEF PairedResults, NeverThrows
<1>4. Rotation
  BY DEF Rotation, InFlight, Target, NeverStarted, next
<1> QED
  BY <1>1, <1>2, <1>3, <1>4 DEF Inv

-----------------------------------------------------------------------------
(* One lemma per action: it preserves the invariant.                       *)

(* Steps that leave requests and queue alone.                              *)
LEMMA LoadInv == Inv /\ Load => Inv'
<1> SUFFICES ASSUME Inv, Load PROVE Inv'
  OBVIOUS
<1> USE DetectorAssumption DEF Inv, Load, requestVars
<1>1. TypeOK'
  BY DEF TypeOK, Requests, Slots
<1>2. QueueMatchesBlobs'
  BY DEF QueueMatchesBlobs, Behind, Fresh, InFlight, Rotation, NeverStarted,
         Target, next, TypeOK, Requests
<1>3. PairedResults' /\ NeverThrows'
  BY DEF PairedResults, NeverThrows
<1>4. Rotation'
  BY DEF Rotation, InFlight, Target, next, NeverStarted, TypeOK, Requests
<1> QED
  BY <1>1, <1>2, <1>3, <1>4

LEMMA InsertNothingInv == Inv /\ InsertNothing => Inv'
<1> SUFFICES ASSUME Inv, InsertNothing PROVE Inv'
  OBVIOUS
<1> USE DEF Inv, InsertNothing, requestVars
<1>1. TypeOK'
  BY DEF TypeOK, Requests, Slots
<1>2. QueueMatchesBlobs' /\ PairedResults' /\ NeverThrows'
  BY DEF QueueMatchesBlobs, Behind, Fresh, InFlight, Target, next,
         PairedResults, NeverThrows
<1>3. Rotation'
  BY DEF Rotation, InFlight, Target, next, NeverStarted
<1> QED
  BY <1>1, <1>2, <1>3

(* A change of mode empties the queue while no request runs.               *)
LEMMA ChooseModeInv == Inv /\ ChooseMode => Inv'
<1> SUFFICES ASSUME Inv, NEW m \in BOOLEAN, SetMode(m), bLoad,
                    m = TRUE => NeverStarted
             PROVE  Inv'
  BY DEF ChooseMode
<1> USE DetectorAssumption DEF Inv, SetMode, requestVars
<1>1. TypeOK'
  BY DEF TypeOK, Requests, Slots
<1>2. QueueMatchesBlobs'
  BY DEF QueueMatchesBlobs, Behind, Fresh, InFlight, NeverStarted,
         Target, next, TypeOK, Requests
<1>3. PairedResults' /\ NeverThrows'
  BY DEF PairedResults, NeverThrows
<1>4. Rotation'
  BY DEF Rotation, InFlight, Target, next, NeverStarted, TypeOK, Requests
<1> QED
  BY <1>1, <1>2, <1>3, <1>4

(* The device copies what the input blob holds.                            *)
LEMMA InferDoneInv ==
  ASSUME Inv, NEW r \in Requests, InferDone(r)
  PROVE  Inv'
<1> USE DEF Inv, InferDone
<1>1. TypeOK'
  BY DEF TypeOK, Requests, Slots
<1>2. QueueMatchesBlobs'
  BY DEF QueueMatchesBlobs, Behind, Fresh, InFlight, Target, next, TypeOK,
         Requests
<1>3. PairedResults' /\ NeverThrows'
  BY DEF PairedResults, NeverThrows
<1>4. Rotation'
  BY DEF Rotation, InFlight, Target, next, NeverStarted, TypeOK, Requests
<1> QED
  BY <1>1, <1>2, <1>3, <1>4

(* The swap after a first batch turns it into the batch in flight.         *)
LEMMA NoResultInv == Inv /\ NoResult => Inv'
<1> SUFFICES ASSUME Inv, NoResult PROVE Inv'
  OBVIOUS
<1> USE DetectorAssumption DEF Inv, NoResult, Swap
<1>0. bisASync /\ curr' = next /\ nbatch_index_ = 0
  BY DEF Rotation, Target
<1>1. TypeOK'
  BY <1>0 DEF TypeOK, Requests, Slots, next
<1>2. QueueMatchesBlobs'
  BY <1>0 DEF QueueMatchesBlobs, Behind, Fresh, InFlight, Target, next, TypeOK,
         Requests, Rotation
<1>3. PairedResults' /\ NeverThrows'
  BY DEF PairedResults, NeverThrows
<1>4. Rotation'
  BY <1>0 DEF Rotation, InFlight, Target, next, NeverStarted, TypeOK, Requests
<1> QED
  BY <1>1, <1>2, <1>3, <1>4

(* Reading results: the first batch of the queue is the batch of curr, so  *)
(* its output describes exactly the images that are popped.                *)
LEMMA CollectPairs ==
  ASSUME Inv, pc = "wait", status[curr] = "done"
  PROVE  /\ Len(imginfoque_) >= num_batch_
         /\ Len(imginfoque_) = (IF bisASync THEN 2 * num_batch_ ELSE num_batch_)
         /\ \A k \in Slots : imginfoque_[k] \in Images
         /\ \A k \in Slots : output[curr][k] = imginfoque_[k]
<1> USE DetectorAssumption DEF Inv
<1>1. /\ Len(imginfoque_) >= num_batch_
      /\ Len(imginfoque_) = (IF bisASync THEN 2 * num_batch_ ELSE num_batch_)
  BY DEF QueueMatchesBlobs, Behind, Fresh, InFlight
<1>2. output[curr] = blob[curr]
  BY DEF Rotation, InFlight, Target
<1>3. \A k \in Slots : imginfoque_[k] = blob[curr][k]
  BY DEF QueueMatchesBlobs, Behind, Fresh, InFlight, Target, Slots
<1>4. \A k \in Slots : imginfoque_[k] \in Images
  BY <1>1 DEF TypeOK, Slots
<1> QED
  BY <1>1, <1>2, <1>3, <1>4

LEMMA CollectInv == Inv /\ Collect => Inv'
<1> SUFFICES ASSUME Inv, Collect PROVE Inv'
  OBVIOUS
<1> USE DetectorAssumption
<1>0. pc = "wait" /\ status[curr] = "done"
  BY DEF Collect
<1>1. /\ Len(imginfoque_) >= num_batch_
      /\ Len(imginfoque_) = (IF bisASync THEN 2 * num_batch_ ELSE num_batch_)
      /\ \A k \in Slots : output[curr][k] = imginfoque_[k]
  BY <1>0, CollectPairs
<1>2. PICK hits \in SUBSET Slots :
        /\ objects' = Results(hits)
        /\ retvalue' = IF hits = {} THEN "PROCESSED" ELSE "GET"
        /\ imginfoque_' = SubSeq(imginfoque_, num_batch_ + 1, Len(imginfoque_))
        /\ Swap
        /\ pc' = "idle"
        /\ UNCHANGED <<bLoad, bisASync, nbatch_index_, wrapped, blob, status, output>>
  <2>1. ~(Len(imginfoque_) < num_batch_)
    BY <1>1 DEF Inv, TypeOK
  <2> QED
    BY <2>1, Zenon DEF Collect, Popped
<1>3. /\ imginfoque_' \in Seq(Images)
      /\ Len(imginfoque_') = Len(imginfoque_) - num_batch_
      /\ \A i \in 1..(Len(imginfoque_) - num_batch_) :
           imginfoque_'[i] = imginfoque_[num_batch_ + i]
  BY <1>1, <1>2, DropFacts DEF Inv, TypeOK
<1>4. TypeOK'
  BY <1>2, <1>3 DEF Inv, TypeOK, Requests, Slots, Swap, next
<1>5. QueueMatchesBlobs'
  <2>1. CASE bisASync
    BY <1>0, <1>1, <1>2, <1>3, <2>1
       DEF Inv, QueueMatchesBlobs, Behind, Fresh, InFlight, Target, next, TypeOK,
           Requests, Rotation, Swap
  <2>2. CASE ~bisASync
    BY <1>0, <1>1, <1>2, <1>3, <2>2
       DEF Inv, QueueMatchesBlobs, Behind, Fresh, InFlight, TypeOK, Rotation
  <2> QED
    BY <2>1, <2>2
<1>6. PairedResults'
  BY <1>1, <1>2 DEF PairedResults, Results
<1>7. NeverThrows'
  BY <1>2 DEF NeverThrows
<1>8. Rotation'
  BY <1>0, <1>2
     DEF Inv, Rotation, InFlight, Target, next, NeverStarted, TypeOK, Requests,
         Swap
<1> QED
  BY <1>4, <1>5, <1>6, <1>7, <1>8 DEF Inv

(* Writing a slot: the request being filled is not the one in flight.      *)
LEMMA InsertImageInv ==
  ASSUME Inv, NEW img \in Images, InsertImage(img)
  PROVE  Inv'
<1> USE DetectorAssumption
<1>0. /\ pc = "idle" /\ bLoad /\ Wrap = Target
      /\ nbatch_index_ \in 0..(num_batch_ - 1)
      /\ Target \in Requests
      /\ InFlight => Target # curr
      /\ status[Target] # "busy"
  BY DEF Inv, InsertImage, Wrap, Rotation, TypeOK, Target, next, Requests,
         InFlight
<1>1. /\ wrapped' = Target
      /\ blob' = [blob EXCEPT ![Target][nbatch_index_ + 1] = img]
      /\ imginfoque_' = Append(imginfoque_, img)
      /\ UNCHANGED <<bLoad, bisASync, curr, output, objects>>
      /\ Target' = Target
  BY <1>0 DEF InsertImage, Target, next
<1>2. /\ imginfoque_' \in Seq(Images)
      /\ Len(imginfoque_') = Len(imginfoque_) + 1
      /\ \A i \in 1..Len(imginfoque_) : imginfoque_'[i] = imginfoque_[i]
      /\ imginfoque_'[Len(imginfoque_) + 1] = img
  BY <1>1, AppendFacts DEF Inv, TypeOK
<1>3. /\ blob' \in [Requests -> [Slots -> Images \cup {NoImage}]]
      /\ blob'[Target][nbatch_index_ + 1] = img
      /\ \A i \in 1..nbatch_index_ : blob'[Target][i] = blob[Target][i]
      /\ InFlight => blob'[curr] = blob[curr]
  BY <1>0, <1>1 DEF Inv, TypeOK, Slots
<1>4. Len(imginfoque_) = Behind + nbatch_index_
  BY <1>0 DEF Inv, QueueMatchesBlobs, Fresh
<1>5. CASE nbatch_index_ + 1 >= num_batch_
  <2>1. /\ nbatch_index_' = 0 /\ pc' = "wait" /\ UNCHANGED retvalue
        /\ status' = [status EXCEPT ![Target] = "busy"]
        /\ nbatch_index_ + 1 = num_batch_
    BY <1>0, <1>5 DEF InsertImage, BlobFull
  <2>2. TypeOK'
    BY <1>0, <1>1, <1>2, <1>3, <2>1 DEF Inv, TypeOK
  <2>3. InFlight' = InFlight /\ Behind' = Behind /\ Fresh' = nbatch_index_ + 1
    BY <1>0, <1>1, <2>1
       DEF Inv, TypeOK, InFlight, Behind, Fresh, Target, next, Requests
  <2>4. QueueMatchesBlobs'
    BY <1>0, <1>1, <1>2, <1>3, <1>4, <2>1, <2>3
       DEF Inv, QueueMatchesBlobs, Behind, Fresh
  <2>5. PairedResults' /\ NeverThrows'
    BY <1>1, <2>1 DEF Inv, PairedResults, NeverThrows
  <2>6. Rotation'
    BY <1>0, <1>1, <1>3, <2>1, <2>3
       DEF Inv, Rotation, InFlight, NeverStarted, TypeOK, Requests
  <2> QED
    BY <2>2, <2>4, <2>5, <2>6 DEF Inv
<1>6. CASE ~(nbatch_index_ + 1 >= num_batch_)
  <2>1. /\ nbatch_index_' = nbatch_index_ + 1 /\ retvalue' = "INSERTED"
        /\ UNCHANGED <<status, pc>>
    BY <1>6 DEF InsertImage, BlobFull
  <2>2. TypeOK'
    BY <1>0, <1>1, <1>2, <1>3, <1>6, <2>1 DEF Inv, TypeOK
  <2>3. InFlight' = InFlight /\ Behind' = Behind /\ Fresh' = nbatch_index_ + 1
    BY <1>0, <1>1, <2>1 DEF InFlight, Behind, Fresh
  <2>4. QueueMatchesBlobs'
    BY <1>0, <1>1, <1>2, <1>3, <1>4, <2>1, <2>3, SMTT(40)
       DEF Inv, QueueMatchesBlobs, Behind, Fresh
  <2>5. PairedResults' /\ NeverThrows'
    BY <1>1, <2>1 DEF Inv, PairedResults, NeverThrows
  <2>6. Rotation'
    BY <1>0, <1>1, <1>3, <2>1, <2>3
       DEF Inv, Rotation, InFlight, NeverStarted, TypeOK, Requests
  <2> QED
    BY <2>2, <2>4, <2>5, <2>6 DEF Inv
<1> QED
  BY <1>5, <1>6

-----------------------------------------------------------------------------
(* The invariant is inductive.                                             *)
LEMMA InvStep == Inv /\ [Next]_vars => Inv'
<1> SUFFICES ASSUME Inv, [Next]_vars PROVE Inv'
  OBVIOUS
<1>1. CASE Load
  BY <1>1, LoadInv
<1>2. CASE ChooseMode
  BY <1>2, ChooseModeInv
<1>3. CASE InsertNothing
  BY <1>3, InsertNothingInv
<1>4. CASE \E img \in Images : InsertImage(img)
  BY <1>4, InsertImageInv
<1>5. CASE \E r \in Requests : InferDone(r)
  BY <1>5, InferDoneInv
<1>6. CASE Collect
  BY <1>6, CollectInv
<1>7. CASE NoResult
  BY <1>7, NoResultInv
<1>8. CASE UNCHANGED vars
  BY <1>8 DEF vars, Inv, TypeOK, QueueMatchesBlobs, Behind, Fresh, InFlight,
              Target, next, PairedResults, NeverThrows, Rotation, NeverStarted
<1> QED
  BY <1>1, <1>2, <1>3, <1>4, <1>5, <1>6, <1>7, <1>8 DEF Next

(* The invariant holds in every behaviour.                                 *)
LEMMA InvHolds == Spec => []Inv
<1> QED
  BY InitInv, InvStep, PTL DEF Spec

(* Every variable of the detector keeps its type.                          *)
THEOREM TypeCorrect == Spec => []TypeOK
<1>1. Inv => TypeOK
  BY DEF Inv
<1> QED
  BY <1>1, InvHolds, PTL

(* imginfoque_ always mirrors the input blobs of the two requests.         *)
THEOREM QueueMatches == Spec => []QueueMatchesBlobs
<1>1. Inv => QueueMatchesBlobs
  BY DEF Inv
<1> QED
  BY <1>1, InvHolds, PTL

(* InsertImage never reports a box with an image it was not found in.      *)
THEOREM ResultsPaired == Spec => []PairedResults
<1>1. Inv => PairedResults
  BY DEF Inv
<1> QED
  BY <1>1, InvHolds, PTL

(* The logic_error of InsertImage is never thrown.                         *)
THEOREM NeverThrowsHolds == Spec => []NeverThrows
<1>1. Inv => NeverThrows
  BY DEF Inv
<1> QED
  BY <1>1, InvHolds, PTL

-----------------------------------------------------------------------------
(* InsertImage writes the request being filled, which does not run.        *)
LEMMA BlobStep ==
  Inv /\ [Next]_vars
    => [\A r \in Requests : status[r] = "busy" => blob'[r] = blob[r]]_vars
<1> SUFFICES ASSUME Inv, Next, NEW r \in Requests, status[r] = "busy"
             PROVE  blob'[r] = blob[r]
  OBVIOUS
<1>1. CASE \E img \in Images : InsertImage(img)
  <2> PICK img \in Images : InsertImage(img)
    BY <1>1
  <2>1. Wrap = Target /\ Target # r
    BY DetectorAssumption DEF InsertImage, Wrap, Inv, Rotation, TypeOK
  <2> QED
    BY <2>1 DEF InsertImage, Inv, TypeOK
<1>2. CASE ~\E img \in Images : InsertImage(img)
  BY <1>2 DEF Next, Load, ChooseMode, SetMode, InsertNothing, InferDone, Collect,
              NoResult, requestVars
<1> QED
  BY <1>1, <1>2

(* The picture of a running request is never overwritten.                  *)
THEOREM BlobUntouchedHolds == Spec => BlobUntouched
<1> QED
  BY InvHolds, BlobStep, PTL DEF Spec, BlobUntouched

-----------------------------------------------------------------------------
(* Every step of the detector is a step of its service or a stutter.       *)
LEMMA ServiceStep == Inv /\ [Next]_vars => [Service!ServiceNext]_(Service!serviceVars)
<1> SUFFICES ASSUME Inv, [Next]_vars
             PROVE  [Service!ServiceNext]_(Service!serviceVars)
  OBVIOUS
<1> USE DetectorAssumption
<1>1. CASE \E img \in Images : InsertImage(img)
  <2> PICK img \in Images : InsertImage(img)
    BY <1>1
  <2>1. Len(imginfoque_) < 2 * num_batch_
    BY DEF Inv, QueueMatchesBlobs, Behind, Fresh, InsertImage, TypeOK
  <2>2. Service!Accept(img)
    BY <2>1 DEF InsertImage, Service!Accept
  <2> QED
    BY <2>2 DEF Service!ServiceNext
<1>2. CASE Collect
  <2>1. /\ Len(imginfoque_) >= num_batch_
        /\ \A k \in Slots : output[curr][k] = imginfoque_[k]
    BY <1>2, CollectPairs DEF Collect
  <2>2. PICK hits \in SUBSET Slots :
          /\ objects' = Results(hits)
          /\ imginfoque_' = SubSeq(imginfoque_, num_batch_ + 1, Len(imginfoque_))
    BY <1>2, <2>1 DEF Collect, Popped, Inv, TypeOK
  <2>3. Results(hits) = Service!Report(imginfoque_, hits)
    BY <2>1 DEF Results, Service!Report, Slots
  <2>4. Service!Deliver
    BY <2>1, <2>2, <2>3 DEF Service!Deliver, Slots
  <2> QED
    BY <2>4 DEF Service!ServiceNext
<1>3. CASE ChooseMode
  BY <1>3 DEF ChooseMode, SetMode, Service!ServiceNext, Service!Forget
<1>4. CASE Load \/ InsertNothing \/ NoResult \/ (\E r \in Requests : InferDone(r))
  BY <1>4 DEF Load, InsertNothing, NoResult, InferDone, Service!serviceVars
<1>5. CASE UNCHANGED vars
  BY <1>5 DEF vars, Service!serviceVars
<1> QED
  BY <1>1, <1>2, <1>3, <1>4, <1>5 DEF Next

(* The detector implements its service for every batch size.               *)
THEOREM ImplementsService == Spec => ServiceSpec
<1>1. Init => Service!ServiceInit
  BY DEF Init, Service!ServiceInit
<1> QED
  BY <1>1, InvHolds, ServiceStep, PTL DEF Spec, ServiceSpec, Service!Spec
=============================================================================

-------------------------- MODULE DetectionOutput --------------------------
(***************************************************************************)
(* The last layer of an SSD network (ext_detectionoutput.cpp), run by      *)
(* Inference Engine once per batch, and the loop of Detector::InsertImage  *)
(* that reads its output blob.                                             *)
(*                                                                         *)
(* The layer's buffers and its output blob are allocated once and keep     *)
(* what earlier batches left in them.  For one image after the other,      *)
(* OpenMP threads suppress the boxes of all classes in parallel in slices  *)
(* of the shared buffers; the best of all classes are kept and written as  *)
(* rows, ended by a marker.                                                *)
(*                                                                         *)
(* A prior stands for its box; decoding boxes from the network's offsets   *)
(* is arithmetic and left out.                                             *)
(***************************************************************************)
EXTENDS Suppression, FiniteSetsExt

CONSTANTS
  num_batch_,             \* N: images per batch
  num_classes_,           \* labels 0 .. num_classes_ - 1
  background_label_id_,   \* the label that is ignored
  num_priors_,            \* priors 1 .. num_priors_
  top_k_,                 \* candidates per class, -1 for all
  keep_top_k_,            \* detections per image
  confidence_threshold_,  \* a candidate is better than this
  maxProposalCount,       \* rows of the output blob
  Decoded,                \* box of each prior, for each class
  Batches                 \* inputs: confidences, and priors before the marker

Imgs    == 0..(num_batch_ - 1)
Labels  == 0..(num_classes_ - 1)
Priors  == 1..num_priors_

ASSUME DetectionAssumption ==
  /\ num_batch_ \in Nat \ {0} /\ num_classes_ \in Nat \ {0}
  /\ num_priors_ \in Nat \ {0}
  /\ top_k_ \in Nat \cup {-1}
  \* The default is -FLT_MAX: detections without any confidence are kept too.
  /\ confidence_threshold_ \in Int
  \* Otherwise execute returns OUT_OF_BOUNDS and writes nothing.
  /\ keep_top_k_ \in Nat /\ num_batch_ * keep_top_k_ <= maxProposalCount
  /\ maxProposalCount \in Nat
  \* The blobs of an input have the shapes the constructor checked.
  /\ \A b \in Batches : /\ b.actual \in 0..num_priors_
                        /\ b.conf \in [Imgs -> [Labels -> [Priors -> Int]]]

Rows    == 1..maxProposalCount
Ignored == background_label_id_

VARIABLES
  execute,     \* "idle", "nms", "write", "read" or "done"
  batch,       \* the batch the layer works on, an element of Batches
  n,           \* the image it works on
  worker,      \* of each label: "collect", "suppress" or "done"
  buffer,      \* slices for sorting, one per label, used for every image
  indices,     \* slices for the kept priors, one per image and label
  detections,  \* how many are kept, per image and label
  dst,         \* the output blob, row by row
  boxs         \* objects[i].boxs; the last one lies beyond the vector

detectionVars ==
  <<execute, batch, n, worker, buffer, indices, detections, dst, boxs>>

\* A write of the first cells of an array; the others keep their contents.
Overwrite(array, s) ==
  [i \in DOMAIN array |-> IF i <= Len(s) THEN s[i] ELSE array[i]]

Zero   == [imgid |-> 0,  classid |-> 0, confidence |-> 0, box |-> 0]
Marker == [imgid |-> -1, classid |-> 0, confidence |-> 0, box |-> 0]

-----------------------------------------------------------------------------
DetectionInit ==
  /\ execute = "idle"
  /\ batch = CHOOSE b \in Batches : TRUE   \* none yet
  /\ n = 0
  /\ worker = [c \in Labels |-> "done"]
  /\ buffer = [c \in Labels |-> [i \in Priors |-> 1]]
  /\ indices = [i \in Imgs |-> [c \in Labels |-> [p \in Priors |-> 1]]]
  /\ detections = [i \in Imgs |-> [c \in Labels |-> 0]]
  /\ dst = [k \in Rows |-> Zero]
  /\ boxs = [i \in 0..num_batch_ |-> <<>>]

(* A new batch: boxes are decoded up to the marker among the priors, and   *)
(* the counts are cleared.                                                 *)
StartBatch ==
  /\ execute \in {"idle", "done"}
  /\ batch' \in Batches
  /\ execute' = "nms"
  /\ n' = 0
  /\ worker' = [c \in Labels |-> IF c = Ignored THEN "done" ELSE "collect"]
  /\ detections' = [i \in Imgs |-> [c \in Labels |-> 0]]
  /\ UNCHANGED <<buffer, indices, dst, boxs>>

\* The candidates of class c, and which of two priors is the better one.
Found(i, c) == {p \in 1..batch.actual : batch.conf[i][c][p] > confidence_threshold_}
InOrder(i, c) ==
  {r \in Priors \X Priors :
     \/ batch.conf[i][c][r[1]] > batch.conf[i][c][r[2]]
     \/ batch.conf[i][c][r[1]] = batch.conf[i][c][r[2]] /\ r[1] < r[2]}

\* Candidates in the order of the priors, and the best of them, best first.
AsFound(c) == Ranked(Found(n, c), Ascending)
NumScores(c) == IF top_k_ = -1 THEN Cardinality(Found(n, c))
                ELSE Smaller(top_k_, Cardinality(Found(n, c)))
BestFirst(c) == SubSeq(Ranked(Found(n, c), InOrder(n, c)), 1, NumScores(c))

\* Faulty: one slice for the threads of all classes.
SliceShared(c) == 0

\* pbuffer = buffer_data + c*_num_priors
Slice(c) == c

(* nms, up to the copy of the best candidates.                             *)
CollectBoxes(c) ==
  /\ execute = "nms" /\ worker[c] = "collect"
  /\ indices' = [indices EXCEPT ![n][c] = Overwrite(@, AsFound(c))]
  /\ buffer' = [buffer EXCEPT ![Slice(c)] = Overwrite(@, BestFirst(c))]
  /\ worker' = [worker EXCEPT ![c] = "suppress"]
  /\ UNCHANGED <<execute, batch, n, detections, dst, boxs>>

Overlap(c) == {r \in Priors \X Priors : JaccardOverlaps(Decoded[c][r[1]], Decoded[c][r[2]])}

(* nms, the loop over the sorted candidates; the kept ones replace the     *)
(* candidates in place.                                                    *)
SuppressBoxes(c) ==
  LET kept == KeepLoop(SubSeq(buffer[Slice(c)], 1, NumScores(c)), num_priors_, Overlap(c))
  IN  /\ execute = "nms" /\ worker[c] = "suppress"
      /\ indices' = [indices EXCEPT ![n][c] = Overwrite(@, kept)]
      /\ detections' = [detections EXCEPT ![n][c] = Len(kept)]
      /\ worker' = [worker EXCEPT ![c] = "done"]
      /\ UNCHANGED <<execute, batch, n, buffer, dst, boxs>>

Kept(i, c) == SubSeq(indices[i][c], 1, detections[i][c])
KeptPairs(i) == UNION {{<<c, p>> : p \in ToSet(Kept(i, c))} : c \in Labels}
Conf(i, d) == batch.conf[i][d[1]][d[2]]

(* std::sort by confidence alone and resize: equal confidences may come in *)
(* any order.                                                              *)
TopOrders(S, size) ==
  {s \in [1..size -> S] :
     /\ IsInjective(s)
     /\ \A j, k \in DOMAIN s : j < k => Conf(n, s[j]) >= Conf(n, s[k])
     /\ \A d \in S \ ToSet(s) : \A k \in DOMAIN s : Conf(n, s[k]) >= Conf(n, d)}

OfLabel(s, c) ==
  LET mine == Pick(s, {k \in DOMAIN s : s[k][1] = c})
  IN  [k \in DOMAIN mine |-> mine[k][2]]

NextImage ==
  IF n + 1 < num_batch_
    THEN /\ n' = n + 1
         /\ worker' = [c \in Labels |-> IF c = Ignored THEN "done" ELSE "collect"]
         /\ execute' = execute
    ELSE n' = n /\ worker' = worker /\ execute' = "write"

(* All threads have joined: of all classes together at most keep_top_k_    *)
(* detections are kept, and the indices are rewritten.                     *)
KeepTopK ==
  /\ execute = "nms" /\ \A c \in Labels : worker[c] = "done"
  /\ IF Cardinality(KeptPairs(n)) > keep_top_k_
       THEN \E top \in TopOrders(KeptPairs(n), keep_top_k_) :
              /\ indices' = [indices EXCEPT ![n] =
                   [c \in Labels |-> Overwrite(@[c], OfLabel(top, c))]]
              /\ detections' = [detections EXCEPT ![n] =
                   [c \in Labels |-> Len(OfLabel(top, c))]]
       ELSE UNCHANGED <<indices, detections>>
  /\ NextImage
  /\ UNCHANGED <<batch, buffer, dst, boxs>>

(* The kept detections by image, class and place, in the order of the      *)
(* loops that write them.                                                  *)
KeptPlaces == {q \in Imgs \X Labels \X Priors : q[3] <= detections[q[1]][q[2]]}
Earlier ==
  {r \in KeptPlaces \X KeptPlaces :
     \/ r[1][1] < r[2][1]
     \/ r[1][1] = r[2][1] /\ r[1][2] < r[2][2]
     \/ r[1][1] = r[2][1] /\ r[1][2] = r[2][2] /\ r[1][3] < r[2][3]}

Row(q) ==
  LET p == indices[q[1]][q[2]][q[3]]
  IN  [imgid |-> q[1], classid |-> q[2], confidence |-> Conf(q[1], <<q[2], p>>), box |-> p]

Written == [k \in 1..Cardinality(KeptPlaces) |-> Row(Ranked(KeptPlaces, Earlier)[k])]

\* Faulty: only the rows are written.
WriteRowsOnly ==
  /\ execute = "write"
  /\ dst' = Overwrite(dst, Written)
  /\ execute' = "read"
  /\ UNCHANGED <<batch, n, worker, buffer, indices, detections, boxs>>

(* The part of the blob that belongs to the layer is cleared; the rows are *)
(* followed by a marker if there is room for it.                           *)
WriteRows ==
  /\ execute = "write"
  /\ dst' = [k \in Rows |->
               CASE k <= Len(Written) -> Written[k]
                 [] k = Len(Written) + 1 /\ k <= num_batch_ * keep_top_k_ -> Marker
                 [] k > Len(Written) + 1 /\ k <= num_batch_ * keep_top_k_ -> Zero
                 [] OTHER -> dst[k]]
  /\ execute' = "read"
  /\ UNCHANGED <<batch, n, worker, buffer, indices, detections, boxs>>

\* Detector::InsertImage stops reading at the first row that looks wrong.
LastRow(row) == row.imgid < 0 \/ row.confidence = 0 \/ row.imgid > num_batch_
Proposals ==
  LET stops == {k \in Rows : LastRow(dst[k])}
  IN  IF stops = {} THEN maxProposalCount ELSE Min(stops) - 1

ReadRows ==
  /\ execute = "read"
  /\ boxs' = [i \in 0..num_batch_ |->
                Pick(dst, {k \in 1..Proposals : dst[k].imgid = i})]
  /\ execute' = "done"
  /\ UNCHANGED <<batch, n, worker, buffer, indices, detections, dst>>

DetectionNext ==
  \/ StartBatch
  \/ \E c \in Labels : CollectBoxes(c) \/ SuppressBoxes(c)
  \/ KeepTopK
  \/ WriteRows
  \/ ReadRows

-----------------------------------------------------------------------------
(* What the detections of image i should be, from the definition of        *)
(* suppression and not from its loops.                                     *)
Wanted(i, c) ==
  LET rank(p) == Cardinality({q \in Found(i, c) : <<q, p>> \in InOrder(i, c)})
      best    == {p \in Found(i, c) : top_k_ = -1 \/ rank(p) < top_k_}
  IN  IF c = Ignored THEN {} ELSE GreedySet(best, InOrder(i, c), Overlap(c))

(* Whatever the order of the OpenMP threads and whatever earlier images    *)
(* left in the buffers, a thread that is done has kept the greedy set of   *)
(* its class, best first.                                                  *)
KeptGreedily ==
  execute = "nms" =>
    \A c \in Labels : worker[c] = "done" =>
      /\ ToSet(Kept(n, c)) = Wanted(n, c)
      /\ \A j, k \in 1..detections[n][c] :
           j < k => <<indices[n][c][j], indices[n][c][k]>> \in InOrder(n, c)

\* What suppression keeps of image i, and what InsertImage gives of it.
WantedPairs(i) == UNION {{<<c, p>> : p \in Wanted(i, c)} : c \in Labels}
Given(i) == {<<row.classid, row.box>> : row \in ToSet(boxs[i])}

\* InsertImage takes a row of confidence 0 for the end of the list.
Cut(i) == \E j \in 0..i : \E d \in WantedPairs(j) : Conf(j, d) = 0

(* The caller of InsertImage gets, for every image of the batch and no     *)
(* other, nothing but detections that suppression keeps, each once: none   *)
(* of an earlier batch, none of another image.  It gets the keep_top_k_    *)
(* best of them unless one of confidence 0, of this image or of an earlier *)
(* one, makes it stop; with a confidence_threshold of 0 or more, as in the *)
(* SSD networks, there is none.                                            *)
BestReported ==
  execute = "done" =>
    /\ boxs[num_batch_] = <<>>
    /\ \A i \in Imgs :
         /\ Given(i) \subseteq WantedPairs(i)
         /\ \A d \in Given(i) : Conf(i, d) # 0
         /\ Cardinality(Given(i)) = Len(boxs[i])
         /\ Len(boxs[i]) <= keep_top_k_
         /\ confidence_threshold_ >= 0 \/ ~Cut(i) =>
              /\ Len(boxs[i]) = Smaller(keep_top_k_, Cardinality(WantedPairs(i)))
              /\ \A d \in Given(i), e \in WantedPairs(i) \ Given(i) : Conf(i, d) >= Conf(i, e)
=============================================================================

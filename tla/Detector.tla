------------------------------ MODULE Detector ------------------------------
(***************************************************************************)
(* Detector (detector.cpp): batches images into the input blob of one of   *)
(* two Inference Engine requests and returns the boxes of a whole batch.   *)
(*                                                                         *)
(* In asynchronous mode InsertImage fills and starts infer_request_next_,  *)
(* waits for infer_request_curr_ (started one batch earlier) and swaps the *)
(* two, so the results it returns belong to the batch before the one just  *)
(* filled; what ties them to their images is the queue imginfoque_.  In    *)
(* synchronous mode it fills, starts and waits for infer_request_curr_.    *)
(*                                                                         *)
(* A call of InsertImage is one step up to the blocking Wait and one step  *)
(* after it; the device runs in between.  An image stands for the picture  *)
(* with its size, inputid, frameno and channelid.                          *)
(***************************************************************************)
EXTENDS Naturals, SequencesExt

CONSTANTS Images,      \* the images a caller may insert
          NoImage,     \* a blob slot nothing was written to
          num_batch_   \* network_.getBatchSize()

ASSUME DetectorAssumption ==
  /\ num_batch_ \in Nat \ {0}
  /\ NoImage \notin Images

VARIABLES
  bLoad,          \* Load has succeeded
  bisASync,       \* which request InsertImage fills and starts
  nbatch_index_,  \* images in the blob being filled
  imginfoque_,    \* images whose results have not been returned
  curr,           \* the request infer_request_curr_ points to
  wrapped,        \* the request whose input blob input_channels points to
  blob,           \* input blob of each request, one image per slot
  status,         \* of each request: "created", "busy" or "done"
  output,         \* the images the output blob of each request tells about
  pc,             \* "idle", "wait" (InsertImage blocked in Wait) or "threw"
  retvalue,       \* what the last InsertImage returned
  objects         \* the results the caller has

requestVars == <<curr, wrapped, blob, status, output>>
vars == <<bLoad, bisASync, nbatch_index_, imginfoque_, curr, wrapped, blob,
          status, output, pc, retvalue, objects>>

Requests == {1, 2}
Slots    == 1..num_batch_
next     == 3 - curr                           \* infer_request_next_
Target   == IF bisASync THEN next ELSE curr    \* filled and started

-----------------------------------------------------------------------------
Init ==
  /\ bLoad = FALSE
  /\ bisASync = FALSE
  /\ nbatch_index_ = 0
  /\ imginfoque_ = <<>>
  /\ curr = 1
  /\ wrapped = 1
  /\ blob = [r \in Requests |-> [s \in Slots |-> NoImage]]
  /\ status = [r \in Requests |-> "created"]
  /\ output = [r \in Requests |-> [s \in Slots |-> NoImage]]
  /\ pc = "idle"
  /\ retvalue = "NULL"
  /\ objects = <<>>

(* Load, when plugin and network are found; its failures change nothing.   *)
Load ==
  /\ pc = "idle"
  /\ ~bLoad
  /\ bLoad' = TRUE
  /\ bisASync' = TRUE
  /\ nbatch_index_' = 0
  /\ UNCHANGED <<imginfoque_, requestVars, pc, retvalue, objects>>

\* Faulty: the pending images are kept, or only their number.
SetModeOnly(isSync) ==
  /\ pc = "idle"
  /\ \A r \in Requests : status[r] # "busy"
  /\ nbatch_index_' = 0
  /\ bisASync' = isSync
  /\ UNCHANGED <<bLoad, imginfoque_, requestVars, pc, retvalue, objects>>

SetModeKeepIndex(isSync) ==
  /\ pc = "idle"
  /\ \A r \in Requests : status[r] # "busy"
  /\ imginfoque_' = <<>>
  /\ bisASync' = isSync
  /\ UNCHANGED <<bLoad, nbatch_index_, requestVars, pc, retvalue, objects>>

(* SetMode: waits for both requests, drops the pending images and sets     *)
(* bisASync (to its argument, although that is called isSync).             *)
SetMode(isSync) ==
  /\ pc = "idle"
  /\ \A r \in Requests : status[r] # "busy"
  /\ imginfoque_' = <<>>
  /\ nbatch_index_' = 0
  /\ bisASync' = isSync
  /\ UNCHANGED <<bLoad, requestVars, pc, retvalue, objects>>

(* InsertImage of an empty picture, or before Load.                        *)
InsertNothing ==
  /\ pc = "idle"
  /\ retvalue' = "NULL"
  /\ UNCHANGED <<bLoad, bisASync, nbatch_index_, imginfoque_, requestVars,
                 pc, objects>>

\* Faulty: asynchronous mode is forgotten.
WrapCurrent == IF nbatch_index_ = 0 THEN curr ELSE wrapped

(* WrapInputLayer: the first image of a batch selects the blob.            *)
Wrap == IF nbatch_index_ = 0 THEN Target ELSE wrapped

\* ++nbatch_index_ >= num_batch_
BlobFull == nbatch_index_ + 1 >= num_batch_

(* InsertImage up to Wait: queue the picture, write it to its slot and,    *)
(* when the blob is full, start the request.                               *)
InsertImage(img) ==
  /\ pc = "idle"
  /\ bLoad
  /\ wrapped' = Wrap
  /\ imginfoque_' = Append(imginfoque_, img)
  /\ blob' = [blob EXCEPT ![Wrap][nbatch_index_ + 1] = img]
  /\ IF BlobFull
       THEN /\ nbatch_index_' = 0
            /\ status' = [status EXCEPT ![Target] = "busy"]
            /\ pc' = "wait"
            /\ UNCHANGED retvalue
       ELSE /\ nbatch_index_' = nbatch_index_ + 1
            /\ retvalue' = "INSERTED"
            /\ UNCHANGED <<status, pc>>
  /\ UNCHANGED <<bLoad, bisASync, curr, output, objects>>

(* The device finishes a request (Inference Engine, external).  It may     *)
(* read the input blob until that moment.                                  *)
InferDone(r) ==
  /\ status[r] = "busy"
  /\ status' = [status EXCEPT ![r] = "done"]
  /\ output' = [output EXCEPT ![r] = blob[r]]
  /\ UNCHANGED <<bLoad, bisASync, nbatch_index_, imginfoque_, curr, wrapped,
                 blob, pc, retvalue, objects>>

\* Faulty: the newest images instead of the oldest.
ResultsOfNewest(hits) ==
  [k \in Slots |->
     [image |-> imginfoque_[Len(imginfoque_) - num_batch_ + k],
      boxesFrom |-> IF k \in hits THEN {output[curr][k]} ELSE {}]]

(* objects after the results are read: the first num_batch_ queued images, *)
(* with the boxes found in the slots "hits".                               *)
Results(hits) ==
  [k \in Slots |->
     [image |-> imginfoque_[k],
      boxesFrom |-> IF k \in hits THEN {output[curr][k]} ELSE {}]]

\* Faulty: all of them.
PoppedAll == <<>>

\* The queue after num_batch_ pops.
Popped == SubSeq(imginfoque_, num_batch_ + 1, Len(imginfoque_))

(* infer_request_curr_.swap(infer_request_next_), in asynchronous mode.    *)
Swap == curr' = IF bisASync THEN next ELSE curr

(* InsertImage after Wait returned OK: pop one batch of images, read the   *)
(* boxes and swap the requests.  An empty queue is a logic_error.          *)
Collect ==
  /\ pc = "wait"
  /\ status[curr] = "done"
  /\ \/ /\ Len(imginfoque_) >= num_batch_
        /\ \E hits \in SUBSET Slots :
             /\ objects' = Results(hits)
             /\ retvalue' = IF hits = {} THEN "PROCESSED" ELSE "GET"
        /\ imginfoque_' = Popped
        /\ Swap
        /\ pc' = "idle"
     \/ /\ Len(imginfoque_) < num_batch_
        /\ pc' = "threw"
        /\ UNCHANGED <<objects, retvalue, imginfoque_, curr>>
  /\ UNCHANGED <<bLoad, bisASync, nbatch_index_, wrapped, blob, status, output>>

\* Faulty: waits for a request that nobody started.
WaitForEver ==
  /\ pc = "wait"
  /\ status[curr] = "created"
  /\ UNCHANGED vars

(* InsertImage after Wait returned INFER_NOT_STARTED: the first batch in   *)
(* asynchronous mode.                                                      *)
NoResult ==
  /\ pc = "wait"
  /\ status[curr] = "created"
  /\ retvalue' = "INSERTED"
  /\ Swap
  /\ pc' = "idle"
  /\ UNCHANGED <<bLoad, bisASync, nbatch_index_, imginfoque_, wrapped, blob,
                 status, output, objects>>

(* The callers.  main.cpp chooses the mode between Load and the first      *)
(* image.  The model also lets a caller fall back to synchronous mode      *)
(* between two images; asynchronous mode is only chosen at the start,      *)
(* because SetMode leaves the output of an old batch in the request that   *)
(* the next Wait would look at.                                            *)
NeverStarted == \A r \in Requests : status[r] = "created"

ChooseMode ==
  /\ bLoad
  /\ SetMode(FALSE) \/ (NeverStarted /\ SetMode(TRUE))

Next ==
  \/ Load
  \/ ChooseMode
  \/ InsertNothing
  \/ \E img \in Images : InsertImage(img)
  \/ \E r \in Requests : InferDone(r)
  \/ Collect
  \/ NoResult

Spec == Init /\ [][Next]_vars

(* The device finishes what it was given, a call that can return returns,  *)
(* and decoders keep sending images.                                       *)
Fairness ==
  /\ \A r \in Requests : WF_vars(InferDone(r))
  /\ WF_vars(Collect \/ NoResult)
  /\ WF_vars(Load)
  /\ WF_vars(\E img \in Images : InsertImage(img))

FairSpec == Spec /\ Fairness

-----------------------------------------------------------------------------
TypeOK ==
  /\ bLoad \in BOOLEAN
  /\ bisASync \in BOOLEAN
  /\ nbatch_index_ \in 0..(num_batch_ - 1)
  /\ imginfoque_ \in Seq(Images)
  /\ curr \in Requests
  /\ wrapped \in Requests
  /\ blob \in [Requests -> [Slots -> Images \cup {NoImage}]]
  /\ status \in [Requests -> {"created", "busy", "done"}]
  /\ output \in [Requests -> [Slots -> Images \cup {NoImage}]]
  /\ pc \in {"idle", "wait", "threw"}
  /\ retvalue \in {"NULL", "INSERTED", "PROCESSED", "GET"}

(* A batch is in flight when InsertImage returned without its results.     *)
InFlight == bisASync /\ status[curr] # "created"
Behind   == IF InFlight THEN num_batch_ ELSE 0
Fresh    == IF pc = "wait" THEN num_batch_ ELSE nbatch_index_

(* imginfoque_ is exactly the batch in flight followed by the batch being  *)
(* filled, slot by slot: nothing but this keeps boxes and images together, *)
(* since InsertImage pops the queue without looking at the requests.       *)
QueueMatchesBlobs ==
  /\ Len(imginfoque_) = Behind + Fresh
  /\ \A i \in 1..Behind : imginfoque_[i] = blob[curr][i]
  /\ \A i \in 1..Fresh : imginfoque_[Behind + i] = blob[Target][i]

(* No image is given the boxes of another one, although in asynchronous    *)
(* mode the boxes returned by a call are those of an earlier batch.        *)
PairedResults ==
  \A k \in DOMAIN objects : objects[k].boxesFrom \subseteq {objects[k].image}

(* The logic_error "InsertImage queue fail" (detector.cpp) is unreachable. *)
NeverThrows == pc # "threw"

(* The picture of a request that runs is not overwritten: input_channels   *)
(* never points into the blob of a request between StartAsync and Wait.    *)
BlobUntouched ==
  [][\A r \in Requests : status[r] = "busy" => blob'[r] = blob[r]]_vars

(* Detector implements its service: accept, report in order, forget.       *)
Service == INSTANCE BatchService
             WITH accepted <- imginfoque_, results <- objects
ServiceSpec == Service!Spec

(* InsertImage returns: the request it waits for runs, has finished, or    *)
(* was never started, in which case Wait does not block.                   *)
CallReturns == pc = "wait" ~> pc = "idle"

(* As long as images keep coming, an accepted image is reported (or        *)
(* dropped by SetMode): no batch stays behind in the other request.        *)
AcceptedReported ==
  \A img \in Images :
    img \in ToSet(imginfoque_) ~>
      \/ \E k \in DOMAIN objects : objects[k].image = img
      \/ imginfoque_ = <<>>
=============================================================================

---------------------------- MODULE BatchService ----------------------------
(***************************************************************************)
(* What Detector promises the scheduler, without blobs, infer requests or  *)
(* modes: images are accepted one at a time and reported in batches, in    *)
(* the order they were accepted; each reported image carries only boxes    *)
(* found in that very image; less than two batches and one image are ever  *)
(* pending.  Detector implements this specification (ServiceSpec there).   *)
(***************************************************************************)
EXTENDS Naturals, Sequences

CONSTANTS Images,     \* the images a caller may insert
          num_batch_  \* images per batch

VARIABLES accepted,   \* images accepted and not reported, oldest first
          results     \* the last reported batch

serviceVars == <<accepted, results>>

\* The results of a batch: some of its images have boxes, each in its own.
Report(batch, hits) ==
  [k \in 1..num_batch_ |->
     [image |-> batch[k], boxesFrom |-> IF k \in hits THEN {batch[k]} ELSE {}]]

ServiceInit == accepted = <<>> /\ results = <<>>

Accept(img) ==
  /\ Len(accepted) < 2 * num_batch_
  /\ accepted' = Append(accepted, img)
  /\ UNCHANGED results

Deliver ==
  /\ Len(accepted) >= num_batch_
  /\ \E hits \in SUBSET (1..num_batch_) : results' = Report(accepted, hits)
  /\ accepted' = SubSeq(accepted, num_batch_ + 1, Len(accepted))

\* A change of mode forgets the pending images.
Forget == accepted' = <<>> /\ UNCHANGED results

ServiceNext ==
  \/ \E img \in Images : Accept(img)
  \/ Deliver
  \/ Forget

Spec == ServiceInit /\ [][ServiceNext]_serviceVars
=============================================================================

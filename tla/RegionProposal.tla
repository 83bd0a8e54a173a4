--------------------------- MODULE RegionProposal ---------------------------
(***************************************************************************)
(* The layers that propose regions (ext_proposal.cpp, ext_simplernms.cpp)  *)
(* and the one that pools them (ext_psroi.cpp).  They share the blob of    *)
(* regions: the proposing layer writes a number of regions that depends on *)
(* the picture over what the picture before left there, and the pooling    *)
(* layer has to find out how many there are.                               *)
(*                                                                         *)
(* One picture at a time.  An anchor stands for the box predicted at one   *)
(* place; its arithmetic is left out.                                      *)
(***************************************************************************)
EXTENDS Suppression, FiniteSetsExt

CONSTANTS
  ProposalLayers,   \* subset of {"Proposal", "SimplerNMS"}
  num_proposals,    \* anchors 1 .. num_proposals
  pre_nms_topn_,    \* boxes that enter suppression
  post_nms_topn_,   \* regions of the blob
  Pictures          \* inputs: a score, a box and a size test for each anchor

Anchors == 1..num_proposals
Regions == 1..post_nms_topn_

ASSUME ProposalAssumption ==
  /\ ProposalLayers \subseteq {"Proposal", "SimplerNMS"}
  /\ num_proposals \in Nat \ {0}
  /\ pre_nms_topn_ \in Nat /\ post_nms_topn_ \in Nat \ {0}
  \* The blobs of an input have one score and one box for every anchor.
  /\ \A p \in Pictures :
       /\ p.score \in [Anchors -> Int]
       /\ p.box \in [Anchors -> [x0 : Int, y0 : Int, x1 : Int, y1 : Int]]

VARIABLES
  rpn,        \* "idle", "sort", "nms", "retrieve", "pool" or "done"
  proposer,   \* which layer proposes
  picture,    \* its input, an element of Pictures
  proposals,  \* the anchors that enter suppression, best first
  res,        \* the anchors that suppression kept
  rois,       \* the blob of regions
  pooled      \* the anchors whose regions PSROIPooling pools

proposalVars == <<rpn, proposer, picture, proposals, res, rois, pooled>>

Blank     == [batch_ind |-> 0, anchor |-> 0]
Terminal  == [batch_ind |-> -1, anchor |-> 0]
Region(a) == [batch_ind |-> 0, anchor |-> a]

-----------------------------------------------------------------------------
ProposalInit ==
  /\ rpn = "idle"
  /\ proposer \in ProposalLayers
  /\ picture = CHOOSE p \in Pictures : TRUE   \* none yet
  /\ proposals = <<>> /\ res = <<>>
  /\ rois = [r \in Regions |-> Blank]
  /\ pooled = <<>>

\* The next picture.
StartPicture ==
  /\ rpn \in {"idle", "done"}
  /\ picture' \in Pictures
  /\ rpn' = "sort"
  /\ UNCHANGED <<proposer, proposals, res, rois, pooled>>

\* Proposal keeps boxes that are too small, with a score of zero.
Score(a) == IF a \in picture.small THEN 0 ELSE picture.score[a]

\* std::partial_sort by score alone: equal scores may come in any order.
ProposalOrders ==
  {s \in [1..Smaller(num_proposals, pre_nms_topn_) -> Anchors] :
     /\ IsInjective(s)
     /\ \A j, k \in DOMAIN s : j < k => Score(s[j]) >= Score(s[k])
     /\ \A a \in Anchors \ ToSet(s) : \A k \in DOMAIN s : Score(s[k]) >= Score(a)}

\* SimplerNMS drops them, and sorts equal scores by position, last first.
SimplerOrder ==
  LET large  == Anchors \ picture.small
      before == {r \in Anchors \X Anchors :
                   \/ picture.score[r[1]] > picture.score[r[2]]
                   \/ picture.score[r[1]] = picture.score[r[2]] /\ r[1] > r[2]}
  IN  SubSeq(Ranked(large, before), 1, Smaller(Cardinality(large), pre_nms_topn_))

SortProposals ==
  /\ rpn = "sort"
  /\ \/ proposer = "Proposal" /\ proposals' \in ProposalOrders
     \/ proposer = "SimplerNMS" /\ proposals' = SimplerOrder
  /\ rpn' = "nms"
  /\ UNCHANGED <<proposer, picture, res, rois, pooled>>

Roi(a) == picture.box[a]
Overlapping(Test(_, _)) == {r \in Anchors \X Anchors : Test(Roi(r[1]), Roi(r[2]))}

(* nms_cpu and simpler_nms_perform_nms; the latter skips scores of zero.   *)
SuppressProposals ==
  /\ rpn = "nms"
  /\ \/ /\ proposer = "Proposal"
        /\ res' = KillLoop(proposals, post_nms_topn_, Overlapping(IouOverlaps))
     \/ /\ proposer = "SimplerNMS"
        /\ res' = KeepLoop(Pick(proposals, {k \in DOMAIN proposals :
                                              picture.score[proposals[k]] > 0}),
                           post_nms_topn_, Overlapping(RoiOverlaps))
  /\ rpn' = "retrieve"
  /\ UNCHANGED <<proposer, picture, proposals, rois, pooled>>

\* Faulty: Proposal writes no marker either.
RetrieveRoisOnly ==
  /\ rpn = "retrieve"
  /\ rois' = [r \in Regions |-> IF r <= Len(res) THEN Region(res[r]) ELSE rois[r]]
  /\ rpn' = "pool"
  /\ UNCHANGED <<proposer, picture, proposals, res, pooled>>

(* retrieve_rois_cpu clears the rest of the blob and marks the end of the  *)
(* regions, if there is room; SimplerNMS leaves the rest as it was.        *)
RetrieveRois ==
  /\ rpn = "retrieve"
  /\ rois' = [r \in Regions |->
       CASE r <= Len(res) -> Region(res[r])
         [] r > Len(res) /\ proposer = "SimplerNMS" -> rois[r]
         [] r = Len(res) + 1 /\ proposer = "Proposal" -> Terminal
         [] r > Len(res) + 1 /\ proposer = "Proposal" -> Blank]
  /\ rpn' = "pool"
  /\ UNCHANGED <<proposer, picture, proposals, res, pooled>>

\* The number of regions before the marker.
real_rois ==
  LET ends == {r \in Regions : rois[r].batch_ind = -1}
  IN  IF ends = {} THEN post_nms_topn_ ELSE Min(ends) - 1

PoolRois ==
  /\ rpn = "pool"
  /\ pooled' = [r \in 1..real_rois |-> rois[r].anchor]
  /\ rpn' = "done"
  /\ UNCHANGED <<proposer, picture, proposals, res, rois>>

ProposalNext ==
  \/ StartPicture
  \/ SortProposals
  \/ SuppressProposals
  \/ RetrieveRois
  \/ PoolRois

-----------------------------------------------------------------------------
(* The regions that are pooled are those of this picture: the greedy set   *)
(* of the sorted proposals, best first, as many as the blob holds.  With   *)
(* Proposal they are nothing else; with SimplerNMS, which writes no        *)
(* marker, regions of earlier pictures may follow.                         *)
RegionsOfPicture ==
  rpn = "done" =>
    LET entering == IF proposer = "Proposal" THEN ToSet(proposals)
                    ELSE {a \in ToSet(proposals) : picture.score[a] > 0}
        earlier  == {r \in Anchors \X Anchors : \E j, k \in DOMAIN proposals :
                       j < k /\ r = <<proposals[j], proposals[k]>>}
        greedy   == GreedySet(entering, earlier, Overlapping(RoiOverlaps))
        wanted   == SubSeq(Pick(proposals, {k \in DOMAIN proposals : proposals[k] \in greedy}), 1,
                           Smaller(Cardinality(greedy), post_nms_topn_))
    IN  /\ Len(pooled) >= Len(wanted)
        /\ SubSeq(pooled, 1, Len(wanted)) = wanted
        /\ proposer = "Proposal" => Len(pooled) = Len(wanted)
=============================================================================

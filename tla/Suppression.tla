---------------------------- MODULE Suppression ----------------------------
(***************************************************************************)
(* Non-maximum suppression as three layers of the extension library do it  *)
(* (ext_detectionoutput.cpp, ext_proposal.cpp, ext_simplernms.cpp), and    *)
(* the set of boxes it is meant to keep.                                   *)
(*                                                                         *)
(* Coordinates are whole pixels and the threshold is a fraction, so that   *)
(* quotients are compared without rounding.                                *)
(***************************************************************************)
EXTENDS Ranking, SequencesExt

CONSTANTS ThresholdNum, ThresholdDen   \* nms_threshold, iou_threshold

ASSUME ThresholdAssumption ==
  ThresholdNum \in Nat /\ ThresholdDen \in Nat \ {0}

Larger(a, b)  == IF a > b THEN a ELSE b
Smaller(a, b) == IF a < b THEN a ELSE b

Exceeds(part, whole) == part * ThresholdDen > ThresholdNum * whole

\* The rectangle two boxes share; its sides may be negative.
Intersect(a, b) ==
  [x0 |-> Larger(a.x0, b.x0),  y0 |-> Larger(a.y0, b.y0),
   x1 |-> Smaller(a.x1, b.x1), y1 |-> Smaller(a.y1, b.y1)]

(* DetectionOutput: the right and lower edges are not part of a box.       *)
BoxSize(b) == (b.x1 - b.x0) * (b.y1 - b.y0)

JaccardOverlaps(a, b) ==
  LET i == Intersect(a, b)
  IN  /\ i.x1 > i.x0 /\ i.y1 > i.y0
      /\ Exceeds(BoxSize(i), BoxSize(a) + BoxSize(b) - BoxSize(i))

(* The proposal layers: the edges are part of the box.                     *)
Area(b) == Larger(0, b.y1 - b.y0 + 1) * Larger(0, b.x1 - b.x0 + 1)

RoiOverlaps(a, b) ==
  LET shared == Area(Intersect(a, b))
  IN  Exceeds(shared, Area(a) + Area(b) - shared)

(* Proposal tests first that the boxes touch.                              *)
IouOverlaps(a, b) ==
  /\ a.x0 <= b.x1 /\ a.y0 <= b.y1 /\ b.x0 <= a.x1 /\ b.y0 <= a.y1
  /\ RoiOverlaps(a, b)

(* The loop of DetectionOutput and SimplerNMS: a box, best first, is kept  *)
(* unless it overlaps one kept before; at most limit boxes.  overlaps are  *)
(* the pairs of boxes that pass the test.                                  *)
KeepLoop(sorted, limit, overlaps) ==
  LET kept[i \in 0..Len(sorted)] ==
        IF i = 0 THEN <<>>
        ELSE IF \/ Len(kept[i - 1]) = limit
                \/ \E k \in DOMAIN kept[i - 1] : <<sorted[i], kept[i - 1][k]>> \in overlaps
             THEN kept[i - 1]
             ELSE Append(kept[i - 1], sorted[i])
  IN  kept[Len(sorted)]

(* The loop of Proposal: a living box is kept and kills all later boxes    *)
(* that overlap it, until limit boxes are kept.                            *)
KillLoop(sorted, limit, overlaps) ==
  LET s[i \in 0..Len(sorted)] ==
        IF i = 0 THEN [kept |-> <<>>, dead |-> {}]
        ELSE IF i \in s[i - 1].dead \/ Len(s[i - 1].kept) = limit THEN s[i - 1]
             ELSE [kept |-> Append(s[i - 1].kept, sorted[i]),
                   dead |-> s[i - 1].dead \cup {j \in (i + 1)..Len(sorted) :
                                                 <<sorted[i], sorted[j]>> \in overlaps}]
  IN  s[Len(sorted)].kept

(* What they are for: the one subset of S in which no box is overlapped by *)
(* a better one, and which leaves out no box without such a reason.        *)
GreedySet(S, better, overlaps) ==
  CHOOSE K \in SUBSET S :
    \A p \in S : p \in K <=> ~\E q \in K : <<q, p>> \in better /\ <<p, q>> \in overlaps
=============================================================================

----------------------------- MODULE GridLayers -----------------------------
(***************************************************************************)
(* Layers whose work is to put values at the right places of a grid:       *)
(* ReorgYolo, RegionYolo, PriorBox and PriorBoxClustered of the extension  *)
(* library.  A value is named by what it is computed from; the floating-   *)
(* point arithmetic is left out.                                           *)
(***************************************************************************)
EXTENDS Blob

CONSTANTS
  ReorgNodes,      \* shapes and parameters of the layers of a network
  RegionNodes,
  PriorNodes,
  ClusteredNodes

(* What the layers take for granted of a network.                          *)
ASSUME GridAssumption ==
  /\ \A s \in ReorgNodes :
       /\ s.B \in Nat /\ s.IC \in Nat /\ s.IH \in Nat /\ s.IW \in Nat
       /\ s.stride \in Nat \ {0} /\ s.IC % (s.stride * s.stride) = 0
       /\ s.IC >= s.stride * s.stride
  /\ \A s \in RegionNodes :
       /\ s.B \in Nat /\ s.classes \in Nat /\ s.IH \in Nat /\ s.IW \in Nat
       /\ s.coords \in Nat /\ s.coords >= 2 /\ s.num \in Nat \ {0}
  \* A ratio is written in lowest terms.
  /\ \A s \in PriorNodes :
       /\ s.H \in Nat /\ s.W \in Nat /\ s.flip \in BOOLEAN
       /\ s.mins \in Nat /\ s.maxs \in Nat /\ s.vars \in {0, 1, 4}
       /\ s.ratios \in Seq((Nat \ {0}) \X (Nat \ {0}))
       /\ \A k \in DOMAIN s.ratios :
            s.ratios[k][1] = s.ratios[k][2] => s.ratios[k] = <<1, 1>>
  \* More than four variances are written beyond the blob.
  /\ \A s \in ClusteredNodes :
       s.H \in Nat /\ s.W \in Nat /\ s.num_priors \in Nat /\ s.vars \in 0..4

VARIABLES
  node,   \* the layer that ran, with its parameters
  grid     \* its output blob

gridVars == <<node, grid>>

GridInit == node = [type |-> "none"] /\ grid = Blob(0)

-----------------------------------------------------------------------------
(* ReorgYolo.  Cells of a blob are numbered row by row; the loops run over *)
(* the output and read an input that is seen as fewer, larger channels.    *)
ic_off(s) == s.IC \div (s.stride * s.stride)

\* Faulty: rows and columns of a block swapped.
SrcIndexTransposed(s, b, ic, ih, iw) ==
  LET offset == ic \div ic_off(s)
      ow == iw * s.stride + (offset \div s.stride)
      oh == ih * s.stride + (offset % s.stride)
  IN  ((b * ic_off(s) + (ic % ic_off(s))) * s.IH * s.stride + oh) * s.IW * s.stride + ow

SrcIndex(s, b, ic, ih, iw) ==
  LET offset == ic \div ic_off(s)
      ow == iw * s.stride + (offset % s.stride)
      oh == ih * s.stride + (offset \div s.stride)
  IN  ((b * ic_off(s) + (ic % ic_off(s))) * s.IH * s.stride + oh) * s.IW * s.stride + ow

ReorgYolo(s) ==
  /\ node' = [type |-> "ReorgYolo", of |-> s]
  /\ grid' = Fill(Blob(s.B * s.IC * s.IH * s.IW),
                 Cells(s.B) \X Cells(s.IC) \X Cells(s.IH) \X Cells(s.IW),
                 LAMBDA i : ((i[1] * s.IC + i[2]) * s.IH + i[3]) * s.IW + i[4],
                 LAMBDA i : [fn |-> "copy", of |-> SrcIndex(s, i[1], i[2], i[3], i[4])])

-----------------------------------------------------------------------------
(* RegionYolo: the input is copied, three entries of each box go through   *)
(* the logistic function, the classes through a softmax.                   *)
Plane(s) == s.IW * s.IH

entry_index(s, batch, location, entry) ==
  batch * Plane(s) * s.num * (s.classes + s.coords + 1)
  + (location \div Plane(s)) * Plane(s) * (s.coords + s.classes + 1)
  + entry * Plane(s) + (location % Plane(s))

\* The cells of some entries of all boxes.
EntryCells(s, entry, entries) ==
  UNION {LET index == entry_index(s, b, n * Plane(s), entry)
         IN  index..(index + entries * Plane(s) - 1) : b \in Cells(s.B), n \in Cells(s.num)}

Logistic(blob, cells) ==
  [d \in DOMAIN blob |-> IF d \in cells THEN [fn |-> "logistic", of |-> blob[d]] ELSE blob[d]]

\* softmax_generic over one box: i is a place, c a class.
ClassCell(s, box, c, i) ==
  entry_index(s, 0, 0, s.coords + 1) + box * Plane(s) * (s.classes + s.coords + 1)
  + c * Plane(s) + i

RegionYolo(s) ==
  LET copied == [d \in Cells(s.B * s.num * (s.classes + s.coords + 1) * Plane(s)) |->
                   [fn |-> "copy", of |-> d]]
      active == Logistic(Logistic(copied, EntryCells(s, 0, 2)),
                         EntryCells(s, s.coords, 1))
  IN  /\ node' = [type |-> "RegionYolo", of |-> s]
      /\ grid' = Fill(active, Cells(s.B * s.num) \X Cells(s.classes) \X Cells(Plane(s)),
                     LAMBDA i : ClassCell(s, i[1], i[2], i[3]),
                     LAMBDA i : [fn |-> "softmax", of |-> ClassCell(s, i[1], i[2], i[3]),
                                 over |-> {ClassCell(s, i[1], c, i[3]) : c \in Cells(s.classes)}])

-----------------------------------------------------------------------------
(* PriorBox.  A ratio is a reduced fraction <<width, height>>.             *)
Flipped(ar) == <<ar[2], ar[1]>>

AspectRatios(s) ==
  LET list[k \in 0..Len(s.ratios)] ==
        IF k = 0 THEN <<<<1, 1>>>>
        ELSE LET ar == s.ratios[k]
             IN  CASE ar \in ToSet(list[k - 1]) -> list[k - 1]
                   [] ar \notin ToSet(list[k - 1]) /\ s.flip ->
                        list[k - 1] \o <<ar, Flipped(ar)>>
                   [] ar \notin ToSet(list[k - 1]) /\ ~s.flip -> Append(list[k - 1], ar)
  IN  list[Len(s.ratios)]

NumPriors(s) == Len(AspectRatios(s)) * s.mins + s.maxs

(* The boxes of one place, by smallest size m and number j: a square, one  *)
(* between two sizes, and one for each ratio but the square's.             *)
Numbers(s) == -1..Len(AspectRatios(s))
BoxNumbers(s) ==
  {q \in (1..s.mins) \X Numbers(s) :
     \/ q[2] = -1
     \/ q[2] = 0 /\ s.maxs >= q[1]
     \/ q[2] > 0 /\ AspectRatios(s)[q[2]] # <<1, 1>>}

BoxOf(s, q) ==
  CASE q[2] = -1 -> [min |-> q[1], kind |-> "square"]
    [] q[2] = 0  -> [min |-> q[1], kind |-> "between"]
    [] q[2] > 0  -> [min |-> q[1], kind |-> "ratio", ratio |-> AspectRatios(s)[q[2]]]

\* In the order in which they are written.
BoxOrder ==
  {r \in (Nat \X Int) \X (Nat \X Int) :
     r[1][1] < r[2][1] \/ (r[1][1] = r[2][1] /\ r[1][2] < r[2][2])}

PlaceBoxes(s) ==
  LET written == Ranked(BoxNumbers(s), BoxOrder)
  IN  [k \in 1..Cardinality(BoxNumbers(s)) |-> BoxOf(s, written[k])]

Places(s) == Cells(s.H) \X Cells(s.W)

PriorBox(s) ==
  LET num == NumPriors(s)
      channel_size == s.H * s.W * num * 4
      place == PlaceBoxes(s)
      boxes == Fill(Blob(2 * channel_size),
                    Places(s) \X (1..Len(place)) \X Cells(4),
                    LAMBDA i : ((i[1][1] * s.W + i[1][2]) * Len(place) + i[2] - 1) * 4 + i[3],
                    LAMBDA i : [fn |-> "box", at |-> i[1], box |-> place[i[2]], edge |-> i[3]])
  IN  /\ node' = [type |-> "PriorBox", of |-> s]
      /\ grid' = IF s.vars # 4
                THEN Fill(boxes, Cells(channel_size), LAMBDA i : channel_size + i,
                          LAMBDA i : [fn |-> "variance", of |-> 0])
                ELSE Fill(boxes, Places(s) \X Cells(num) \X Cells(4),
                          LAMBDA i : channel_size
                            + ((i[1][1] * s.W + i[1][2]) * num + i[2]) * 4 + i[3],
                          LAMBDA i : [fn |-> "variance", of |-> i[3]])

(* PriorBoxClustered: boxes of given widths and heights.  A variance of    *)
(* 0.1 is added where none is given.                                       *)
NumVariances(s) == IF s.vars = 0 THEN 1 ELSE s.vars

PriorBoxClustered(s) ==
  LET channel_size == s.H * s.W * s.num_priors * 4
      cell(i, values) == i[1][1] * s.W * s.num_priors * values + i[1][2] * s.num_priors * values
                         + i[2] * values + i[3]
      boxes == Fill(Blob(2 * channel_size), Places(s) \X Cells(s.num_priors) \X Cells(4),
                    LAMBDA i : cell(i, 4),
                    LAMBDA i : [fn |-> "box", at |-> i[1], box |-> i[2], edge |-> i[3]])
  IN  /\ node' = [type |-> "PriorBoxClustered", of |-> s]
      /\ grid' = Fill(boxes, Places(s) \X Cells(s.num_priors) \X Cells(NumVariances(s)),
                     LAMBDA i : channel_size + cell(i, NumVariances(s)),
                     LAMBDA i : [fn |-> "variance", of |-> i[3]])

GridLayer(type) ==
  /\ node.type = "none"
  /\ \/ type = "ReorgYolo" /\ \E s \in ReorgNodes : ReorgYolo(s)
     \/ type = "RegionYolo" /\ \E s \in RegionNodes : RegionYolo(s)
     \/ type = "PriorBox" /\ \E s \in PriorNodes : PriorBox(s)
     \/ type = "PriorBoxClustered" /\ \E s \in ClusteredNodes : PriorBoxClustered(s)

-----------------------------------------------------------------------------
(* ReorgYolo loses and doubles nothing: it cuts the large picture into     *)
(* blocks of stride by stride, one output place for each block, and every  *)
(* pixel of a block has its own channel there.                             *)
ReorgRight(s) ==
  \A b \in Cells(s.B), oc \in Cells(ic_off(s)),
     y \in Cells(s.IH * s.stride), x \in Cells(s.IW * s.stride) :
    LET channel == ((y % s.stride) * s.stride + (x % s.stride)) * ic_off(s) + oc
        out == ((b * s.IC + channel) * s.IH + (y \div s.stride)) * s.IW + (x \div s.stride)
        pixel == ((b * ic_off(s) + oc) * s.IH * s.stride + y) * s.IW * s.stride + x
    IN  grid[out] = [fn |-> "copy", of |-> pixel]

(* RegionYolo: of each box, position and objectness are activated once,    *)
(* the size is copied and the classes share one softmax.                   *)
RegionRight(s) ==
  LET entries == s.coords + 1 + s.classes
      cell(b, n, e, p) == ((b * s.num + n) * entries + e) * Plane(s) + p
  IN  \A b \in Cells(s.B), n \in Cells(s.num), e \in Cells(entries), p \in Cells(Plane(s)) :
        LET d == cell(b, n, e, p)
        IN  grid[d] = CASE e \in {0, 1, s.coords} ->
                            [fn |-> "logistic", of |-> [fn |-> "copy", of |-> d]]
                       [] e > s.coords ->
                            [fn |-> "softmax", of |-> d,
                             over |-> {cell(b, n, k, p) : k \in (s.coords + 1)..(entries - 1)}]
                       [] OTHER -> [fn |-> "copy", of |-> d]

(* The boxes that one place should have.                                   *)
BoxesWanted(s) ==
  LET given == ToSet(s.ratios) \cup IF s.flip THEN {Flipped(ar) : ar \in ToSet(s.ratios)} ELSE {}
  IN  {[min |-> m, kind |-> "square"] : m \in 1..s.mins}
      \cup {[min |-> m, kind |-> "between"] : m \in (1..s.mins) \cap (1..s.maxs)}
      \cup {[min |-> m, kind |-> "ratio", ratio |-> ar] : m \in 1..s.mins, ar \in given \ {<<1, 1>>}}

\* The boxes of a place stand behind those of the places before it.
BoxesAt(s, boxes) ==
  LET num == Cardinality(boxes)
  IN  \A h \in Cells(s.H), w \in Cells(s.W), box \in boxes :
        \E k \in Cells(num) : \A e \in Cells(4) :
          grid[((h * s.W + w) * num + k) * 4 + e]
            = [fn |-> "box", at |-> <<h, w>>, box |-> box, edge |-> e]

\* The variances stand behind the cells that are reserved for num boxes at
\* each place; the cells behind them are as they were.
VariancesAt(s, num, values, variance) ==
  LET half == s.H * s.W * num * 4
  IN  /\ \A h \in Cells(s.H), w \in Cells(s.W), k \in Cells(num), e \in Cells(values) :
           grid[half + ((h * s.W + w) * num + k) * values + e]
             = [fn |-> "variance", of |-> variance[e]]
      /\ \A d \in Cells(2 * half) : d >= half + s.H * s.W * num * values => grid[d] = Old

(* DetectionOutput reads prior p from cells 4p to 4p + 3 and its variances *)
(* from the same cells of the second channel.  PriorBox puts both there    *)
(* unless it is given more max_sizes than min_sizes: then the places are   *)
(* shorter than the room reserved for them, and the boxes of all but the   *)
(* first stand too early.                                                  *)
PriorsRight(s) ==
  /\ BoxesAt(s, BoxesWanted(s))
  /\ VariancesAt(s, NumPriors(s), 4, [e \in Cells(4) |-> IF s.vars = 4 THEN e ELSE 0])
  /\ s.maxs <= s.mins => Cardinality(BoxesWanted(s)) = NumPriors(s)

(* PriorBoxClustered puts its boxes where they are read, and four          *)
(* variances too.  Fewer, such as its own default of one, do not stand     *)
(* where they are read and fill a part of their channel only.              *)
ClusteredRight(s) ==
  /\ BoxesAt(s, Cells(s.num_priors))
  /\ VariancesAt(s, s.num_priors, NumVariances(s), [e \in Cells(NumVariances(s)) |-> e])

(* A layer stores every value at its place, whatever its shape: nothing is *)
(* stored twice or taken from a neighbour, and but for the two cases above *)
(* nothing is left from before.                                            *)
GridsRight ==
  CASE node.type = "ReorgYolo"  -> ReorgRight(node.of)
    [] node.type = "RegionYolo" -> RegionRight(node.of)
    [] node.type = "PriorBox"   -> PriorsRight(node.of)
    [] node.type = "PriorBoxClustered" -> ClusteredRight(node.of)
    [] OTHER -> TRUE
=============================================================================

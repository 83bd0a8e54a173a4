---------------------------- MODULE AnswerLayers ----------------------------
(***************************************************************************)
(* Layers that choose among the values of their input: ArgMax (the best of *)
(* an axis), CTCGreedyDecoder (a line of characters), Resample (the        *)
(* nearest pixel) and PSROIPooling (the pixels under each bin of a         *)
(* region).  Probabilities are small numbers, coordinates are fractions    *)
(* without rounding.                                                       *)
(***************************************************************************)
EXTENDS Blob

CONSTANTS
  ArgMaxNodes,   \* parameters, shapes and inputs of the layers of a network
  CTCNodes,
  ResampleNodes,
  PSROINodes

(* ArgMax: the sizes of its input.                                         *)
count(dims, start) ==
  LET product[k \in start..Len(dims)] == IF k = start THEN 1 ELSE product[k - 1] * dims[k]
  IN  product[Len(dims)]

axis_(s) == IF s.axis_index < 0 THEN s.axis_index + Len(s.dims) ELSE s.axis_index
dim(s) == IF s.has_axis THEN s.dims[axis_(s) + 1] ELSE count(s.dims, 1)
axis_dist(s) == IF s.has_axis THEN count(s.dims, axis_(s)) \div dim(s) ELSE 1

(* What the layers take for granted of a network.                          *)
ASSUME AnswerAssumption ==
  /\ \A s \in ArgMaxNodes :
       /\ s.dims \in Seq(Nat \ {0}) /\ s.dims # <<>>
       /\ s.has_axis \in BOOLEAN /\ s.out_max_val \in BOOLEAN /\ s.axis_index \in Int
       /\ s.has_axis => s.axis_index \in (-Len(s.dims))..(Len(s.dims) - 1)
       /\ s.src \in [Cells(count(s.dims, 0)) -> Int]
       \* A greater top_k_ sorts beyond the end of src_vector.
       /\ s.top_k \in 0..dim(s)
  /\ \A s \in CTCNodes :
       /\ s.T \in Nat \ {0} /\ s.N \in Nat /\ s.C \in Nat \ {0}
       /\ \A t \in Cells(s.T), n \in Cells(s.N), c \in Cells(s.C) : s.probs[t][n][c] \in Int
  /\ \A s \in ResampleNodes :
       s.IH \in Nat \ {0} /\ s.IW \in Nat \ {0} /\ s.OH \in Nat \ {0} /\ s.OW \in Nat \ {0}
  /\ \A s \in PSROINodes :
       /\ s.output_dim \in Nat /\ s.group_size \in Nat \ {0} /\ s.scale \in Nat \ {0}
       /\ s.height \in Nat /\ s.width \in Nat
       /\ s.roi \in [x0 : Int, y0 : Int, x1 : Int, y1 : Int]

VARIABLES
  choice,   \* the layer that ran, with its parameters and input
  answer    \* its output blob

answerVars == <<choice, answer>>

AnswerInit == choice = [type |-> "none"] /\ answer = Blob(0)

-----------------------------------------------------------------------------
(* ArgMax.                                                                 *)
\* The pairs of value and index of slice i, and std::greater for pairs.
Value(s, i, j) ==
  s.src[((i \div axis_dist(s)) * dim(s) + j) * axis_dist(s) + (i % axis_dist(s))]
Pairs(s, i) == {[value |-> Value(s, i, j), index |-> j] : j \in Cells(dim(s))}
Greater ==
  LET Pair == [value : Int, index : Nat]
  IN  {r \in Pair \X Pair : \/ r[1].value > r[2].value
                            \/ r[1].value = r[2].value /\ r[1].index > r[2].index}

ArgMax(s) ==
  LET num == count(s.dims, 0) \div dim(s)
      best(i) == Ranked(Pairs(s, i[1]), Greater)[i[2] + 1]
      cell(i) == ((i[1] \div axis_dist(s)) * s.top_k + i[2]) * axis_dist(s)
                 + (i[1] % axis_dist(s))
      loops == Cells(num) \X Cells(s.top_k)
  IN  /\ choice' = [type |-> "ArgMax", of |-> s]
      /\ answer' =
           IF s.out_max_val /\ s.has_axis
             THEN Fill(Blob(num * s.top_k), loops, cell, LAMBDA i : best(i).value)
           ELSE IF s.out_max_val
             THEN Fill(Fill(Blob(2 * num * s.top_k), loops,
                            LAMBDA i : 2 * i[1] * s.top_k + i[2], LAMBDA i : best(i).index),
                       loops, LAMBDA i : 2 * i[1] * s.top_k + s.top_k + i[2],
                       LAMBDA i : best(i).value)
           ELSE Fill(Blob(num * s.top_k), loops, cell, LAMBDA i : best(i).index)

-----------------------------------------------------------------------------
(* CTCGreedyDecoder.  probs[t][n][c]; the last class is the blank.         *)
BestClass(s, t, n) ==
  LET best[c \in Cells(s.C)] ==
        IF c = 0 THEN 0
        ELSE IF s.probs[t][n][c] > s.probs[t][n][best[c - 1]] THEN c ELSE best[c - 1]
  IN  best[s.C - 1]

\* The steps of the loop for sequence n: it checks the indicators at its end.
Steps(s, n) ==
  {t \in Cells(s.T) : \A u \in 1..t : s.indicators[u][n] # 0}

\* Faulty: the previous class is remembered only when it was written.
DecodeKeepingClass(s, n) ==
  LET st[t \in 0..Cardinality(Steps(s, n))] ==
        IF t = 0 THEN [prev |-> -1, out |-> <<>>]
        ELSE LET c == BestClass(s, t - 1, n)
             IN  IF c < s.C - 1 /\ c # st[t - 1].prev
                 THEN [prev |-> c, out |-> Append(st[t - 1].out, c)]
                 ELSE st[t - 1]
  IN  st[Cardinality(Steps(s, n))].out

Decode(s, n) ==
  LET st[t \in 0..Cardinality(Steps(s, n))] ==
        IF t = 0 THEN [prev |-> -1, out |-> <<>>]
        ELSE LET c == BestClass(s, t - 1, n)
             IN  [prev |-> c,
                  out  |-> IF c < s.C - 1 /\ c # st[t - 1].prev
                           THEN Append(st[t - 1].out, c) ELSE st[t - 1].out]
  IN  st[Cardinality(Steps(s, n))].out

CTCGreedyDecoder(s) ==
  /\ choice' = [type |-> "CTCGreedyDecoder", of |-> s]
  /\ answer' = Fill([d \in Cells(s.T * s.N) |-> -1],
                    UNION {{n} \X (1..Len(Decode(s, n))) : n \in Cells(s.N)},
                    LAMBDA i : i[1] * s.T + i[2] - 1,
                    LAMBDA i : Decode(s, i[1])[i[2]])

-----------------------------------------------------------------------------
(* Resample with type NEAREST: round(ox*fx + fy/2 - 0.5), where fx is      *)
(* IW/OW and fy is IH/OH.  The two loops for factors of two and four are   *)
(* chosen instead of the general one.  What is copied is named by the cell *)
(* it is read from, which may lie beyond the row or the picture.           *)
NearestX(s, ox) == (2 * ox * s.IW * s.OH + s.IH * s.OW) \div (2 * s.OW * s.OH)
NearestY(s, oy) == (2 * oy * s.IH * s.OW + s.IW * s.OH) \div (2 * s.OW * s.OH)

Upsamples(s, k) == k * s.IW = s.OW /\ k * s.IH = s.OH

Resample(s) ==
  LET out == Blob(s.OH * s.OW)
      pixel(y, x) == y * s.IW + x
  IN  /\ choice' = [type |-> "Resample", of |-> s]
      /\ answer' =
           CASE Upsamples(s, 2) ->
                  Fill(out, Cells(s.IH) \X Cells(s.IW) \X Cells(2) \X Cells(2),
                       LAMBDA i : (2 * i[1] + i[3]) * s.OW + 2 * i[2] + i[4],
                       LAMBDA i : pixel(i[1], i[2]))
             [] Upsamples(s, 4) ->
                  Fill(out, Cells(s.OH) \X {ox \in Cells(s.OW - 3) : ox % 4 = 0} \X Cells(4),
                       LAMBDA i : i[1] * s.OW + i[2] + i[3],
                       LAMBDA i : pixel(NearestY(s, i[1]), NearestX(s, i[2])))
             [] OTHER ->
                  Fill(out, Cells(s.OH) \X Cells(s.OW),
                       LAMBDA i : i[1] * s.OW + i[2],
                       LAMBDA i : pixel(NearestY(s, i[1]), NearestX(s, i[2])))

-----------------------------------------------------------------------------
(* PSROIPooling of one region.  spatial_scale_ is 1/scale; lengths are in  *)
(* units of 1/(10 * scale * group_size) pixels of the map.                 *)
unit(s) == 10 * s.scale * s.group_size
Start(s, from) == 10 * s.group_size * from
BinSize(s, from, to) == Max({10 * (to + 1 - from), s.scale})

Clamp(v, size) == Min({Max({v, 0}), size})
BinStart(s, k, from, to, size) ==
  Clamp((k * BinSize(s, from, to) + Start(s, from)) \div unit(s), size)

BinEnd(s, k, from, to, size) ==
  Clamp(-((-((k + 1) * BinSize(s, from, to) + Start(s, from))) \div unit(s)), size)

Bin(s, k, from, to, size) == BinStart(s, k, from, to, size)..(BinEnd(s, k, from, to, size) - 1)

PSROIPooling(s) ==
  LET rows(h) == Bin(s, h, s.roi.y0, s.roi.y1, s.height)
      cols(w) == Bin(s, w, s.roi.x0, s.roi.x1, s.width)
      G == Cells(s.group_size)
  IN  /\ choice' = [type |-> "PSROIPooling", of |-> s]
      /\ answer' = Fill(Blob(s.output_dim * s.group_size * s.group_size),
                        Cells(s.output_dim) \X G \X G,
                        LAMBDA i : (i[1] * s.group_size + i[2]) * s.group_size + i[3],
                        LAMBDA i : [channel |-> (i[1] * s.group_size + i[2]) * s.group_size + i[3],
                                    pixels |-> rows(i[2]) \X cols(i[3])])

AnswerLayer(type) ==
  /\ choice.type = "none"
  /\ \/ type = "ArgMax" /\ \E s \in ArgMaxNodes : ArgMax(s)
     \/ type = "CTCGreedyDecoder" /\ \E s \in CTCNodes : CTCGreedyDecoder(s)
     \/ type = "Resample" /\ \E s \in ResampleNodes : Resample(s)
     \/ type = "PSROIPooling" /\ \E s \in PSROINodes : PSROIPooling(s)

-----------------------------------------------------------------------------
(* ArgMax: place (before, after) of the output holds the j-th greatest of  *)
(* the values at (before, any, after); of equal values the last is first.  *)
ArgMaxRight(s, out) ==
  LET size  == dim(s)
      inner == IF s.has_axis THEN count(s.dims, axis_(s) + 1) ELSE 1
      outer == count(s.dims, 0) \div (size * inner)
      value(b, a, j) == s.src[(b * size + j) * inner + a]
      before(b, a, j) == {k \in Cells(size) : \/ value(b, a, k) > value(b, a, j)
                                              \/ value(b, a, k) = value(b, a, j) /\ k > j}
  IN  \A b \in Cells(outer), a \in Cells(inner), j \in Cells(size) :
        LET rank == Cardinality(before(b, a, j))
        IN  rank < s.top_k =>
              IF s.out_max_val /\ ~s.has_axis
              THEN /\ out[b * 2 * s.top_k + rank] = j
                   /\ out[(b * 2 + 1) * s.top_k + rank] = value(b, a, j)
              ELSE out[(b * s.top_k + rank) * inner + a]
                     = IF s.out_max_val THEN value(b, a, j) ELSE j

(* CTCGreedyDecoder: sequence n is the class of every step that starts a   *)
(* run of a class other than the blank, followed by -1.                    *)
CTCRight(s, out) ==
  \A n \in Cells(s.N) :
    LET best(t) == CHOOSE c \in Cells(s.C) : \A d \in Cells(s.C) :
                     \/ s.probs[t][n][c] > s.probs[t][n][d]
                     \/ s.probs[t][n][c] = s.probs[t][n][d] /\ c <= d
        starts == {t \in Steps(s, n) : /\ best(t) # s.C - 1
                                       /\ t = 0 \/ best(t - 1) # best(t)}
        nth(t) == Cardinality({u \in starts : u < t})
    IN  /\ \A t \in starts : out[n * s.T + nth(t)] = best(t)
        /\ \A k \in Cardinality(starts)..(s.T - 1) : out[n * s.T + k] = -1

(* Resample: what is read has its centre nearest to a point.  With equal   *)
(* factors it is the centre of the output pixel.  Otherwise the kernel     *)
(* mixes them up, and the point lies half their difference to one side and *)
(* as far up or down on the other; only equal factors keep it in the       *)
(* picture.                                                                *)
ResampleRight(s, out) ==
  LET skew == s.IH * s.OW - s.IW * s.OH
      Distance(o, i, ins, outs, others, shift) ==
        LET d == ((2 * o + 1) * ins - (2 * i + 1) * outs) * others + shift
        IN  IF d < 0 THEN -d ELSE d
      reach == Cells(s.IH + s.IW)
  IN  \A oy \in Cells(s.OH), ox \in Cells(s.OW) :
        \E y \in reach, x \in reach :
          /\ out[oy * s.OW + ox] = y * s.IW + x
          /\ \A z \in reach : Distance(ox, x, s.IW, s.OW, s.OH, skew)
                                <= Distance(ox, z, s.IW, s.OW, s.OH, skew)
          /\ \A z \in reach : Distance(oy, y, s.IH, s.OH, s.OW, -skew)
                                <= Distance(oy, z, s.IH, s.OH, s.OW, -skew)
          /\ skew = 0 => y \in Cells(s.IH) /\ x \in Cells(s.IW)

(* PSROIPooling: a bin averages the pixels of the map that it touches, all *)
(* of the map's channels are used once, and the bins leave out no pixel of *)
(* the map that the region touches.                                        *)
PSROIRight(s, out) ==
  LET G == Cells(s.group_size)
      bin(c, h, w) == out[(c * s.group_size + h) * s.group_size + w]
      Touches(p, k, from, to) ==
        /\ p * unit(s) < (k + 1) * BinSize(s, from, to) + Start(s, from)
        /\ (p + 1) * unit(s) > k * BinSize(s, from, to) + Start(s, from)
      InRegion(p, from, to) == p * s.scale < to + 1 /\ (p + 1) * s.scale > from
      map == Cells(s.height) \X Cells(s.width)
  IN  /\ {bin(i[1], i[2], i[3]).channel : i \in Cells(s.output_dim) \X G \X G}
           = Cells(s.output_dim * s.group_size * s.group_size)
      /\ \A c \in Cells(s.output_dim) :
           /\ \A h \in G, w \in G :
                bin(c, h, w).pixels = {p \in map : /\ Touches(p[1], h, s.roi.y0, s.roi.y1)
                                                   /\ Touches(p[2], w, s.roi.x0, s.roi.x1)}
           /\ \A p \in map :
                InRegion(p[1], s.roi.y0, s.roi.y1) /\ InRegion(p[2], s.roi.x0, s.roi.x1) =>
                  \E h \in G, w \in G : p \in bin(c, h, w).pixels

(* What a layer answers is what was asked, also for equal values, repeated *)
(* characters and regions that leave the picture; a Resample with unequal  *)
(* factors is off by no more than half their difference.                   *)
AnswersRight ==
  CASE choice.type = "ArgMax" -> ArgMaxRight(choice.of, answer)
    [] choice.type = "CTCGreedyDecoder" -> CTCRight(choice.of, answer)
    [] choice.type = "Resample" -> ResampleRight(choice.of, answer)
    [] choice.type = "PSROIPooling" -> PSROIRight(choice.of, answer)
    [] OTHER -> TRUE
=============================================================================

---------------------------- MODULE MCExtension ----------------------------
(* Small instances of Extension for TLC.                                   *)
EXTENDS Extension

\* DetectionOutput: two images, a background and two classes, four priors,
\* in a row so that each overlaps its neighbours.
At(x) == [x0 |-> x, y0 |-> 0, x1 |-> x + 4, y1 |-> 4]
MCDecoded ==
  [c \in 0..2 |-> IF c = 1 THEN <<At(0), At(1), At(2), At(9)>>
                           ELSE <<At(2), At(0), At(5), At(1)>>]
\* Confidences of the two images; equal ones, those of 0 at which the reader
\* stops, those of -1 that no threshold lets through, and a batch whose list
\* of priors ends early.
Confidences(a, b, c, d) ==
  [i \in 0..1 |-> [k \in 0..2 |->
     CASE k = 0 -> <<2, 2, 2, 2>>
       [] k = 1 -> IF i = 0 THEN a ELSE c
       [] k = 2 -> IF i = 0 THEN b ELSE d]]
None == <<-1, -1, -1, -1>>
MCThreshold == -1
MCBatches ==
  {[actual |-> 4, conf |-> Confidences(a, b, <<2, 1, 3, -1>>, None)] :
     a \in {<<1, 2, 3, 1>>, <<3, 2, 1, 2>>, <<2, 2, 2, -1>>, <<-1, -1, 0, -1>>},
     b \in {<<2, 1, 0, 3>>, None, <<1, 1, 3, 1>>}}
  \cup {[actual |-> 4, conf |-> Confidences(None, None, None, None)],
        [actual |-> 4, conf |-> Confidences(None, <<1, -1, 2, 1>>,
                                            <<3, 2, 1, 0>>, <<0, 2, 0, 1>>)],
        [actual |-> 2, conf |-> Confidences(<<1, 2, 3, 3>>, <<3, 1, 3, 3>>,
                                            <<2, 2, 3, 3>>, <<1, 3, 3, 3>>)]}

\* Four anchors in a row; one may be too small.
MCPictures ==
  {[score |-> s, small |-> small,
    box |-> [a \in 1..4 |-> [x0 |-> 2 * a, y0 |-> 0, x1 |-> 2 * a + 6, y1 |-> 4]]] :
     s \in [1..4 -> 0..2], small \in {{}, {2}}}

\* Every stride, with one and two channels behind the blocks.
MCReorg ==
  {[B |-> b, IC |-> k * s * s, IH |-> h, IW |-> w, stride |-> s] :
     b \in {1, 2}, k \in {1, 2}, h \in {1, 2}, w \in {1, 3}, s \in {1, 2}}
MCRegion ==
  {[B |-> b, num |-> m, coords |-> c, classes |-> k, IH |-> h, IW |-> 2] :
     b \in {1, 2}, m \in {1, 2}, c \in {2, 4}, k \in {1, 2}, h \in {1, 2}}
\* Ratios given twice, given with their inverse, and the ratio of one; fewer
\* and more max_sizes than min_sizes.
MCPrior ==
  {[H |-> 1, W |-> 2, mins |-> m[1], maxs |-> m[2], ratios |-> r, flip |-> f, vars |-> v] :
     m \in {<<0, 1>>, <<1, 0>>, <<1, 1>>, <<1, 3>>, <<2, 1>>},
     r \in {<<>>, <<<<2, 1>>>>, <<<<1, 1>>, <<2, 1>>, <<2, 1>>>>,
            <<<<2, 1>>, <<1, 2>>, <<3, 1>>>>},
     f \in BOOLEAN, v \in {0, 1, 4}}
MCClustered ==
  {[H |-> h, W |-> w, num_priors |-> m, vars |-> v] :
     h \in {1, 2}, w \in {1, 2}, m \in {1, 3}, v \in {0, 1, 3, 4}}

\* Inputs with equal values, along each axis and for whole images.
MCArgMax ==
  {[dims |-> <<2, 3, 2>>, has_axis |-> v[1], axis_index |-> v[2], top_k |-> k,
    out_max_val |-> o,
    src |-> [i \in 0..11 |-> x[(i % 4) + 1] + x[(i \div 4) + 1]]] :
     v \in {<<TRUE, 1>>, <<TRUE, -1>>, <<FALSE, 0>>}, k \in 0..2, o \in BOOLEAN,
     x \in [1..4 -> 0..1]}
\* Three steps of two sequences over two characters and the blank.
MCCTC ==
  {[T |-> 3, N |-> 2, C |-> 3,
    probs |-> [t \in 0..2 |-> [q \in 0..1 |->
                 LET row == IF q = 0 THEN r[t + 1] ELSE r[3 - t]
                 IN  [c \in 0..2 |-> row[c + 1]]]],
    indicators |-> [t \in 0..2 |-> [q \in 0..1 |-> IF q = 0 THEN i[t + 1] ELSE 1]]] :
     r \in [1..3 -> {<<1, 0, 0>>, <<0, 1, 0>>, <<0, 0, 1>>, <<1, 1, 0>>}],
     i \in {<<1, 1, 1>>, <<1, 1, 0>>, <<1, 0, 1>>}}
\* Equal factors, among them those of two and four, and unequal ones.
MCResample ==
  {s \in [IH : 1..3, IW : 1..4, OH : 1..8, OW : 1..8] : s.IW * s.OH = s.IH * s.OW}
  \cup [IH : 1..3, IW : 1..3, OH : 1..3, OW : 1..4]
\* Regions inside, at the border of and outside a map of four by four.
MCPSROI ==
  {[output_dim |-> 2, group_size |-> g, scale |-> sc, height |-> 4, width |-> 4,
    roi |-> [x0 |-> a, y0 |-> b, x1 |-> a + c, y1 |-> b + c]] :
     g \in {1, 2, 3}, sc \in {1, 2}, a \in {-2, 0, 1, 3}, b \in {-2, 1, 5}, c \in {-1, 0, 2, 5}}
=============================================================================

-------------------------- MODULE KCFTrackerProofs --------------------------
(***************************************************************************)
(* Theorems about the resources of a KCFTracker, for regions and surfaces  *)
(* of any number and size and any number of failing calls of the device.   *)
(* The inductive invariant says how the region determines the template     *)
(* (Region), how the sizes of template, map and matrices follow each other *)
(* through a call (Sizes), which indices are alive (Indices), and how much *)
(* of the task has been put together when a step of the correlation is     *)
(* reached (Task).  For the buffers and plans of the correlation it is     *)
(* joined by Fitting: what this call has brought to the size of its patch  *)
(* (Renewed), and what a complete call has left of that size (Kept).       *)
(***************************************************************************)
EXTENDS KCFTracker, SequenceTheorems, TLAPS

-----------------------------------------------------------------------------
(* The size of the template.                                               *)

(* A side is scaled to less than 8 pixels exactly if it is less than a     *)
(* twelfth of the larger one, but for the limit itself, and to at most 96. *)
LEMMA QuotientBound ==
  ASSUME NEW side \in Nat, NEW larger \in Nat \ {0}, side <= larger
  PROVE  \A q \in Scaled(side, larger) :
           /\ q \in 0 .. 96
           /\ 12 * side > larger => q >= 8
           /\ 12 * side < larger => q < 8
<1> DEFINE a == side * 96
           d == a \div larger
           r == a % larger
<1>1. /\ a \in Nat /\ a <= 96 * larger
      /\ 12 * side > larger => a > 8 * larger
      /\ 12 * side < larger => a < 8 * larger
      /\ side > 0 => a > 0
  OBVIOUS
<1> HIDE DEF a
<1>2. /\ d \in Int /\ r \in 0 .. larger - 1
      /\ a = larger * d + r
  BY <1>1
<1> HIDE DEF d, r
<1>3. d >= 0
  <2>1. SUFFICES ASSUME d <= -1 PROVE FALSE
    BY <1>2
  <2>2. larger * d <= larger * (-1)
    BY <1>2, <2>1
  <2> QED
    BY <1>1, <1>2, <2>2
<1>4. r = 0 /\ side > 0 => d >= 1
  <2>1. SUFFICES ASSUME r = 0, side > 0, d = 0 PROVE FALSE
    BY <1>2, <1>3
  <2> QED
    BY <1>1, <1>2, <2>1
<1>5. d <= 96
  <2>1. SUFFICES ASSUME d >= 97 PROVE FALSE
    BY <1>2
  <2>2. larger * d >= larger * 97
    BY <1>2, <2>1
  <2> QED
    BY <1>1, <1>2, <2>2
<1>6. ASSUME 12 * side > larger PROVE d >= 8 /\ (r = 0 => d >= 9)
  <2>1. ASSUME d <= 7 PROVE FALSE
    <3>1. larger * d <= larger * 7
      BY <1>2, <2>1
    <3> QED
      BY <1>1, <1>2, <1>6, <3>1
  <2>2. ASSUME r = 0, d = 8 PROVE FALSE
    BY <1>1, <1>2, <1>6, <2>2
  <2> QED
    BY <1>2, <2>1, <2>2
<1>7. ASSUME 12 * side < larger PROVE d < 8
  <2>1. SUFFICES ASSUME d >= 8 PROVE FALSE
    BY <1>2
  <2>2. larger * d >= larger * 8
    BY <1>2, <2>1
  <2> QED
    BY <1>1, <1>2, <1>7, <2>2
<1>8. Scaled(side, larger) = IF side > 0 /\ r = 0 THEN {d - 1, d} ELSE {d}
  BY DEF Scaled, a, d, r
<1> QED
  BY <1>2, <1>3, <1>4, <1>5, <1>6, <1>7, <1>8

(* A region with a template gives one of 2, 4, ... or 26 cells in both     *)
(* directions, two where the region is too thin.                           *)
TemplateSides == {8 * k : k \in 1 .. 13}
Templates == TemplateSides \X TemplateSides

LEMMA TemplateHasCells ==
  ASSUME NEW box \in Rois, HasTemplate(box), NEW t \in TemplateSizes(box)
  PROVE  /\ t \in Templates
         /\ \A i \in {1, 2} :
              /\ 12 * Padded(box)[i] > Larger(Padded(box)) => t[i] >= 16
              /\ 12 * Padded(box)[i] < Larger(Padded(box)) => t[i] = 8
<1> DEFINE w == Padded(box)[1]
           h == Padded(box)[2]
           larger == Larger(Padded(box))
<1>1. box[1] \in Nat /\ box[2] \in Nat
  BY TrackerAssumption DEF HasTemplate
<1>2. /\ w \in Nat /\ h \in Nat /\ larger \in Nat \ {0}
      /\ w <= larger /\ h <= larger
  <2>1. w = (box[1] * 5) \div 2 /\ h = (box[2] * 5) \div 2
    BY DEF Padded
  <2>2. w \in Nat /\ h \in Nat
    BY <1>1, <2>1
  <2>3. larger = (IF w >= h THEN w ELSE h) /\ larger > 0
    BY DEF HasTemplate, Larger
  <2> QED
    BY <2>2, <2>3
<1>3. PICK p \in Scaled(w, larger), q \in Scaled(h, larger) : t = <<Round(p), Round(q)>>
  BY DEF TemplateSizes
<1> HIDE DEF w, h, larger
<1>4. /\ p \in 0 .. 96 /\ (12 * w > larger => p >= 8) /\ (12 * w < larger => p < 8)
      /\ q \in 0 .. 96 /\ (12 * h > larger => q >= 8) /\ (12 * h < larger => q < 8)
  BY <1>2, <1>3, QuotientBound
<1>5. ASSUME NEW x \in 0 .. 96
      PROVE  Round(x) \in TemplateSides /\ (x >= 8 => Round(x) >= 16) /\ (x < 8 => Round(x) = 8)
  <2>1. PICK k \in 0 .. 12 : k = x \div 8
    OBVIOUS
  <2>2. Round(x) = 8 * (k + 1) /\ k + 1 \in 1 .. 13
    BY <2>1 DEF Round, CellSize
  <2>3. (x >= 8 => k >= 1) /\ (x < 8 => k = 0)
    BY <2>1
  <2> QED
    BY <2>2, <2>3 DEF TemplateSides
<1>6. t \in Templates
  BY <1>3, <1>4, <1>5 DEF Templates
<1>7. /\ (12 * w > larger => t[1] >= 16) /\ (12 * w < larger => t[1] = 8)
      /\ (12 * h > larger => t[2] >= 16) /\ (12 * h < larger => t[2] = 8)
  BY <1>3, <1>4, <1>5
<1> QED
  BY <1>6, <1>7 DEF w, h, larger

(* The map of such a template has an even number of pixels, up to 24; it   *)
(* has none where the template has two cells.                              *)
LEMMA FittingMap ==
  ASSUME NEW t \in Templates
  PROVE  /\ MapSize(t) \in Nat \X Nat /\ t \in Nat \X Nat
         /\ MapSize(t) # None /\ t # None
         /\ \A i \in {1, 2} :
              /\ MapSize(t)[i] \in Nat
              /\ MapSize(t)[i] > 0 => MapSize(t)[i] \in Sides
              /\ t[i] >= 16 => MapSize(t)[i] > 0
              /\ t[i] = 8 => MapSize(t)[i] = 0
              /\ t[i] >= 16 \/ t[i] = 8
<1>1. PICK j \in 1 .. 13, k \in 1 .. 13 : t = <<8 * j, 8 * k>>
  BY DEF Templates, TemplateSides
<1>2. MapSize(t) = <<2 * (j - 1), 2 * (k - 1)>>
  BY <1>1 DEF MapSize, CellSize
<1>3. \A n \in 1 .. 13 : 2 * (n - 1) > 0 => 2 * (n - 1) \in Sides
  <2> SUFFICES ASSUME NEW n \in 1 .. 13, 2 * (n - 1) > 0 PROVE 2 * (n - 1) \in Sides
    OBVIOUS
  <2>1. n - 1 \in 1 .. 12
    OBVIOUS
  <2> QED
    BY <2>1 DEF Sides
<1> QED
  BY <1>1, <1>2, <1>3 DEF None

(* Too thin for a patch with pixels in both directions, or no region.      *)
Slim(box) == \E i \in {1, 2} : 12 * Padded(box)[i] <= Larger(Padded(box))

(* Only such a region has a map without pixels or no template at all.      *)
LEMMA OnlySlimFails ==
  ASSUME NEW box \in Rois
  PROVE  /\ ~HasTemplate(box) => Slim(box)
         /\ HasTemplate(box) =>
              \A t \in TemplateSizes(box) : NoPixels(MapSize(t)) => Slim(box)
<1> DEFINE w == Padded(box)[1]
           h == Padded(box)[2]
           larger == Larger(Padded(box))
<1>1. /\ w \in Int /\ h \in Int /\ larger = IF w >= h THEN w ELSE h
      /\ box[1] < 0 => w < 0
      /\ box[2] < 0 => h < 0
  <2>1. box[1] \in Int /\ box[2] \in Int
    BY TrackerAssumption
  <2>2. w = (box[1] * 5) \div 2 /\ h = (box[2] * 5) \div 2
    BY DEF Padded
  <2> QED
    BY <2>1, <2>2 DEF Larger
<1>2. ASSUME ~HasTemplate(box) PROVE Slim(box)
  <2>1. w <= 0 \/ h <= 0
    <3>1. box[1] < 0 \/ box[2] < 0 \/ larger <= 0
      BY <1>1, <1>2, TrackerAssumption DEF HasTemplate
    <3>2. box[1] \in Int /\ box[2] \in Int
      BY TrackerAssumption
    <3>3. (box[1] < 0 => w < 0) /\ (box[2] < 0 => h < 0)
      <4>1. w = (box[1] * 5) \div 2 /\ h = (box[2] * 5) \div 2
        BY DEF Padded
      <4> QED
        BY <3>2, <4>1
    <3> QED
      BY <1>1, <3>1, <3>3
  <2>2. 12 * w <= larger \/ 12 * h <= larger
    BY <1>1, <2>1
  <2> QED
    BY <2>2 DEF Slim
<1>3. ASSUME HasTemplate(box), NEW t \in TemplateSizes(box), NoPixels(MapSize(t))
      PROVE  Slim(box)
  <2>1. t \in Templates /\ \A i \in {1, 2} : 12 * Padded(box)[i] > larger => t[i] >= 16
    BY <1>3, TemplateHasCells
  <2>2. PICK i \in {1, 2} : MapSize(t)[i] = 0
    BY <1>3 DEF NoPixels
  <2>3. ~(t[i] >= 16)
    BY <2>1, <2>2, FittingMap
  <2>4. ~(12 * Padded(box)[i] > larger) /\ Padded(box)[i] \in Int /\ larger \in Int
    BY <1>1, <2>1, <2>3
  <2> QED
    BY <2>4 DEF Slim
<1> QED
  BY <1>2, <1>3

-----------------------------------------------------------------------------
(* The steps of the correlation.                                           *)

\* How many kernels come before step i.
Done == <<0, 0, 0, 0, 1, 1, 1, 2, 2, 3, 3, 4, 4, 5, 5, 6, 6, 7, 7, 8, 8, 8, 8>>

LEMMA StepsInOrder ==
  /\ Len(Steps) = 23 /\ DOMAIN Steps = 1 .. 23
  /\ \A i \in 1 .. 23 :
       /\ Steps[i].do \in {"buffer", "inputs", "plan", "kernel", "enqueue", "keys"}
       /\ Steps[i].do = "kernel" =>
            /\ i < 23 /\ Done[i] \in 0 .. 7
            /\ Steps[i].name = Stages[Done[i] + 1] /\ Done[i + 1] = Done[i] + 1
       /\ Steps[i].do # "kernel" /\ i < 23 => Done[i + 1] = Done[i]
       /\ Steps[i].do = "enqueue" => Done[i] = 8
       /\ Steps[i].do = "keys" <=> i = 23
<1> DEFINE F == ForwardSteps
           B == InverseSteps
<1>1. /\ F[1].do = "buffer" /\ F[2].do = "inputs" /\ F[3].do = "plan" /\ F[4].do = "kernel"
      /\ F[5].do = "plan" /\ F[6].do = "buffer" /\ F[7].do = "kernel" /\ F[8].do = "buffer"
      /\ F[9].do = "kernel" /\ F[10].do = "buffer" /\ F[11].do = "kernel"
  BY DEF ForwardSteps, Buffer, PlanOf, Kernel, Inputs
<1>2. /\ F[4].name = "H_F_0" /\ F[7].name = "V_F_0"
      /\ F[9].name = "H_F_1" /\ F[11].name = "V_F_1"
  BY DEF ForwardSteps, Kernel
<1>3. /\ B[1].do = "buffer" /\ B[2].do = "kernel" /\ B[3].do = "buffer" /\ B[4].do = "kernel"
      /\ B[5].do = "buffer" /\ B[6].do = "kernel" /\ B[7].do = "buffer" /\ B[8].do = "kernel"
      /\ B[9].do = "enqueue" /\ B[10].do = "buffer" /\ B[11].do = "buffer" /\ B[12].do = "keys"
  BY DEF InverseSteps, Buffer, Kernel, Finally
<1>4. /\ B[2].name = "MulSpec" /\ B[4].name = "H_I"
      /\ B[6].name = "V_I" /\ B[8].name = "ImageSum"
  BY DEF InverseSteps, Kernel
<1>5. F \in Seq(Range(F)) /\ Len(F) = 11
  BY DEF ForwardSteps, Range
<1>6. B \in Seq(Range(B)) /\ Len(B) = 12
  BY DEF InverseSteps, Range
<1> HIDE DEF F, B
<1>7. /\ Len(Steps) = 23 /\ DOMAIN Steps = 1 .. 23
      /\ \A i \in 1 .. 23 : Steps[i] = IF i <= 11 THEN F[i] ELSE B[i - 11]
  <2> DEFINE S == Range(F) \cup Range(B)
  <2>1. F \in Seq(S) /\ B \in Seq(S)
    BY <1>5, <1>6
  <2> HIDE DEF S
  <2>2. /\ F \o B \in Seq(S) /\ Len(F \o B) = Len(F) + Len(B)
        /\ \A i \in 1 .. Len(F) + Len(B) :
             (F \o B)[i] = IF i <= Len(F) THEN F[i] ELSE B[i - Len(F)]
    BY <2>1, ConcatProperties, Zenon
  <2>3. Steps = F \o B
    BY DEF Steps, F, B
  <2>4. /\ Len(Steps) = Len(F) + Len(B)
        /\ \A i \in 1 .. Len(F) + Len(B) :
             Steps[i] = IF i <= Len(F) THEN F[i] ELSE B[i - Len(F)]
    BY <2>2, <2>3, Zenon
  <2>5. Len(F) = 11 /\ Len(B) = 12
    BY <1>5, <1>6
  <2>6. DOMAIN Steps = 1 .. Len(Steps)
    BY <2>2, <2>3, LenProperties, Zenon
  <2>7. Len(Steps) = 23 /\ \A i \in 1 .. 23 : Steps[i] = IF i <= 11 THEN F[i] ELSE B[i - 11]
    BY <2>4, <2>5
  <2>8. DOMAIN Steps = 1 .. 23
    BY <2>6, <2>7, Zenon
  <2> QED
    BY <2>7, <2>8, Zenon
<1>8. \A i \in 1 .. 23 : 
       /\ Steps[i].do \in {"buffer", "inputs", "plan", "kernel", "enqueue", "keys"}
       /\ Steps[i].do = "kernel" <=> i \in {4, 7, 9, 11, 13, 15, 17, 19}
       /\ Steps[i].do = "enqueue" <=> i = 20
       /\ Steps[i].do = "keys" <=> i = 23
  BY <1>1, <1>3, <1>7
<1>9. /\ Steps[4].name = "H_F_0" /\ Steps[7].name = "V_F_0"
      /\ Steps[9].name = "H_F_1" /\ Steps[11].name = "V_F_1"
      /\ Steps[13].name = "MulSpec" /\ Steps[15].name = "H_I"
      /\ Steps[17].name = "V_I" /\ Steps[19].name = "ImageSum"
  BY <1>2, <1>4, <1>7
<1> QED
  BY <1>7, <1>8, <1>9 DEF Stages, Done

LEMMA StepAt ==
  /\ Steps[1] = Buffer("H_F_0", "area") /\ Steps[2] = Inputs
  /\ Steps[3] = PlanOf("X") /\ Steps[4] = Kernel("H_F_0", {"Surf0", "H_F_0"})
  /\ Steps[5] = PlanOf("Y") /\ Steps[6] = Buffer("V_F_0", "area")
  /\ Steps[7] = Kernel("V_F_0", {"H_F_0", "V_F_0"}) /\ Steps[8] = Buffer("H_F_1", "area")
  /\ Steps[9] = Kernel("H_F_1", {"Surf1", "H_F_1"}) /\ Steps[10] = Buffer("V_F_1", "area")
  /\ Steps[11] = Kernel("V_F_1", {"H_F_1", "V_F_1"}) /\ Steps[12] = Buffer("MulSpectrum", "area")
  /\ Steps[13] = Kernel("MulSpec", {"V_F_0", "V_F_1", "MulSpectrum"})
  /\ Steps[14] = Buffer("H_V_1", "area") /\ Steps[15] = Kernel("H_I", {"MulSpectrum", "H_V_1"})
  /\ Steps[16] = Buffer("V_V_1", "area") /\ Steps[17] = Kernel("V_I", {"H_V_1", "V_V_1"})
  /\ Steps[18] = Buffer("InvSum", "area")
  /\ Steps[19] = Kernel("ImageSum", {"V_V_1", "InvSum"})
  /\ Steps[20] = Finally("enqueue") /\ Steps[21] = Buffer("SrcImageSum", "area")
  /\ Steps[22] = Buffer("Final", "pitch") /\ Steps[23] = Finally("keys")
<1> DEFINE F == ForwardSteps
           B == InverseSteps
<1>1. /\ F[1] = Buffer("H_F_0", "area") /\ F[2] = Inputs
      /\ F[3] = PlanOf("X") /\ F[4] = Kernel("H_F_0", {"Surf0", "H_F_0"})
      /\ F[5] = PlanOf("Y") /\ F[6] = Buffer("V_F_0", "area")
      /\ F[7] = Kernel("V_F_0", {"H_F_0", "V_F_0"}) /\ F[8] = Buffer("H_F_1", "area")
      /\ F[9] = Kernel("H_F_1", {"Surf1", "H_F_1"}) /\ F[10] = Buffer("V_F_1", "area")
      /\ F[11] = Kernel("V_F_1", {"H_F_1", "V_F_1"})
  BY DEF ForwardSteps
<1>2. /\ B[1] = Buffer("MulSpectrum", "area")
      /\ B[2] = Kernel("MulSpec", {"V_F_0", "V_F_1", "MulSpectrum"})
      /\ B[3] = Buffer("H_V_1", "area") /\ B[4] = Kernel("H_I", {"MulSpectrum", "H_V_1"})
      /\ B[5] = Buffer("V_V_1", "area") /\ B[6] = Kernel("V_I", {"H_V_1", "V_V_1"})
      /\ B[7] = Buffer("InvSum", "area")
      /\ B[8] = Kernel("ImageSum", {"V_V_1", "InvSum"})
      /\ B[9] = Finally("enqueue") /\ B[10] = Buffer("SrcImageSum", "area")
      /\ B[11] = Buffer("Final", "pitch") /\ B[12] = Finally("keys")
  BY DEF InverseSteps
<1>3. F \in Seq(Range(F)) /\ Len(F) = 11
  BY DEF ForwardSteps, Range
<1>4. B \in Seq(Range(B)) /\ Len(B) = 12
  BY DEF InverseSteps, Range
<1> HIDE DEF F, B
<1>5. \A i \in 1 .. 23 : Steps[i] = IF i <= 11 THEN F[i] ELSE B[i - 11]
  <2> DEFINE S == Range(F) \cup Range(B)
  <2>1. F \in Seq(S) /\ B \in Seq(S)
    BY <1>3, <1>4
  <2> HIDE DEF S
  <2>2. \A i \in 1 .. Len(F) + Len(B) :
          (F \o B)[i] = IF i <= Len(F) THEN F[i] ELSE B[i - Len(F)]
    BY <2>1, ConcatProperties, Zenon
  <2>3. Steps = F \o B
    BY DEF Steps, F, B
  <2>4. \A i \in 1 .. Len(F) + Len(B) :
          Steps[i] = IF i <= Len(F) THEN F[i] ELSE B[i - Len(F)]
    BY <2>2, <2>3, Zenon
  <2>5. Len(F) = 11 /\ Len(B) = 12
    BY <1>3, <1>4
  <2> QED
    BY <2>4, <2>5
<1> QED
  BY <1>1, <1>2, <1>5

\* Step i has made buffer b.
Makes(i, b) ==
  \/ Steps[i].do = "buffer" /\ Steps[i].by = "area" /\ Steps[i].name = b
  \/ Steps[i].do = "inputs" /\ b \in {"Surf0", "Surf1"}

LEMMA StepsMake ==
  /\ \A i \in 1 .. 23 :
       /\ Steps[i].do = "buffer" => /\ Steps[i].by \in {"area", "pitch"}
                                    /\ Steps[i].by = "pitch" <=> Steps[i].name = "Final"
       /\ Steps[i].do = "plan" => Steps[i].name \in {"X", "Y"} /\ Steps[i].by = Steps[i].name
       /\ Steps[i].do = "kernel" =>
            /\ Steps[i].name \in Range(Stages) /\ Steps[i].uses # {}
            /\ \A b \in Steps[i].uses : \E j \in 1 .. (i - 1) : Makes(j, b)
       /\ Steps[i].do = "enqueue" <=> i = 20
       /\ Steps[i].do = "plan" /\ Steps[i].name = "X" <=> i = 3
       /\ Steps[i].do = "plan" /\ Steps[i].name = "Y" <=> i = 5
       /\ Steps[i].do = "buffer" /\ Steps[i].name = "Final" <=> i = 22
       /\ Steps[i].do = "kernel" => i > 3 /\ (i = 4 \/ i > 5)
  /\ \A k \in Range(Stages) : \E i \in 1 .. 19 : Steps[i].do = "kernel" /\ Steps[i].name = k
  /\ \A b \in Buffers \ {"Final"} : \E i \in 1 .. 22 : Makes(i, b)
<1>a. /\ \A n, b : LET r == Buffer(n, b) IN r.do = "buffer" /\ r.name = n /\ r.by = b
      /\ \A n, u : LET r == Kernel(n, u) IN r.do = "kernel" /\ r.name = n /\ r.uses = u
      /\ \A n : LET r == PlanOf(n) IN r.do = "plan" /\ r.name = n /\ r.by = n
      /\ Inputs.do = "inputs" /\ \A d : Finally(d).do = d
  BY DEF Buffer, Inputs, PlanOf, Kernel, Finally
<1>b. /\ \A i \in {1, 6, 8, 10, 12, 14, 16, 18, 21, 22} : Steps[i].do = "buffer"
      /\ Steps[2].do = "inputs" /\ \A i \in {3, 5} : Steps[i].do = "plan"
      /\ \A i \in {4, 7, 9, 11, 13, 15, 17, 19} : Steps[i].do = "kernel"
      /\ Steps[20].do = "enqueue" /\ Steps[23].do = "keys"
  BY <1>a, StepAt
<1>1. \A i \in 1 .. 23 :
        /\ Steps[i].do = "buffer" <=> i \in {1, 6, 8, 10, 12, 14, 16, 18, 21, 22}
        /\ Steps[i].do = "inputs" <=> i = 2
        /\ Steps[i].do = "plan" <=> i \in {3, 5}
        /\ Steps[i].do = "kernel" <=> i \in {4, 7, 9, 11, 13, 15, 17, 19}
        /\ Steps[i].do = "enqueue" <=> i = 20
  BY <1>b
<1>2. /\ Steps[1].name = "H_F_0" /\ Steps[6].name = "V_F_0" /\ Steps[8].name = "H_F_1"
      /\ Steps[10].name = "V_F_1" /\ Steps[12].name = "MulSpectrum" /\ Steps[14].name = "H_V_1"
      /\ Steps[16].name = "V_V_1" /\ Steps[18].name = "InvSum"
      /\ Steps[21].name = "SrcImageSum" /\ Steps[22].name = "Final"
      /\ \A i \in {1, 6, 8, 10, 12, 14, 16, 18, 21} : Steps[i].by = "area"
      /\ Steps[22].by = "pitch"
  BY <1>a, StepAt
<1>3. /\ Steps[4].name = "H_F_0" /\ Steps[7].name = "V_F_0" /\ Steps[9].name = "H_F_1"
      /\ Steps[11].name = "V_F_1" /\ Steps[13].name = "MulSpec" /\ Steps[15].name = "H_I"
      /\ Steps[17].name = "V_I" /\ Steps[19].name = "ImageSum"
      /\ Steps[3].name = "X" /\ Steps[3].by = "X" /\ Steps[5].name = "Y" /\ Steps[5].by = "Y"
  BY <1>a, StepAt
<1>4. /\ Steps[4].uses = {"Surf0", "H_F_0"} /\ Steps[7].uses = {"H_F_0", "V_F_0"}
      /\ Steps[9].uses = {"Surf1", "H_F_1"} /\ Steps[11].uses = {"H_F_1", "V_F_1"}
      /\ Steps[13].uses = {"V_F_0", "V_F_1", "MulSpectrum"}
      /\ Steps[15].uses = {"MulSpectrum", "H_V_1"} /\ Steps[17].uses = {"H_V_1", "V_V_1"}
      /\ Steps[19].uses = {"V_V_1", "InvSum"}
  BY <1>a, StepAt
<1>5. /\ Makes(1, "H_F_0") /\ Makes(2, "Surf0") /\ Makes(2, "Surf1") /\ Makes(6, "V_F_0")
      /\ Makes(8, "H_F_1") /\ Makes(10, "V_F_1") /\ Makes(12, "MulSpectrum")
      /\ Makes(14, "H_V_1") /\ Makes(16, "V_V_1") /\ Makes(18, "InvSum")
      /\ Makes(21, "SrcImageSum")
  BY <1>1, <1>2 DEF Makes
<1>c. Range(Stages) = {"H_F_0", "V_F_0", "H_F_1", "V_F_1", "MulSpec", "H_I", "V_I", "ImageSum"}
  BY DEF Range, Stages
<1>6. ASSUME NEW i \in {4, 7, 9, 11, 13, 15, 17, 19}
      PROVE  /\ Steps[i].name \in Range(Stages) /\ Steps[i].uses # {}
             /\ \A b \in Steps[i].uses : \E j \in 1 .. (i - 1) : Makes(j, b)
  <2>1. CASE i \in {4, 7, 9, 11}
    BY <1>3, <1>4, <1>5, <1>c, <2>1
  <2>2. CASE i \in {13, 15, 17, 19}
    BY <1>3, <1>4, <1>5, <1>c, <2>2
  <2> QED
    BY <2>1, <2>2
<1>7. \A i \in 1 .. 23 : Steps[i].do = "buffer" =>
        Steps[i].by \in {"area", "pitch"} /\ (Steps[i].by = "pitch" <=> Steps[i].name = "Final")
  BY <1>1, <1>2
<1>8. \A k \in Range(Stages) : \E i \in 1 .. 19 : Steps[i].do = "kernel" /\ Steps[i].name = k
  BY <1>1, <1>3, <1>c
<1>9. \A b \in Buffers \ {"Final"} : \E i \in 1 .. 22 : Makes(i, b)
  <2> TAKE b \in Buffers \ {"Final"}
  <2>1. CASE b \in {"Surf0", "Surf1"}
    BY <1>5, <2>1
  <2>2. CASE b \notin {"Surf0", "Surf1"}
    <3>1. PICK i \in 1 .. 23 : Steps[i].do = "buffer" /\ Steps[i].name = b
      BY <2>2, StepsInOrder DEF Buffers
    <3>2. Steps[i].by = "area" /\ i # 23
      BY <1>1, <1>7, <3>1
    <3> QED
      BY <3>1, <3>2 DEF Makes
  <2> QED
    BY <2>1, <2>2
<1>10. \A i \in 1 .. 23 :
         /\ Steps[i].do = "plan" /\ Steps[i].name = "X" <=> i = 3
         /\ Steps[i].do = "plan" /\ Steps[i].name = "Y" <=> i = 5
         /\ Steps[i].do = "buffer" /\ Steps[i].name = "Final" <=> i = 22
  BY <1>1, <1>2, <1>3
<1> QED
  BY <1>1, <1>3, <1>6, <1>7, <1>8, <1>9, <1>10

\* A stage is found where it stands.
LEMMA Places == \A i \in 1 .. 8 : Place(Stages[i]) = i
<1>1. DOMAIN Stages = 1 .. 8 /\ \A i, j \in 1 .. 8 : Stages[i] = Stages[j] => i = j
  BY DEF Stages
<1> QED
  BY <1>1 DEF Place

-----------------------------------------------------------------------------
(* The inductive invariant.                                                *)

Matrices == {"hann", "_tmpl", "_prob", "_alphaf"}

\* The template is one of the region; the program ends without a failure of
\* the device only for a region that is too thin.
Region ==
  /\ pc # "crashed" => \/ roi \in Rois /\ HasTemplate(roi) /\ tmpl \in TemplateSizes(roi)
                       \/ pc = "idle" /\ shapes["_tmpl"] = None
  /\ pc = "crashed" /\ faults = 0 => Slim(roi)

\* The template changes in init, the surfaces and the map follow it in
\* refreshKernels, the matrices in ApplyHann.
Sizes ==
  /\ tmpl \in Templates \/ (pc \in {"idle", "crashed"} /\ shapes["_tmpl"] = None)
  /\ \/ template = None
     \/ template \in Templates /\ hog = [map |-> MapSize(template), surfaces |-> template]
  /\ pc \in {"indices", "frame", "extract", "hann", "correlate"} => template = tmpl
  /\ pc = "correlate" => patch = MapSize(tmpl)
  /\ pc = "correlate" \/ op # "init" => shapes["_tmpl"] # None
  /\ (op # "init" \/ pc \in {"idle", "correlate"}) /\ shapes["_tmpl"] # None =>
       template = tmpl /\ shapes = [m \in Matrices |-> MapSize(tmpl)]

\* Between the change of size and the renewal of the indices every sampler is
\* dead, after it only those of the frames that were left behind.
Indices ==
  /\ stale \subseteq Pooled
  /\ pc = "indices" => \A s \in Pooled : pool[s].sampler = "destroyed"
  /\ pc # "indices" => \A s \in Pooled : pool[s] = Live <=> s \notin stale
  /\ pc = "extract" => surf \in Pooled

\* The first n kernels have been created, and each of them and its
\* synchronization was added in order or refused.
Reached(n) ==
  /\ kernels = {Stages[i] : i \in 1 .. n}
  /\ \A i, j \in DOMAIN task : i < j => task[i] < task[j]
  /\ Range(task) = (1 .. 2 * n) \ refused
  /\ refused \subseteq 1 .. 2 * n

\* They are not less than the kernels that were passed in this correlation.
Task == \E n \in 0 .. 8 : Reached(n) /\ (pc = "correlate" => Done[step] <= n)

IInv == TypeOK /\ Region /\ Sizes /\ Indices /\ Task

LEMMA InitIInv == Init => IInv
<1> SUFFICES ASSUME Init PROVE IInv
  OBVIOUS
<1>1. TypeOK
  <2>1. surf \in Surfaces /\ faults \in 0 .. MaxFaults
    BY TrackerAssumption DEF Init
  <2>2. shapes \in [Matrices -> Int \X Int]
    BY DEF Init, Matrices, None
  <2>3. pool \in [Surfaces -> [sampler : {"none", "live", "destroyed"},
                              surface : {"none", "live", "destroyed"}]]
    BY DEF Init
  <2>4. task \in Seq(Pieces) /\ kernels \subseteq Range(Stages) /\ refused \subseteq Pieces
    BY DEF Init
  <2>5. /\ tmpl \in Nat \X Nat /\ template \in Int \X Int /\ patch \in Nat \X Nat
        /\ hog \in [map : Int \X Int, surfaces : Int \X Int]
    BY DEF Init, None
  <2>6. gauss \in [Buffers -> Nat] /\ DOMAIN plans = {"X", "Y"}
        /\ key \in [area : Nat, X : Nat, Y : Nat]
    BY DEF Init
  <2>7. roi \in Rois \cup {None} /\ hogTask \in -1 .. 5
    BY DEF Init, NoTask
  <2>8. stale \subseteq Surfaces /\ torn \subseteq {"area", "X", "Y"}
        /\ lost \subseteq {"X", "Y", "Final"}
    BY DEF Init
  <2>9. /\ pc = "idle" /\ op \in {"init", "detect", "train"}
        /\ step \in 0 .. Len(Steps)
    BY StepsInOrder DEF Init
  <2> QED
    BY <2>1, <2>2, <2>3, <2>4, <2>5, <2>6, <2>7, <2>8, <2>9, Zenon DEF TypeOK, Matrices
<1>2. Sizes /\ Region
  BY DEF Init, Sizes, Region
<1>3. Indices
  BY DEF Init, Indices, Pooled
<1>4. Task
  <2>1. Reached(0)
    <3>1. DOMAIN task = {} /\ Range(task) = {}
      BY DEF Init, Range
    <3>2. kernels = {} /\ refused = {} /\ 1 .. 0 = {}
      BY DEF Init
    <3> QED
      BY <3>1, <3>2 DEF Reached
  <2> QED
    BY <2>1 DEF Init, Task
<1> QED
  BY <1>1, <1>2, <1>3, <1>4 DEF IInv

\* What a step of getFeatures leaves alone, and where it goes.
LEMMA FeatureFrame ==
  ASSUME getFeatures
  PROVE  /\ UNCHANGED <<op, roi, surf, tmpl, correlation, torn, lost, refused>>
         /\ pc \in {"resize", "indices", "frame", "extract", "hann"}
         /\ \/ pc' \in {"indices", "frame", "extract", "hann", "crashed"} /\ step' = step
            \/ pc' = "correlate" /\ step' = 1
         /\ faults' = faults \/ (faults < MaxFaults /\ faults' = faults + 1)
BY DEF getFeatures, refreshKernels, refreshKernelsFails, SameSize, RefreshIndices,
   RefreshIndicesFails, CreateSampler8x8Surface, Extract, ApplyHann, Crash, Succeeds, Fails,
   Refuses, feature, history

\* What a step of the correlation leaves alone, and where it goes.
LEMMA CorrelationFrame ==
  ASSUME gpu_gaussianCorrelation
  PROVE  /\ UNCHANGED <<roi, surf, shapes, feature, stale>>
         /\ pc = "correlate"
         /\ \/ pc' = "correlate" /\ step' = step + 1 /\ op' = op /\ torn' = torn
            \/ pc' = "crashed" /\ step' = step /\ op' = op /\ torn' = torn
            \/ op = "detect" /\ pc' = "resize" /\ step' = 0 /\ op' = "train"
            \/ op # "detect" /\ pc' = "idle" /\ step' = 0 /\ op' = op
         /\ faults' = faults \/ (faults < MaxFaults /\ faults' = faults + 1)
<1>1. CASE CreateBuffer
  BY <1>1 DEF CreateBuffer, At, Continue, CutShort, Advance, Return, Crash, Succeeds, Fails, Refuses
<1>2. CASE FinalExpImageSum
  BY <1>2 DEF FinalExpImageSum, At, Continue, Advance, Succeeds, Fails
<1>3. CASE CreateInputs
  BY <1>3 DEF CreateInputs, At, Continue, CutShort, Advance, Return, Crash, Succeeds, Fails, Refuses
<1>4. CASE MakePlan
  BY <1>4 DEF MakePlan, At, Continue, CutShort, Advance, Return, Crash, Succeeds, Fails
<1>5. CASE SetKernel
  BY <1>5 DEF SetKernel, At, Continue, CutShort, Advance, Return, Crash, Succeeds, Fails
<1>6. CASE Enqueue
  BY <1>6 DEF Enqueue, At, Continue, CutShort, Advance, Return, Succeeds, Fails
<1>7. CASE KeepKeys
  BY <1>7 DEF KeepKeys, At, Return, Succeeds
<1> QED
  BY <1>1, <1>2, <1>3, <1>4, <1>5, <1>6, <1>7 DEF gpu_gaussianCorrelation

LEMMA RegionStep == IInv /\ [Next]_vars => Region'
<1> SUFFICES ASSUME TypeOK, Region, Sizes, [Next]_vars PROVE Region'
  BY DEF IInv
<1>0. faults \in Nat
  BY TrackerAssumption DEF TypeOK
<1>1. ASSUME NEW box \in Rois, NEW s \in Surfaces, init(box, s) PROVE Region'
  BY <1>1, OnlySlimFails DEF Region, init
<1>2. ASSUME NEW s \in Surfaces, update(s) PROVE Region'
  BY <1>2 DEF Region, update, feature
<1>3. CASE getFeatures
  <2>1. /\ UNCHANGED <<roi, tmpl>> /\ pc \notin {"idle", "crashed"} /\ pc' # "idle"
        /\ faults' = faults \/ faults' = faults + 1
    BY <1>3, FeatureFrame
  <2>2. roi \in Rois /\ HasTemplate(roi) /\ tmpl \in TemplateSizes(roi)
    BY <2>1 DEF Region
  <2>3. ASSUME pc' = "crashed", faults' = 0 PROVE Slim(roi)
    <3>1. faults' = faults
      BY <1>0, <2>1, <2>3
    <3>2. refreshKernelsFails
      BY <1>0, <1>3, <2>3, <3>1 DEF getFeatures, refreshKernels, SameSize, RefreshIndices,
         RefreshIndicesFails, CreateSampler8x8Surface, Extract, ApplyHann, Crash, Fails
    <3>3. NoPixels(MapSize(tmpl))
      BY <1>0, <3>1, <3>2 DEF refreshKernelsFails, Refuses, Fails
    <3> QED
      BY <2>2, <3>3, OnlySlimFails
  <2> QED
    BY <2>1, <2>2, <2>3 DEF Region, Slim
<1>4. CASE gpu_gaussianCorrelation
  <2>1. /\ UNCHANGED <<roi, tmpl, shapes, patch>> /\ pc = "correlate"
        /\ faults' = faults \/ faults' = faults + 1
    BY <1>4, CorrelationFrame DEF feature
  <2>2. roi \in Rois /\ HasTemplate(roi) /\ tmpl \in TemplateSizes(roi) /\ patch = MapSize(tmpl)
    BY <2>1 DEF Region, Sizes
  <2>3. ASSUME pc' = "crashed", faults' = 0 PROVE Slim(roi)
    <3>1. faults' = faults
      BY <1>0, <2>1, <2>3
    <3>2. ~Fails
      BY <1>0, <3>1 DEF Fails
    <3>3. MakePlan
      BY <1>4, <2>1, <2>3, <3>2 DEF gpu_gaussianCorrelation, CreateBuffer, FinalExpImageSum,
         CreateInputs, SetKernel, Enqueue, KeepKeys, At, Continue, CutShort, Advance, Return,
         Crash
    <3>4. NoPixels(patch)
      BY <2>1, <2>3, <3>2, <3>3 DEF MakePlan, Continue, Advance, Crash, NoPixels
    <3> QED
      BY <2>2, <3>4, OnlySlimFails
  <2> QED
    BY <2>1, <2>2, <2>3 DEF Region, Slim
<1>5. CASE UNCHANGED vars
  BY <1>5 DEF Region, vars, feature, Slim
<1> QED
  BY <1>1, <1>2, <1>3, <1>4, <1>5 DEF Next

LEMMA SizesStep == IInv /\ [Next]_vars => Sizes'
<1> SUFFICES ASSUME TypeOK, Sizes, [Next]_vars PROVE Sizes'
  BY DEF IInv
<1>1. ASSUME NEW box \in Rois, NEW s \in Surfaces, init(box, s) PROVE Sizes'
  <2>1. CASE HasTemplate(box) /\ tmpl' \in TemplateSizes(box) /\ pc' = "resize"
    <3>1. tmpl' \in Templates
      BY <2>1, TemplateHasCells
    <3> QED
      BY <1>1, <2>1, <3>1 DEF Sizes, init
  <2>2. CASE pc' = "crashed" /\ tmpl' = tmpl
    BY <1>1, <2>2 DEF Sizes, init
  <2> QED
    BY <1>1, <2>1, <2>2 DEF init
<1>2. ASSUME NEW s \in Surfaces, update(s) PROVE Sizes'
  BY <1>2 DEF Sizes, update, feature
<1>3. CASE refreshKernels
  <2>1. tmpl \in Templates
    BY <1>3 DEF Sizes, refreshKernels
  <2>2. op = "init"
    BY <1>3 DEF Sizes, refreshKernels
  <2> QED
    BY <1>3, <2>1, <2>2 DEF Sizes, refreshKernels
<1>4. CASE refreshKernelsFails
  BY <1>4 DEF Sizes, refreshKernelsFails, feature
<1>5. CASE SameSize
  BY <1>5 DEF Sizes, SameSize, feature
<1>6. CASE RefreshIndices
  BY <1>6 DEF Sizes, RefreshIndices
<1>7. CASE RefreshIndicesFails
  BY <1>7 DEF Sizes, RefreshIndicesFails
<1>8. CASE CreateSampler8x8Surface
  BY <1>8 DEF Sizes, CreateSampler8x8Surface
<1>9. CASE Extract
  BY <1>9 DEF Sizes, Extract, Crash
<1>10. CASE ApplyHann
  <2>1. /\ tmpl \in Templates /\ template = tmpl
        /\ hog.map = MapSize(tmpl) /\ MapSize(tmpl) # None
    BY <1>10, FittingMap DEF Sizes, ApplyHann
  <2>2. /\ patch' = MapSize(tmpl) /\ pc' = "correlate" /\ op' = op
        /\ tmpl' = tmpl /\ template' = template /\ hog' = hog
    BY <1>10, <2>1 DEF ApplyHann
  <2>3. shapes' = [m \in Matrices |-> MapSize(tmpl)]
    BY <1>10, <2>1 DEF Sizes, ApplyHann, HannSize, TypeOK, Matrices
  <2> QED
    BY <2>1, <2>2, <2>3 DEF Sizes, Matrices
<1>11. CASE gpu_gaussianCorrelation
  <2>1. pc = "correlate" /\ UNCHANGED <<tmpl, template, hog, patch, shapes>>
    BY <1>11, CorrelationFrame DEF feature
  <2>2. \/ pc' = pc /\ op' = op
        \/ pc' = "crashed" /\ op' = op
        \/ op = "detect" /\ pc' = "resize" /\ op' = "train"
        \/ op # "detect" /\ pc' = "idle" /\ op' = op
    BY <1>11, CorrelationFrame
  <2> QED
    BY <2>1, <2>2 DEF Sizes
<1>12. CASE UNCHANGED vars
  BY <1>12 DEF Sizes, vars, feature
<1> QED
  BY <1>1, <1>2, <1>3, <1>4, <1>5, <1>6, <1>7, <1>8, <1>9, <1>10, <1>11, <1>12
     DEF Next, getFeatures

LEMMA IndicesStep == IInv /\ [Next]_vars => Indices'
<1> SUFFICES ASSUME TypeOK, Indices, [Next]_vars PROVE Indices'
  BY DEF IInv
<1>0. /\ DOMAIN pool = Surfaces /\ surf \in Surfaces
      /\ \A s \in Surfaces : pool[s] \in [sampler : {"none", "live", "destroyed"},
                                          surface : {"none", "live", "destroyed"}]
  BY DEF TypeOK
<1>1. ASSUME NEW box \in Rois, NEW s \in Surfaces, init(box, s) PROVE Indices'
  BY <1>1 DEF Indices, init, Pooled, history
<1>2. ASSUME NEW s \in Surfaces, update(s) PROVE Indices'
  BY <1>2 DEF Indices, update, feature, Pooled, history
<1>3. CASE refreshKernels
  <2>1. \A s \in Surfaces :
          /\ pool[s].sampler = "none" => pool'[s] = pool[s]
          /\ pool[s].sampler # "none" => pool'[s].sampler = "destroyed"
    BY <1>0, <1>3 DEF refreshKernels
  <2>2. Pooled' = Pooled
    BY <2>1 DEF Pooled
  <2> QED
    BY <1>3, <2>1, <2>2 DEF Indices, refreshKernels, Pooled, history
<1>4. CASE refreshKernelsFails
  BY <1>4 DEF Indices, refreshKernelsFails, feature, Pooled, history
<1>5. CASE SameSize
  BY <1>5 DEF Indices, SameSize, feature, Pooled, history
<1>6. CASE RefreshIndices
  <2>1. \A s \in Surfaces :
          pool'[s] = IF pool[s].sampler # "none" THEN Live ELSE pool[s]
    BY <1>6 DEF RefreshIndices, Pooled
  <2> QED
    BY <1>6, <2>1 DEF Indices, RefreshIndices, Pooled
<1>7. CASE RefreshIndicesFails
  <2>1. PICK bad \in Pooled :
          /\ \A s \in Surfaces :
               pool'[s] = IF s \in Pooled /\ s > bad THEN Live
                          ELSE IF s = bad THEN [sampler |-> "destroyed", surface |-> "destroyed"]
                          ELSE pool[s]
          /\ stale' = {s \in Pooled : s <= bad}
    BY <1>7 DEF RefreshIndicesFails
  <2>2. \A s \in Surfaces : s \in Nat
    BY TrackerAssumption
  <2>3. bad \in Surfaces
    BY DEF Pooled
  <2>4. ASSUME NEW s \in Surfaces
        PROVE  /\ s \in Pooled /\ s > bad => pool'[s] = Live
               /\ s \in Pooled /\ ~(s > bad) => pool'[s].sampler = "destroyed"
               /\ s \notin Pooled => pool'[s] = pool[s]
    BY <1>7, <2>1, <2>4 DEF Indices, RefreshIndicesFails
  <2>5. Pooled' = Pooled
    BY <2>4 DEF Pooled, Live
  <2>6. \A s \in Pooled : s \in Surfaces /\ (s > bad <=> ~(s <= bad))
    BY <2>2, <2>3 DEF Pooled
  <2>7. \A s \in Pooled : pool'[s] = Live <=> s \notin stale'
    BY <2>1, <2>4, <2>6 DEF Live
  <2> QED
    BY <1>7, <2>1, <2>5, <2>7 DEF Indices, RefreshIndicesFails
<1>8. CASE CreateSampler8x8Surface
  <2>1. CASE pool' = pool /\ (surf \in Pooled \/ pc' = "hann")
    BY <1>8, <2>1 DEF Indices, CreateSampler8x8Surface, Pooled, history
  <2>2. CASE surf \notin Pooled /\ pool' = [pool EXCEPT ![surf] = Live] /\ pc' = "extract"
    <3>1. pool'[surf] = Live /\ \A s \in Surfaces \ {surf} : pool'[s] = pool[s]
      BY <1>0, <2>2
    <3>2. Pooled' = Pooled \cup {surf}
      BY <1>0, <3>1 DEF Pooled, Live
    <3>3. stale' = stale /\ surf' = surf /\ pc # "indices"
      BY <1>8 DEF CreateSampler8x8Surface, history
    <3>4. \A s \in Pooled' : pool'[s] = Live <=> s \notin stale
      BY <1>0, <2>2, <3>1, <3>2, <3>3 DEF Indices, Pooled
    <3> QED
      BY <2>2, <3>2, <3>3, <3>4 DEF Indices
  <2> QED
    BY <1>8, <2>1, <2>2 DEF CreateSampler8x8Surface
<1>9. CASE Extract
  BY <1>9 DEF Indices, Extract, Crash, Pooled, history
<1>10. CASE ApplyHann
  BY <1>10 DEF Indices, ApplyHann, Pooled, history
<1>11. CASE gpu_gaussianCorrelation
  <2>1. pc = "correlate" /\ pc' \in {"correlate", "crashed", "resize", "idle"}
        /\ UNCHANGED <<pool, surf, stale>>
    BY <1>11, CorrelationFrame DEF feature
  <2> QED
    BY <2>1 DEF Indices, Pooled
<1>12. CASE UNCHANGED vars
  BY <1>12 DEF Indices, vars, feature, Pooled, history
<1> QED
  BY <1>1, <1>2, <1>3, <1>4, <1>5, <1>6, <1>7, <1>8, <1>9, <1>10, <1>11, <1>12
     DEF Next, getFeatures


-----------------------------------------------------------------------------
(* The task.                                                               *)

Increasing(s) == \A i, j \in DOMAIN s : i < j => s[i] < s[j]

\* A later piece is added at the end.
LEMMA AppendPiece ==
  ASSUME NEW s \in Seq(Pieces), Increasing(s), NEW p \in Pieces, \A q \in Range(s) : q < p
  PROVE  /\ Append(s, p) \in Seq(Pieces) /\ Increasing(Append(s, p))
         /\ Range(Append(s, p)) = Range(s) \cup {p}
<1> DEFINE a == Append(s, p)
           n == Len(s)
<1>1. n \in Nat /\ DOMAIN s = 1 .. n
  BY LenProperties
<1>2. /\ a \in Seq(Pieces) /\ Len(a) = n + 1
      /\ \A i \in 1 .. n : a[i] = s[i]
      /\ a[n + 1] = p
  BY AppendProperties
<1>3. DOMAIN a = 1 .. (n + 1)
  BY <1>2, LenProperties
<1> HIDE DEF a, n
<1>4. \A i \in 1 .. n : s[i] \in Range(s)
  BY <1>1 DEF Range
<1>5. Increasing(a)
  <2> SUFFICES ASSUME NEW i \in 1 .. (n + 1), NEW j \in 1 .. (n + 1), i < j
               PROVE  a[i] < a[j]
    BY <1>3 DEF Increasing
  <2>1. i \in 1 .. n
    BY <1>1
  <2>2. CASE j \in 1 .. n
    BY <1>1, <1>2, <2>1, <2>2 DEF Increasing
  <2>3. CASE j = n + 1
    BY <1>2, <1>4, <2>1, <2>3
  <2> QED
    BY <1>1, <2>2, <2>3
<1>6. Range(a) = Range(s) \cup {p}
  <2>1. \A i \in 1 .. (n + 1) : i \in 1 .. n \/ i = n + 1
    BY <1>1
  <2>2. n + 1 \in 1 .. (n + 1) /\ \A i \in 1 .. n : i \in 1 .. (n + 1)
    BY <1>1
  <2>3. Range(a) = {a[i] : i \in 1 .. (n + 1)} /\ Range(s) = {s[i] : i \in 1 .. n}
    BY <1>1, <1>3 DEF Range
  <2> QED
    BY <1>2, <2>1, <2>2, <2>3
<1> QED
  BY <1>2, <1>5, <1>6 DEF a

\* A kernel is created when those before it have been and it has not, and then
\* it stands next; what is refused of it is left out for good.
LEMMA AddStage ==
  ASSUME TypeOK, SetKernel, NEW n \in 0 .. 8, Reached(n), Done[step] <= n
  PROVE  /\ task' \in Seq(Pieces) /\ kernels' \subseteq Range(Stages) /\ refused' \subseteq Pieces
         /\ \E m \in 0 .. 8 :
              Reached(m)' /\ n <= m /\ (pc' = "correlate" => step < 23 /\ Done[step + 1] <= m)
<1> DEFINE k == Steps[step].name
           d == Done[step]
           kernel == 2 * Place(k) - 1
           sync == 2 * Place(k)
<1>1. pc = "correlate" /\ step \in 1 .. 23 /\ Steps[step].do = "kernel"
  BY StepsInOrder DEF TypeOK, SetKernel, At
<1>2. step < 23 /\ d \in 0 .. 7 /\ k = Stages[d + 1] /\ Done[step + 1] = d + 1
  BY <1>1, StepsInOrder
<1>3. /\ \A i, j \in 1 .. 8 : Stages[i] = Stages[j] => i = j
      /\ Range(Stages) = {Stages[i] : i \in 1 .. 8}
      /\ Pieces = 1 .. 16
  BY DEF Range, Stages, Pieces
<1>4. task \in Seq(Pieces) /\ Increasing(task) /\ refused \subseteq Pieces
      /\ kernels \subseteq Range(Stages)
  BY DEF TypeOK, Reached, Increasing
<1>5. kernels = {Stages[i] : i \in 1 .. n} /\ Range(task) = (1 .. 2 * n) \ refused
      /\ refused \subseteq 1 .. 2 * n
  BY DEF Reached
<1>6. New(k) => n = d
  <2>1. SUFFICES ASSUME d < n PROVE k \in kernels
    BY <1>2 DEF New
  <2>2. d + 1 \in 1 .. n
    BY <1>2, <2>1
  <2> QED
    BY <1>2, <1>5, <2>2
<1>7. ~New(k) => d + 1 <= n
  <2>1. SUFFICES ASSUME k \in kernels PROVE d + 1 <= n
    BY DEF New
  <2>2. PICK i \in 1 .. n : Stages[d + 1] = Stages[i]
    BY <1>2, <1>5, <2>1
  <2> QED
    BY <1>2, <1>3, <2>2
<1>8. Place(k) = d + 1
  BY <1>2, Places
<1>9. kernel = 2 * d + 1 /\ sync = 2 * d + 2 /\ kernel \in Pieces /\ sync \in Pieces
  BY <1>2, <1>3, <1>8
<1> HIDE DEF k, d, kernel, sync
<1>10. CASE UNCHANGED <<kernels, task, refused>> /\ (pc' = "correlate" => ~New(k))
  <2>1. Reached(n)'
    BY <1>10 DEF Reached
  <2> QED
    BY <1>2, <1>4, <1>7, <1>10, <2>1
<1>11. ASSUME New(k), kernels' = kernels \cup {k}, task' \in Seq(Pieces), Increasing(task'),
              refused' \subseteq refused \cup {kernel, sync},
              refused \subseteq refused',
              Range(task') = Range(task) \cup ({kernel, sync} \ refused')
       PROVE  Reached(n + 1)' /\ n + 1 \in 0 .. 8 /\ Done[step + 1] <= n + 1
              /\ kernels' \subseteq Range(Stages) /\ refused' \subseteq Pieces
  <2>1. n = d
    BY <1>6, <1>11
  <2>2. n + 1 \in 1 .. 8 /\ kernel = 2 * n + 1 /\ sync = 2 * n + 2 /\ k = Stages[n + 1]
    BY <1>2, <1>9, <2>1
  <2>3. kernels' = {Stages[i] : i \in 1 .. (n + 1)}
    <3>1. \A i \in 1 .. (n + 1) : i \in 1 .. n \/ i = n + 1
      OBVIOUS
    <3>2. n + 1 \in 1 .. (n + 1) /\ \A i \in 1 .. n : i \in 1 .. (n + 1)
      OBVIOUS
    <3> QED
      BY <1>5, <1>11, <2>2, <3>1, <3>2
  <2>4. 1 .. 2 * (n + 1) = (1 .. 2 * n) \cup {kernel, sync}
        /\ kernel \notin 1 .. 2 * n /\ sync \notin 1 .. 2 * n
    BY <2>2
  <2>5. refused' \subseteq 1 .. 2 * (n + 1)
    BY <1>5, <1>11, <2>4
  <2>6. Range(task') = (1 .. 2 * (n + 1)) \ refused'
    <3>1. \A q \in 1 .. 2 * n : q \in refused' <=> q \in refused
      BY <1>11, <2>4
    <3> QED
      BY <1>5, <1>11, <2>4, <3>1
  <2>7. Reached(n + 1)'
    BY <1>11, <2>3, <2>5, <2>6 DEF Reached, Increasing
  <2> QED
    BY <1>2, <1>3, <1>4, <1>9, <1>11, <2>1, <2>2, <2>7
<1>12. ASSUME New(k), kernels' = kernels \cup {k}
       PROVE  /\ \A q \in Range(task) : q < kernel /\ q < sync
              /\ kernel < sync
  <2>1. n = d
    BY <1>6, <1>12
  <2>2. \A q \in Range(task) : q \in 1 .. 2 * n
    BY <1>5
  <2> QED
    BY <1>2, <1>9, <2>1, <2>2
<1>13. CASE New(k) /\ kernels' = kernels \cup {k}
  <2>1. \/ task' = Append(Append(task, kernel), sync) /\ refused' = refused
        \/ task' = Append(task, sync) /\ refused' = refused \cup {kernel}
        \/ task' = Append(task, kernel) /\ refused' = refused \cup {sync}
        \/ task' = task /\ refused' = refused \cup {kernel, sync}
    <3>1. ~UNCHANGED kernels
      BY <1>13 DEF New
    <3> QED
      BY <1>13, <3>1 DEF SetKernel, New, k, kernel, sync
  <2>2. /\ kernel \notin refused /\ sync \notin refused
    <3>1. n = d
      BY <1>6, <1>13
    <3> QED
      BY <1>2, <1>5, <1>9, <3>1
  <2>3. CASE task' = Append(Append(task, kernel), sync) /\ refused' = refused
    <3> DEFINE first == Append(task, kernel)
    <3>1. first \in Seq(Pieces) /\ Increasing(first) /\ Range(first) = Range(task) \cup {kernel}
      BY <1>4, <1>9, <1>12, <1>13, AppendPiece
    <3>2. task' = Append(first, sync)
      BY <2>3
    <3> HIDE DEF first
    <3>3. \A q \in Range(first) : q < sync
      BY <1>12, <1>13, <3>1
    <3>4. /\ Append(first, sync) \in Seq(Pieces) /\ Increasing(Append(first, sync))
          /\ Range(Append(first, sync)) = Range(first) \cup {sync}
      BY <1>9, <3>1, <3>3, AppendPiece
    <3>5. /\ task' \in Seq(Pieces) /\ Increasing(task')
          /\ Range(task') = Range(task) \cup {kernel, sync}
      BY <3>1, <3>2, <3>4
    <3>6. Range(task') = Range(task) \cup ({kernel, sync} \ refused')
      BY <2>2, <2>3, <3>5
    <3> QED
      BY <1>2, <1>11, <1>13, <2>3, <3>5, <3>6
  <2>4. CASE task' = Append(task, sync) /\ refused' = refused \cup {kernel}
    <3>1. /\ task' \in Seq(Pieces) /\ Increasing(task')
          /\ Range(task') = Range(task) \cup {sync}
      BY <1>4, <1>9, <1>12, <1>13, <2>4, AppendPiece
    <3>2. {sync} = {kernel, sync} \ refused'
      BY <1>9, <2>2, <2>4, <1>12, <1>13
    <3> QED
      BY <1>2, <1>11, <1>13, <2>4, <3>1, <3>2
  <2>5. CASE task' = Append(task, kernel) /\ refused' = refused \cup {sync}
    <3>1. /\ task' \in Seq(Pieces) /\ Increasing(task')
          /\ Range(task') = Range(task) \cup {kernel}
      BY <1>4, <1>9, <1>12, <1>13, <2>5, AppendPiece
    <3>2. {kernel} = {kernel, sync} \ refused'
      BY <1>9, <2>2, <2>5, <1>12, <1>13
    <3> QED
      BY <1>2, <1>11, <1>13, <2>5, <3>1, <3>2
  <2>6. CASE task' = task /\ refused' = refused \cup {kernel, sync}
    BY <1>2, <1>4, <1>11, <1>13, <2>6
  <2> QED
    BY <2>1, <2>3, <2>4, <2>5, <2>6
<1>14. \/ UNCHANGED <<kernels, task, refused>> /\ (pc' = "correlate" => ~New(k))
       \/ New(k) /\ kernels' = kernels \cup {k}
  BY <1>1 DEF SetKernel, Fails, CutShort, Return, Crash, k
<1> QED
  BY <1>10, <1>13, <1>14

\* Where the correlation goes: on to the next step, or out of it.
LEMMA Moves ==
  ASSUME TypeOK, gpu_gaussianCorrelation
  PROVE  /\ pc = "correlate" /\ step \in 1 .. 23
         /\ \/ pc' = "correlate" /\ step' = step + 1 /\ step < 23
            \/ pc' = "crashed" /\ step' = step
            \/ pc' \in {"resize", "idle"} /\ step' = 0
<1>1. pc = "correlate" /\ step \in 1 .. 23
  BY CorrelationFrame, StepsInOrder DEF TypeOK
<1>2. CASE KeepKeys
  BY <1>1, <1>2 DEF KeepKeys, Return
<1>3. CASE ~KeepKeys
  <2>1. step < 23
    BY <1>1, <1>3, StepsInOrder DEF gpu_gaussianCorrelation, CreateBuffer, FinalExpImageSum,
       CreateInputs, MakePlan, SetKernel, Enqueue, At
  <2> QED
    BY <1>1, <2>1, CorrelationFrame
<1> QED
  BY <1>2, <1>3

LEMMA TaskStep == IInv /\ [Next]_vars => Task'
<1> SUFFICES ASSUME TypeOK, Task, [Next]_vars PROVE Task'
  BY DEF IInv
<1>1. Done[1] = 0
  BY DEF Done
<1>2. ASSUME UNCHANGED <<kernels, task, refused>>, pc' = "correlate" => step' = 1 PROVE Task'
  BY <1>1, <1>2 DEF Task, Reached
<1>3. CASE \E box \in Rois, s \in Surfaces : init(box, s)
  BY <1>2, <1>3 DEF init, correlation, history
<1>4. CASE \E s \in Surfaces : update(s)
  BY <1>2, <1>4 DEF update, correlation, history
<1>5. CASE getFeatures
  BY <1>2, <1>5, FeatureFrame DEF correlation
<1>6. CASE gpu_gaussianCorrelation
  <2>0. PICK n \in 0 .. 8 : Reached(n) /\ Done[step] <= n
    BY <1>6, Moves DEF Task
  <2>1. CASE SetKernel
    <3>1. PICK m \in 0 .. 8 :
            Reached(m)' /\ (pc' = "correlate" => step < 23 /\ Done[step + 1] <= m)
      BY <2>0, <2>1, AddStage
    <3>2. pc' = "correlate" => step' = step + 1
      BY <1>6, Moves
    <3> QED
      BY <3>1, <3>2 DEF Task
  <2>2. CASE ~SetKernel
    <3>1. UNCHANGED <<kernels, task, refused>> /\ Steps[step].do # "kernel"
      BY <1>6, <2>2 DEF gpu_gaussianCorrelation, CreateBuffer, FinalExpImageSum, CreateInputs,
         MakePlan, Enqueue, KeepKeys, At, correlation
    <3>2. Reached(n)'
      BY <2>0, <3>1 DEF Reached
    <3>3. pc' = "correlate" => step' = step + 1 /\ Done[step + 1] = Done[step]
      BY <1>6, <3>1, Moves, StepsInOrder
    <3> QED
      BY <2>0, <3>2, <3>3 DEF Task
  <2> QED
    BY <2>1, <2>2
<1>7. CASE UNCHANGED vars
  BY <1>7 DEF Task, Reached, vars, correlation, history
<1> QED
  BY <1>3, <1>4, <1>5, <1>6, <1>7 DEF Next

-----------------------------------------------------------------------------
(* The types.                                                              *)

\* What the resources of the correlation are made of.
LEMMA CorrelationTypes ==
  ASSUME TypeOK, Task, gpu_gaussianCorrelation
  PROVE  /\ gauss' \in [Buffers -> Nat] /\ DOMAIN plans' = {"X", "Y"}
         /\ key' \in [area : Nat, X : Nat, Y : Nat]
         /\ task' \in Seq(Pieces) /\ kernels' \subseteq Range(Stages) /\ refused' \subseteq Pieces
         /\ torn' \subseteq {"area", "X", "Y"} /\ lost' \subseteq {"X", "Y", "Final"}
         /\ faults' \in 0 .. MaxFaults
         /\ op' \in {"init", "detect", "train"}
<1>1. Area(patch) \in Nat /\ patch[1] \in Nat /\ patch[2] \in Nat
  <2>1. patch \in Nat \X Nat
    BY DEF TypeOK
  <2> QED
    BY <2>1 DEF Area
<1>2. gauss' \in [Buffers -> Nat]
  <2>0. gauss \in [Buffers -> Nat]
    BY DEF TypeOK
  <2>1. CASE CreateBuffer \/ FinalExpImageSum
    <3>1. PICK b \in Buffers, n \in Nat : gauss' = gauss \/ gauss' = [gauss EXCEPT ![b] = n]
      <4>1. pc = "correlate" /\ step \in 1 .. 23 /\ Steps[step].do = "buffer"
        BY <2>1, Moves DEF CreateBuffer, FinalExpImageSum, At
      <4>2. Steps[step].name \in Buffers
        BY <4>1, StepsInOrder DEF Buffers
      <4>3. FinalExpImageSum => Steps[step].name = "Final"
        BY DEF FinalExpImageSum
      <4> QED
        BY <1>1, <2>1, <4>2, <4>3 DEF CreateBuffer, FinalExpImageSum
    <3> QED
      BY <2>0, <3>1
  <2>2. CASE CreateInputs
    <3>1. {"Surf0", "Surf1"} \subseteq Buffers
      BY DEF Buffers
    <3>2. \E m, n \in Nat :
            gauss' \in {gauss, [gauss EXCEPT !["Surf0"] = m, !["Surf1"] = n]}
      BY <1>1, <2>2 DEF CreateInputs
    <3> QED
      BY <2>0, <3>1, <3>2
  <2> QED
    BY <2>0, <2>1, <2>2 DEF gpu_gaussianCorrelation, MakePlan, SetKernel, Enqueue, KeepKeys,
       correlation
<1>3. DOMAIN plans' = {"X", "Y"}
  BY DEF gpu_gaussianCorrelation, CreateBuffer, FinalExpImageSum, CreateInputs, MakePlan,
     SetKernel, Enqueue, KeepKeys, correlation, TypeOK
<1>4. key' \in [area : Nat, X : Nat, Y : Nat]
  <2>1. CASE KeepKeys
    BY <1>1, <2>1 DEF KeepKeys
  <2>2. CASE ~KeepKeys
    <3>1. key' = key
      BY <2>2 DEF gpu_gaussianCorrelation, CreateBuffer, FinalExpImageSum, CreateInputs,
         MakePlan, SetKernel, Enqueue, correlation
    <3> QED
      BY <3>1 DEF TypeOK
  <2> QED
    BY <2>1, <2>2
<1>5. task' \in Seq(Pieces) /\ kernels' \subseteq Range(Stages) /\ refused' \subseteq Pieces
  <2>1. CASE SetKernel
    <3>1. PICK n \in 0 .. 8 : Reached(n) /\ Done[step] <= n
      BY Moves DEF Task
    <3> QED
      BY <2>1, <3>1, AddStage
  <2> QED
    BY <2>1 DEF gpu_gaussianCorrelation, CreateBuffer, FinalExpImageSum, CreateInputs, MakePlan,
       Enqueue, KeepKeys, correlation, TypeOK
<1>6. torn' \subseteq {"area", "X", "Y"}
  <2>1. torn' = torn \/ torn' = torn \cup BeingRenewed \/ torn' = torn \ BeingRenewed
    BY DEF gpu_gaussianCorrelation, CreateBuffer, FinalExpImageSum, CreateInputs, MakePlan,
       SetKernel, Enqueue, KeepKeys, Continue, CutShort, Advance
  <2> QED
    BY <2>1 DEF TypeOK, BeingRenewed
<1>7. lost' \subseteq {"X", "Y", "Final"}
  <2>1. CASE MakePlan
    <3>1. Steps[step].name \in {"X", "Y"}
      BY <2>1, Moves, StepsMake DEF MakePlan, At
    <3> QED
      BY <2>1, <3>1 DEF MakePlan, TypeOK
  <2> QED
    BY <2>1 DEF gpu_gaussianCorrelation, CreateBuffer, FinalExpImageSum, CreateInputs, SetKernel,
       Enqueue, KeepKeys, TypeOK
<1>8. faults' \in 0 .. MaxFaults
  <2>1. faults \in 0 .. MaxFaults /\ MaxFaults \in Nat
    BY TrackerAssumption DEF TypeOK
  <2> QED
    BY <2>1, CorrelationFrame
<1>9. op' \in {"init", "detect", "train"}
  BY CorrelationFrame DEF TypeOK
<1> QED
  BY <1>2, <1>3, <1>4, <1>5, <1>6, <1>7, <1>8, <1>9

\* What getFeatures changes keeps its type.
LEMMA FeatureTypes ==
  ASSUME TypeOK, Sizes, getFeatures
  PROVE  /\ shapes' \in [Matrices -> Int \X Int]
         /\ pool' \in [Surfaces -> [sampler : {"none", "live", "destroyed"},
                                     surface : {"none", "live", "destroyed"}]]
         /\ tmpl' \in Nat \X Nat /\ template' \in Int \X Int /\ patch' \in Nat \X Nat
         /\ hog' \in [map : Int \X Int, surfaces : Int \X Int]
         /\ hogTask' \in -1 .. 5 /\ stale' \subseteq Surfaces
<1> DEFINE State == [sampler : {"none", "live", "destroyed"},
                     surface : {"none", "live", "destroyed"}]
<1>1. /\ shapes \in [Matrices -> Int \X Int] /\ pool \in [Surfaces -> State]
      /\ tmpl \in Nat \X Nat /\ template \in Int \X Int /\ patch \in Nat \X Nat
      /\ hog \in [map : Int \X Int, surfaces : Int \X Int] /\ surf \in Surfaces
      /\ hogTask \in -1 .. 5 /\ stale \subseteq Surfaces
  BY DEF TypeOK, Matrices
<1>2. CASE refreshKernels
  <2>1. tmpl \in Templates
    BY <1>2 DEF Sizes, refreshKernels
  <2>2. MapSize(tmpl) \in Int \X Int
    BY <2>1, FittingMap
  <2>3. pool' \in [Surfaces -> State]
    BY <1>1, <1>2 DEF refreshKernels
  <2> QED
    BY <1>1, <1>2, <2>2, <2>3 DEF refreshKernels, history
<1>3. CASE refreshKernelsFails \/ SameSize
  BY <1>1, <1>3 DEF refreshKernelsFails, SameSize, feature, history
<1>4. CASE Extract
  <2>1. hogTask' \in -1 .. 5
    BY <1>1, <1>4 DEF Extract, NoTask
  <2> QED
    BY <1>1, <1>4, <2>1 DEF Extract, history
<1>5. CASE RefreshIndices
  BY <1>1, <1>5 DEF RefreshIndices, Live
<1>6. CASE RefreshIndicesFails
  <2>1. stale' \subseteq Surfaces
    BY <1>6 DEF RefreshIndicesFails, Pooled
  <2> QED
    BY <1>1, <1>6, <2>1 DEF RefreshIndicesFails, Live
<1>7. CASE CreateSampler8x8Surface
  BY <1>1, <1>7 DEF CreateSampler8x8Surface, Live, history
<1>8. CASE ApplyHann
  <2>1. tmpl \in Templates /\ hog.map = MapSize(tmpl)
    BY <1>8, FittingMap DEF Sizes, ApplyHann
  <2>2. hog.map \in Nat \X Nat
    BY <2>1, FittingMap
  <2>3. shapes' \in [Matrices -> Int \X Int]
    BY <1>1, <1>8, <2>2 DEF ApplyHann, HannSize
  <2> QED
    BY <1>1, <1>8, <2>2, <2>3 DEF ApplyHann, history
<1> QED
  BY <1>2, <1>3, <1>4, <1>5, <1>6, <1>7, <1>8 DEF getFeatures

LEMMA TypeStep == IInv /\ [Next]_vars => TypeOK'
<1> SUFFICES ASSUME TypeOK, Sizes, Task, [Next]_vars PROVE TypeOK'
  BY DEF IInv
<1> USE StepsInOrder
<1>1. ASSUME NEW box \in Rois, NEW s \in Surfaces, init(box, s) PROVE TypeOK'
  <2>1. tmpl' \in Nat \X Nat
    BY <1>1, TemplateHasCells, FittingMap DEF init, TypeOK
  <2> QED
    BY <1>1, <2>1 DEF TypeOK, init, correlation, history
<1>2. ASSUME NEW s \in Surfaces, update(s) PROVE TypeOK'
  BY <1>2 DEF TypeOK, update, feature, correlation, history
<1>3. CASE getFeatures
  <2>1. faults' \in 0 .. MaxFaults
    <3>1. faults \in 0 .. MaxFaults /\ MaxFaults \in Nat
      BY TrackerAssumption DEF TypeOK
    <3> QED
      BY <1>3, <3>1, FeatureFrame
  <2>2. /\ pc' \in {"indices", "frame", "extract", "hann", "correlate", "crashed"}
        /\ step' \in 0 .. 23 /\ (pc' = "correlate" => step' > 0)
    <3>1. step \in 0 .. 23
      BY DEF TypeOK
    <3>2. \/ pc' \in {"indices", "frame", "extract", "hann", "crashed"} /\ step' = step
          \/ pc' = "correlate" /\ step' = 1
      BY <1>3, FeatureFrame
    <3> QED
      BY <3>1, <3>2
  <2>3. UNCHANGED <<op, roi, surf, correlation, torn, lost, refused>>
    BY <1>3, FeatureFrame
  <2> QED
    BY <1>3, <2>1, <2>2, <2>3, FeatureTypes DEF TypeOK, Matrices, correlation
<1>4. CASE gpu_gaussianCorrelation
  <2>1. UNCHANGED <<roi, surf, shapes, feature, stale>>
    BY <1>4, CorrelationFrame
  <2>2. /\ pc' \in {"correlate", "crashed", "resize", "idle"}
        /\ step' \in 0 .. 23 /\ (pc' = "correlate" => step' > 0)
    BY <1>4, Moves
  <2> QED
    BY <1>4, <2>1, <2>2, CorrelationTypes DEF TypeOK, feature
<1>5. CASE UNCHANGED vars
  BY <1>5 DEF TypeOK, vars, feature, correlation, history
<1> QED
  BY <1>1, <1>2, <1>3, <1>4, <1>5 DEF Next

-----------------------------------------------------------------------------
(* The buffers, the plans and the arguments of the kernels.                *)

Side(side) == IF side = "X" THEN patch[1] ELSE patch[2]

\* What step i of the correlation leaves behind for the area of the patch.
Made(i) ==
  LET s == Steps[i]
  IN  /\ s.do = "buffer" /\ s.by = "area" => gauss[s.name] = Area(patch)
      /\ s.do = "inputs" => gauss["Surf0"] = Area(patch) /\ gauss["Surf1"] = Area(patch)
      /\ s.do = "kernel" => args[s.name] = {Area(patch)}

\* Nothing was left half renewed for this size.
Fit(by) == by \notin torn \/ Changed(by)

\* A correlation makes everything for its own patch as it goes: what it does
\* not renew has the size already.
Renewed ==
  pc = "correlate" =>
    /\ Fit("area") => \A i \in 1 .. (step - 1) : Made(i)
    /\ step > 3 => patch[1] > 0 /\ (Fit("X") /\ "X" \notin lost => plans["X"] = Plan(patch[1]))
    /\ step > 5 => patch[2] > 0 /\ (Fit("Y") /\ "Y" \notin lost => plans["Y"] = Plan(patch[2]))
    /\ step > 22 /\ "Final" \notin lost => gauss["Final"] = Area(patch)

\* The keys tell the truth about the buffers and plans of the last complete
\* correlation, until one with another size goes to work on them.
Kept ==
  pc # "crashed" =>
    /\ "area" \notin torn /\ ~(pc = "correlate" /\ Changed("area")) =>
         \A b \in Buffers \ {"Final"} : gauss[b] \in {0, key.area}
    /\ "X" \notin torn \cup lost /\ ~(pc = "correlate" /\ Changed("X")) /\ key.X > 0 =>
         plans["X"] = Plan(key.X)
    /\ "Y" \notin torn \cup lost /\ ~(pc = "correlate" /\ Changed("Y")) /\ key.Y > 0 =>
         plans["Y"] = Plan(key.Y)
    /\ "Final" \notin lost /\ ~(pc = "correlate" /\ step > 22) =>
         gauss["Final"] \in {0, key.X * key.Y}

Fitting == DOMAIN args = Range(Stages) /\ Renewed /\ Kept

LEMMA InitFitting == Init => Fitting
<1> SUFFICES ASSUME Init PROVE Fitting
  OBVIOUS
<1>1. /\ pc = "idle" /\ \A b \in Buffers : gauss[b] = 0
      /\ key.X = 0 /\ key.Y = 0 /\ DOMAIN args = Range(Stages)
  BY DEF Init
<1>2. "Final" \in Buffers
  BY StepsMake, StepsInOrder DEF Buffers
<1> QED
  BY <1>1, <1>2 DEF Fitting, Renewed, Kept

\* What a step of the correlation changes, but for the last.
LEMMA Changes ==
  ASSUME TypeOK, gpu_gaussianCorrelation, ~KeepKeys
  PROVE  /\ pc = "correlate" /\ step \in 1 .. 22 /\ UNCHANGED <<patch, key>>
         /\ \/ pc' = "correlate" /\ step' = step + 1 /\ torn' = torn
            \/ pc' = "crashed"
            \/ pc' \in {"idle", "resize"} /\ torn' = torn \cup BeingRenewed
         /\ \A b \in Buffers \ {"Final"} :
              \/ gauss'[b] \in {gauss[b], Area(patch)}
              \/ pc' # "correlate" /\ gauss'[b] = 0
         /\ \A side \in {"X", "Y"} :
              \/ plans'[side] = plans[side] /\ (side \in lost' <=> side \in lost)
              \/ Changed(side) /\ (pc' = "correlate" =>
                                     side \in lost' \/ plans'[side] = Plan(Side(side)))
         /\ \A k \in DOMAIN args :
              \/ args'[k] = args[k]
              \/ args'[k] = {gauss[b] : b \in Steps[step].uses} /\ Steps[step].do = "kernel"
         /\ DOMAIN args' = DOMAIN args
         /\ step # 22 => gauss'["Final"] = gauss["Final"] /\ ("Final" \in lost' <=> "Final" \in lost)
<1> DEFINE s == Steps[step]
<1>1. pc = "correlate" /\ step \in 1 .. 22
  <2>1. pc = "correlate" /\ step \in 1 .. 23
    BY Moves
  <2> QED
    BY <2>1, StepsInOrder DEF gpu_gaussianCorrelation, CreateBuffer, FinalExpImageSum,
       CreateInputs, MakePlan, SetKernel, Enqueue, At
<1>2. UNCHANGED <<patch, key>>
  BY DEF gpu_gaussianCorrelation, CreateBuffer, FinalExpImageSum, CreateInputs, MakePlan,
     SetKernel, Enqueue, feature, correlation
<1>3. \/ pc' = "correlate" /\ step' = step + 1 /\ torn' = torn
      \/ pc' = "crashed"
      \/ pc' \in {"idle", "resize"} /\ torn' = torn \cup BeingRenewed
  BY <1>1 DEF gpu_gaussianCorrelation, CreateBuffer, FinalExpImageSum, CreateInputs, MakePlan,
     SetKernel, Enqueue, Continue, CutShort, Advance, Return, Crash
<1>4. gauss \in [Buffers -> Nat] /\ DOMAIN plans = {"X", "Y"}
  BY DEF TypeOK
<1>5. /\ \A b \in Buffers \ {"Final"} :
           \/ gauss'[b] \in {gauss[b], Area(patch)}
           \/ pc' # "correlate" /\ gauss'[b] = 0
      /\ \A side \in {"X", "Y"} :
           \/ plans'[side] = plans[side] /\ (side \in lost' <=> side \in lost)
           \/ Changed(side) /\ (pc' = "correlate" =>
                                  side \in lost' \/ plans'[side] = Plan(Side(side)))
      /\ args' = args \/ (args' = [args EXCEPT ![s.name] = {gauss[b] : b \in s.uses}]
                            /\ s.do = "kernel")
      /\ step # 22 => gauss'["Final"] = gauss["Final"] /\ ("Final" \in lost' <=> "Final" \in lost)
  <2>1. CASE CreateBuffer
    <3>1. s.do = "buffer" /\ s.name # "Final" /\ UNCHANGED <<plans, args, lost>>
      BY <2>1 DEF CreateBuffer, At
    <3>2. \/ gauss' \in {gauss, [gauss EXCEPT ![s.name] = Area(patch)]}
          \/ pc' # "correlate" /\ gauss' = [gauss EXCEPT ![s.name] = 0]
      BY <1>1, <2>1 DEF CreateBuffer, CutShort, Return
    <3>3. "Final" \in Buffers /\ \A b \in Buffers \ {s.name} : gauss'[b] = gauss[b]
      <4>1. "Final" \in Buffers
        BY StepsMake, StepsInOrder DEF Buffers
      <4> QED
        BY <1>4, <3>2, <4>1
    <3>4. s.name \in Buffers => gauss'[s.name] \in {gauss[s.name], Area(patch)}
                                  \/ (pc' # "correlate" /\ gauss'[s.name] = 0)
      BY <1>4, <3>2
    <3> QED
      BY <3>1, <3>3, <3>4
  <2>2. CASE FinalExpImageSum
    <3>1. step = 22 /\ s.name = "Final" /\ UNCHANGED <<plans, args>>
          /\ \A side \in {"X", "Y"} : side \in lost' <=> side \in lost
      BY <1>1, <2>2, StepsMake DEF FinalExpImageSum, At
    <3>2. \A b \in Buffers \ {"Final"} : gauss'[b] = gauss[b]
      BY <1>4, <2>2 DEF FinalExpImageSum
    <3> QED
      BY <3>1, <3>2
  <2>3. CASE CreateInputs
    <3>1. UNCHANGED <<plans, args, lost>>
      BY <2>3 DEF CreateInputs
    <3>2. \E m, n \in {0, Area(patch)} :
            /\ gauss' \in {gauss, [gauss EXCEPT !["Surf0"] = m, !["Surf1"] = n]}
            /\ pc' = "correlate" => m = Area(patch) /\ n = Area(patch)
      BY <1>1, <2>3 DEF CreateInputs, CutShort, Return, Crash
    <3>3. ASSUME NEW b \in Buffers
          PROVE  gauss'[b] \in {gauss[b], Area(patch)} \/ (pc' # "correlate" /\ gauss'[b] = 0)
      <4>1. PICK m \in {0, Area(patch)}, n \in {0, Area(patch)} :
              /\ gauss' \in {gauss, [gauss EXCEPT !["Surf0"] = m, !["Surf1"] = n]}
              /\ pc' = "correlate" => m = Area(patch) /\ n = Area(patch)
        BY <3>2
      <4>2. gauss'[b] \in {gauss[b], m, n}
        BY <1>4, <4>1
      <4> QED
        BY <4>1, <4>2
    <3>4. gauss'["Final"] = gauss["Final"]
      <4>1. "Final" \in Buffers
        BY StepsMake, StepsInOrder DEF Buffers
      <4> QED
        BY <1>4, <3>2, <4>1
    <3> QED
      BY <3>1, <3>3, <3>4
  <2>4. CASE MakePlan
    <3>1. s.do = "plan" /\ s.name \in {"X", "Y"} /\ UNCHANGED <<gauss, args>>
      BY <1>1, <2>4, StepsMake DEF MakePlan, At
    <3>2. "Final" \in lost' <=> "Final" \in lost
      BY <2>4, <3>1 DEF MakePlan
    <3>3. \/ plans' = plans /\ lost' = lost
          \/ Changed(s.name) /\ plans' = [plans EXCEPT ![s.name] = Plan(Side(s.name))]
               /\ lost' = lost \ {s.name}
          \/ Changed(s.name) /\ plans' = [plans EXCEPT ![s.name] = NoPlan]
               /\ (lost' = lost \cup {s.name} \/ (lost' = lost /\ pc' # "correlate"))
      BY <1>1, <2>4 DEF MakePlan, CutShort, Return, Side
    <3>4. ASSUME NEW side \in {"X", "Y"}
          PROVE  \/ plans'[side] = plans[side] /\ (side \in lost' <=> side \in lost)
                 \/ Changed(side) /\ (pc' = "correlate" =>
                                        side \in lost' \/ plans'[side] = Plan(Side(side)))
      <4>1. CASE side = s.name
        BY <1>4, <3>1, <3>3, <4>1
      <4>2. CASE side # s.name
        BY <1>4, <3>1, <3>3, <4>2
      <4> QED
        BY <4>1, <4>2
    <3> QED
      BY <1>4, <3>1, <3>2, <3>4
  <2>5. CASE SetKernel
    BY <2>5 DEF SetKernel, At
  <2>6. CASE Enqueue
    BY <2>6 DEF Enqueue, correlation
  <2> QED
    BY <2>1, <2>2, <2>3, <2>4, <2>5, <2>6 DEF gpu_gaussianCorrelation
<1> QED
  BY <1>1, <1>2, <1>3, <1>5

\* What a step that is passed has made.
LEMMA StepMakes ==
  ASSUME TypeOK, Fitting, gpu_gaussianCorrelation, ~KeepKeys, pc' = "correlate"
  PROVE  /\ Fit("area") => \A i \in 1 .. 22 : i = step => Made(i)'
         /\ step = 3 => patch[1] > 0 /\ (Fit("X") /\ "X" \notin lost' => plans'["X"] = Plan(patch[1]))
         /\ step = 5 => patch[2] > 0 /\ (Fit("Y") /\ "Y" \notin lost' => plans'["Y"] = Plan(patch[2]))
         /\ step = 22 /\ "Final" \notin lost' => gauss'["Final"] = Area(patch)
<1> DEFINE s == Steps[step]
<1>1. /\ pc = "correlate" /\ step \in 1 .. 22 /\ UNCHANGED <<patch, key>> /\ torn' = torn
      /\ step' = step + 1
  BY Changes
<1>2. gauss \in [Buffers -> Nat] /\ DOMAIN plans = {"X", "Y"}
      /\ key.area \in Nat /\ key.X \in Nat /\ key.Y \in Nat
      /\ patch[1] \in Nat /\ patch[2] \in Nat
  BY DEF TypeOK
<1>3. DOMAIN args = Range(Stages)
  BY DEF Fitting
<1>4. Area(patch)' = Area(patch)
  BY <1>1 DEF Area
\* A buffer of the area that is not renewed.
<1>5. ASSUME NEW b \in Buffers \ {"Final"}, Fit("area"), ~(gauss[b] = 0 \/ Changed("area"))
      PROVE  gauss[b] = Area(patch)
  <2>1. gauss[b] \in {0, key.area}
    BY <1>1, <1>5 DEF Fitting, Kept, Fit
  <2> QED
    BY <1>5, <2>1 DEF Changed
<1>6. ASSUME Fit("area"), s.do = "buffer", s.by = "area" PROVE gauss'[s.name] = Area(patch)
  <2>1. s.name \in Buffers \ {"Final"}
    BY <1>1, <1>6, StepsMake, StepsInOrder DEF Buffers
  <2>2. CreateBuffer
    BY <1>6, <2>1 DEF gpu_gaussianCorrelation, FinalExpImageSum, CreateInputs, MakePlan,
       SetKernel, Enqueue, At
  <2>3. gauss' = IF gauss[s.name] = 0 \/ Changed("area")
                   THEN [gauss EXCEPT ![s.name] = Area(patch)] ELSE gauss
    BY <1>1, <1>6, <2>2 DEF CreateBuffer, CutShort, Return, Crash
  <2> QED
    BY <1>2, <1>5, <1>6, <2>1, <2>3
<1>7. ASSUME Fit("area"), s.do = "inputs"
      PROVE  gauss'["Surf0"] = Area(patch) /\ gauss'["Surf1"] = Area(patch)
  <2>1. CreateInputs
    BY <1>7 DEF gpu_gaussianCorrelation, CreateBuffer, FinalExpImageSum, MakePlan, SetKernel,
       Enqueue, At
  <2>2. gauss' = IF gauss["Surf0"] = 0 \/ gauss["Surf1"] = 0 \/ Changed("area")
                   THEN [gauss EXCEPT !["Surf0"] = Area(patch), !["Surf1"] = Area(patch)]
                   ELSE gauss
    BY <1>1, <2>1 DEF CreateInputs, CutShort, Return, Crash
  <2>3. "Surf0" \in Buffers \ {"Final"} /\ "Surf1" \in Buffers \ {"Final"}
    BY DEF Buffers
  <2> QED
    BY <1>2, <1>5, <1>7, <2>2, <2>3
<1>8. ASSUME Fit("area"), s.do = "kernel" PROVE args'[s.name] = {Area(patch)}
  <2>1. \A i \in 1 .. (step - 1) : Made(i)
    BY <1>1, <1>8 DEF Fitting, Renewed
  <2>2. ASSUME NEW b \in s.uses PROVE gauss[b] = Area(patch)
    <3>1. PICK j \in 1 .. (step - 1) : Makes(j, b)
      BY <1>1, <1>8, StepsMake
    <3> QED
      BY <2>1, <3>1 DEF Made, Makes
  <2>3. s.uses # {} /\ s.name \in DOMAIN args
    BY <1>1, <1>3, <1>8, StepsMake
  <2>4. SetKernel
    BY <1>8 DEF gpu_gaussianCorrelation, CreateBuffer, FinalExpImageSum, CreateInputs, MakePlan,
       Enqueue, At
  <2>5. args' = [args EXCEPT ![s.name] = {gauss[b] : b \in s.uses}]
    BY <1>1, <2>4 DEF SetKernel, CutShort, Return, Crash
  <2>6. {gauss[b] : b \in s.uses} = {Area(patch)}
    BY <2>2, <2>3
  <2> QED
    BY <2>3, <2>5, <2>6
<1>9. ASSUME Fit("area"), NEW i \in 1 .. 22, i = step PROVE Made(i)'
  BY <1>4, <1>6, <1>7, <1>8, <1>9 DEF Made
<1>10. ASSUME NEW side \in {"X", "Y"}, s.do = "plan", s.name = side
       PROVE  /\ Side(side) > 0
              /\ Fit(side) /\ side \notin lost' => plans'[side] = Plan(Side(side))
  <2>1. MakePlan
    BY <1>10 DEF gpu_gaussianCorrelation, CreateBuffer, FinalExpImageSum, CreateInputs,
       SetKernel, Enqueue, At
  <2>2. Side(side) > 0
    BY <1>1, <1>10, <2>1 DEF MakePlan, CutShort, Return, Crash, Side
  <2>3. \/ Changed(side) /\ plans'[side] = Plan(Side(side))
        \/ ~Changed(side) /\ plans' = plans /\ lost' = lost
        \/ Changed(side) /\ side \in lost'
    BY <1>1, <1>2, <1>10, <2>1 DEF MakePlan, CutShort, Return, Crash, Side
  <2>4. ASSUME ~Changed(side), side \notin torn \cup lost PROVE plans[side] = Plan(Side(side))
    <3>1. CASE side = "X"
      BY <1>1, <2>2, <2>4, <3>1 DEF Fitting, Kept, Changed, Side
    <3>2. CASE side = "Y"
      BY <1>1, <2>2, <2>4, <3>2 DEF Fitting, Kept, Changed, Side
    <3> QED
      BY <3>1, <3>2
  <2> QED
    BY <2>2, <2>3, <2>4 DEF Fit
<1>11. step = 3 => patch[1] > 0 /\ (Fit("X") /\ "X" \notin lost' => plans'["X"] = Plan(patch[1]))
  BY <1>1, <1>10, StepsMake DEF Side
<1>12. step = 5 => patch[2] > 0 /\ (Fit("Y") /\ "Y" \notin lost' => plans'["Y"] = Plan(patch[2]))
  BY <1>1, <1>10, StepsMake DEF Side
<1>13. ASSUME step = 22, "Final" \notin lost' PROVE gauss'["Final"] = Area(patch)
  <2>1. s.do = "buffer" /\ s.name = "Final" /\ "Final" \in Buffers
    BY <1>1, <1>13, StepsMake, StepsInOrder DEF Buffers
  <2>2. FinalExpImageSum
    BY <2>1 DEF gpu_gaussianCorrelation, CreateBuffer, CreateInputs, MakePlan, SetKernel,
       Enqueue, At
  <2>3. \/ gauss' = [gauss EXCEPT !["Final"] = Area(patch)]
        \/ gauss' = gauss /\ lost' = lost /\ gauss["Final"] # 0 /\ ~Changed("pitch")
    BY <1>13, <2>2 DEF FinalExpImageSum
  <2>4. ASSUME lost' = lost, gauss["Final"] # 0, ~Changed("pitch")
        PROVE  gauss["Final"] = Area(patch)
    <3>1. gauss["Final"] = key.X * key.Y
      BY <1>1, <1>13, <2>4 DEF Fitting, Kept
    <3>2. key.X = patch[1] /\ key.Y = patch[2]
      BY <2>4 DEF Changed
    <3> QED
      BY <3>1, <3>2 DEF Area
  <2> QED
    BY <1>2, <2>1, <2>3, <2>4
<1> QED
  BY <1>9, <1>11, <1>12, <1>13

\* A step that is passed keeps what was made before.
LEMMA PassStep ==
  ASSUME TypeOK, Fitting, gpu_gaussianCorrelation, ~KeepKeys, pc' = "correlate"
  PROVE  Fitting'
<1> DEFINE s == Steps[step]
<1>1. /\ pc = "correlate" /\ step \in 1 .. 22 /\ UNCHANGED <<patch, key>> /\ torn' = torn
      /\ step' = step + 1 /\ DOMAIN args' = DOMAIN args
  BY Changes
<1>2. Area(patch)' = Area(patch)
      /\ \A by \in {"area", "X", "Y"} : (Fit(by)' <=> Fit(by)) /\ (Changed(by)' <=> Changed(by))
  BY <1>1 DEF Area, Fit, Changed
<1>3. ASSUME Fit("area"), NEW i \in 1 .. (step - 1) PROVE Made(i)'
  <2>1. Made(i) /\ i \in 1 .. 23
    BY <1>1, <1>3 DEF Fitting, Renewed
  <2>2. ASSUME NEW b \in Buffers \ {"Final"}, gauss[b] = Area(patch) PROVE gauss'[b] = Area(patch)
    BY <2>2, Changes
  <2>3. Steps[i].do = "buffer" /\ Steps[i].by = "area" => Steps[i].name \in Buffers \ {"Final"}
    BY <2>1, StepsMake, StepsInOrder DEF Buffers
  <2>4. {"Surf0", "Surf1"} \subseteq Buffers \ {"Final"}
    BY DEF Buffers
  <2>5. ASSUME Steps[i].do = "kernel" PROVE args'[Steps[i].name] = {Area(patch)}
    <3>1. Steps[i].name \in DOMAIN args
      BY <2>1, <2>5, StepsMake DEF Fitting
    <3>2. args[Steps[i].name] = {Area(patch)}
      BY <2>1, <2>5 DEF Made
    <3>3. \A j \in 1 .. (step - 1) : Made(j)
      BY <1>1, <1>3 DEF Fitting, Renewed
    <3>4. ASSUME s.do = "kernel" PROVE {gauss[b] : b \in s.uses} = {Area(patch)}
      <4>1. ASSUME NEW b \in s.uses PROVE gauss[b] = Area(patch)
        <5>1. PICK j \in 1 .. (step - 1) : Makes(j, b)
          BY <1>1, <3>4, StepsMake
        <5> QED
          BY <3>3, <5>1 DEF Made, Makes
      <4>2. s.uses # {}
        BY <1>1, <3>4, StepsMake
      <4> QED
        BY <4>1, <4>2
    <3> QED
      BY <3>1, <3>2, <3>4, Changes
  <2> QED
    BY <1>2, <2>1, <2>2, <2>3, <2>4, <2>5 DEF Made
<1>4. ASSUME Fit("area"), NEW i \in 1 .. (step' - 1) PROVE Made(i)'
  <2>1. i \in 1 .. (step - 1) \/ i = step
    BY <1>1
  <2>2. CASE i = step
    BY <1>1, <1>4, <2>2, StepMakes
  <2> QED
    BY <1>3, <1>4, <2>1, <2>2
<1>5. ASSUME step > 3
      PROVE  patch[1] > 0 /\ (Fit("X") /\ "X" \notin lost' => plans'["X"] = Plan(patch[1]))
  BY <1>1, <1>5, Changes DEF Fitting, Renewed, Side
<1>6. ASSUME step > 5
      PROVE  patch[2] > 0 /\ (Fit("Y") /\ "Y" \notin lost' => plans'["Y"] = Plan(patch[2]))
  BY <1>1, <1>6, Changes DEF Fitting, Renewed, Side
<1>7. Renewed'
  <2>1. /\ step' > 3 => step = 3 \/ step > 3
        /\ step' > 5 => step = 5 \/ step > 5
        /\ step' > 22 => step = 22
    BY <1>1
  <2>2. patch' = patch
    BY <1>1
  <2> QED
    BY <1>2, <1>4, <1>5, <1>6, <2>1, <2>2, StepMakes DEF Renewed
<1>8. Kept'
  <2>1. "area" \notin torn /\ ~Changed("area") =>
          \A b \in Buffers \ {"Final"} : gauss'[b] \in {0, key.area}
    BY <1>1, Changes DEF Fitting, Kept, Changed
  <2>2. \A side \in {"X", "Y"} : ~Changed(side) =>
          plans'[side] = plans[side] /\ (side \in lost' <=> side \in lost)
    BY Changes
  <2>3. ~(step' > 22) => step # 22
    BY <1>1
  <2>4. "Final" \notin lost' /\ ~(step' > 22) => gauss'["Final"] \in {0, key.X * key.Y}
    BY <1>1, <2>3, Changes DEF Fitting, Kept
  <2>5. torn' = torn /\ key' = key
    BY <1>1
  <2>6. "X" \notin torn \cup lost' /\ ~Changed("X") /\ key.X > 0 => plans'["X"] = Plan(key.X)
    BY <1>1, <2>2 DEF Fitting, Kept
  <2>7. "Y" \notin torn \cup lost' /\ ~Changed("Y") /\ key.Y > 0 => plans'["Y"] = Plan(key.Y)
    BY <1>1, <2>2 DEF Fitting, Kept
  <2> QED
    BY <1>2, <2>1, <2>4, <2>5, <2>6, <2>7 DEF Kept
<1> QED
  BY <1>1, <1>7, <1>8 DEF Fitting

\* A call that is cut short leaves what it did not have to renew as it was.
LEMMA LeaveStep ==
  ASSUME TypeOK, Fitting, gpu_gaussianCorrelation, ~KeepKeys, pc' # "correlate"
  PROVE  Fitting'
<1>1. /\ pc = "correlate" /\ step \in 1 .. 22 /\ UNCHANGED <<patch, key>>
      /\ pc' = "crashed" \/ torn' = torn \cup BeingRenewed
      /\ DOMAIN args' = DOMAIN args
  BY Changes
<1>2. CASE pc' = "crashed"
  BY <1>1, <1>2 DEF Fitting, Renewed, Kept
<1>3. CASE torn' = torn \cup BeingRenewed
  <2>1. \A by \in {"area", "X", "Y"} : by \notin torn' => by \notin torn /\ ~Changed(by)
    BY <1>3 DEF BeingRenewed
  <2>2. "area" \notin torn' => \A b \in Buffers \ {"Final"} : gauss'[b] \in {0, key.area}
    BY <1>1, <2>1, Changes DEF Fitting, Kept, Changed
  <2>3. \A side \in {"X", "Y"} : ~Changed(side) =>
          plans'[side] = plans[side] /\ (side \in lost' <=> side \in lost)
    BY Changes
  <2>4. "X" \notin torn' \cup lost' /\ key.X > 0 => plans'["X"] = Plan(key.X)
    BY <1>1, <2>1, <2>3 DEF Fitting, Kept
  <2>5. "Y" \notin torn' \cup lost' /\ key.Y > 0 => plans'["Y"] = Plan(key.Y)
    BY <1>1, <2>1, <2>3 DEF Fitting, Kept
  <2>6. "Final" \notin lost' => gauss'["Final"] \in {0, key.X * key.Y}
    <3>1. step # 22
      <4>1. ASSUME step = 22 PROVE FALSE
        <5>1. Steps[step].do = "buffer" /\ Steps[step].name = "Final"
          BY <4>1, StepsMake
        <5>2. FinalExpImageSum
          BY <5>1 DEF gpu_gaussianCorrelation, CreateBuffer, CreateInputs, MakePlan, SetKernel,
             Enqueue, At
        <5> QED
          BY <1>1, <5>2 DEF FinalExpImageSum, Continue, Advance
      <4> QED
        BY <4>1
    <3> QED
      BY <1>1, <3>1, Changes DEF Fitting, Kept
  <2> QED
    BY <1>1, <2>2, <2>4, <2>5, <2>6 DEF Fitting, Renewed, Kept
<1> QED
  BY <1>1, <1>2, <1>3

\* A complete correlation leaves everything with its keys.
LEMMA KeepStep == ASSUME TypeOK, Fitting, KeepKeys PROVE Fitting'
<1>1. /\ pc = "correlate" /\ step = 23 /\ pc' # "correlate"
      /\ key' = [area |-> Area(patch), X |-> patch[1], Y |-> patch[2]]
      /\ torn' = torn \ BeingRenewed
      /\ UNCHANGED <<gauss, plans, args, lost>>
  <2>1. pc = "correlate" /\ step \in 1 .. 23
    BY Moves DEF gpu_gaussianCorrelation
  <2> QED
    BY <2>1, StepsInOrder DEF KeepKeys, At, Return
<1>2. \A by \in {"area", "X", "Y"} : by \notin torn' => Fit(by)
  BY <1>1 DEF BeingRenewed, Fit
<1>3. ASSUME "area" \notin torn', NEW b \in Buffers \ {"Final"} PROVE gauss[b] = Area(patch)
  <2>1. PICK i \in 1 .. 22 : Makes(i, b)
    BY StepsMake
  <2>2. Made(i)
    BY <1>1, <1>2, <1>3 DEF Fitting, Renewed
  <2> QED
    BY <2>1, <2>2 DEF Made, Makes
<1>4. /\ "X" \notin torn' \cup lost => plans["X"] = Plan(patch[1])
      /\ "Y" \notin torn' \cup lost => plans["Y"] = Plan(patch[2])
      /\ "Final" \notin lost => gauss["Final"] = patch[1] * patch[2]
  BY <1>1, <1>2 DEF Fitting, Renewed, Area
<1> QED
  BY <1>1, <1>3, <1>4 DEF Fitting, Renewed, Kept

LEMMA FittingStep == IInv /\ Fitting /\ [Next]_vars => Fitting'
<1> SUFFICES ASSUME TypeOK, Fitting, [Next]_vars PROVE Fitting'
  BY DEF IInv
<1>1. ASSUME pc \notin {"correlate", "crashed"}, pc' = "correlate" => step' = 1,
             UNCHANGED <<gauss, plans, key, args, torn, lost>>
      PROVE  Fitting'
  BY <1>1 DEF Fitting, Renewed, Kept
<1>2. CASE \E box \in Rois, s \in Surfaces : init(box, s)
  BY <1>1, <1>2 DEF init, correlation, history
<1>3. CASE \E s \in Surfaces : update(s)
  BY <1>1, <1>3 DEF update, correlation, history
<1>4. CASE getFeatures
  BY <1>1, <1>4, FeatureFrame DEF correlation
<1>5. CASE gpu_gaussianCorrelation
  BY <1>5, PassStep, LeaveStep, KeepStep
<1>6. CASE UNCHANGED vars
  BY <1>6 DEF vars, correlation, feature, history, Fitting, Renewed, Kept, Fit, Changed, Made,
     Area
<1> QED
  BY <1>2, <1>3, <1>4, <1>5, <1>6 DEF Next

-----------------------------------------------------------------------------
(* The theorems.                                                           *)

LEMMA IInvHolds == Spec => []IInv
<1>1. IInv /\ [Next]_vars => IInv'
  BY TypeStep, RegionStep, SizesStep, IndicesStep, TaskStep DEF IInv
<1> QED
  BY <1>1, InitIInv, PTL DEF Spec

(* The variables keep their types (the state of a KCFTracker object).      *)
THEOREM TypeCorrect == Spec => []TypeOK
<1>1. IInv => TypeOK
  BY DEF IInv
<1> QED
  BY <1>1, IInvHolds, PTL

(* Whatever region was detected, its patch has pixels in a direction       *)
(* exactly if the padded region is more than a twelfth of its larger side  *)
(* there, and only a thinner one ends the program without a failure of the *)
(* device (init, getFeatures, DFTInit).                                    *)
THEOREM PatchNotEmptyHolds == Spec => []PatchNotEmpty
<1>1. IInv => PatchNotEmpty
  <2> SUFFICES ASSUME IInv PROVE PatchNotEmpty
    OBVIOUS
  <2>1. ASSUME pc = "correlate", NEW i \in {1, 2}
        PROVE  /\ 12 * Padded(roi)[i] > Larger(Padded(roi)) => patch[i] > 0
               /\ 12 * Padded(roi)[i] < Larger(Padded(roi)) => patch[i] = 0
    <3>1. /\ roi \in Rois /\ HasTemplate(roi) /\ tmpl \in TemplateSizes(roi)
          /\ patch = MapSize(tmpl)
      BY <2>1 DEF IInv, Region, Sizes
    <3>2. /\ tmpl \in Templates
          /\ 12 * Padded(roi)[i] > Larger(Padded(roi)) => tmpl[i] >= 16
          /\ 12 * Padded(roi)[i] < Larger(Padded(roi)) => tmpl[i] = 8
      BY <2>1, <3>1, TemplateHasCells
    <3> QED
      BY <2>1, <3>1, <3>2, FittingMap
  <2>2. pc = "crashed" /\ faults = 0 => Slim(roi)
    BY DEF IInv, Region
  <2> QED
    BY <2>1, <2>2 DEF PatchNotEmpty, Slim
<1> QED
  BY <1>1, IInvHolds, PTL

(* The feature kernels run on surfaces of the size of the template, and on *)
(* live indices exactly for the frames that no failed renewal left behind  *)
(* (getFeatureMaps_gpu).                                                   *)
THEOREM FeaturesFitHold == Spec => []FeaturesFit
<1>1. IInv => FeaturesFit
  <2> SUFFICES ASSUME IInv PROVE FeaturesFit
    OBVIOUS
  <2>1. ASSUME pc = "extract"
        PROVE  /\ hog = [map |-> MapSize(tmpl), surfaces |-> tmpl]
               /\ pool[surf] = Live <=> surf \notin stale
    <3>1. tmpl \in Templates /\ template = tmpl /\ template # None
      BY <2>1, FittingMap DEF IInv, Sizes
    <3> QED
      BY <2>1, <3>1 DEF IInv, Sizes, Indices
  <2>2. ASSUME At("buffer"), NEW m \in DOMAIN shapes PROVE shapes[m] = patch
    <3>1. pc = "correlate" /\ m \in Matrices
      BY <2>2 DEF At, IInv, TypeOK, Matrices
    <3> QED
      BY <3>1 DEF IInv, Sizes
  <2> QED
    BY <2>1, <2>2 DEF FeaturesFit
<1> QED
  BY <1>1, IInvHolds, PTL

(* The task that is enqueued has every kernel and every synchronization    *)
(* once and in order, but those the device has refused to add              *)
(* (gpu_gaussianCorrelation).                                              *)
THEOREM StagesInOrderHold == Spec => []StagesInOrder
<1>1. IInv => StagesInOrder
  <2> SUFFICES ASSUME IInv, At("enqueue")
               PROVE  /\ \A i, j \in DOMAIN task : i < j => task[i] < task[j]
                      /\ Range(task) = Pieces \ refused
    BY DEF StagesInOrder
  <2>1. step \in 1 .. 23 /\ Done[step] = 8 /\ pc = "correlate"
    <3>1. pc = "correlate" /\ Steps[step].do = "enqueue"
      BY DEF At
    <3>2. step \in 1 .. 23
      BY <3>1, StepsInOrder DEF IInv, TypeOK
    <3> QED
      BY <3>1, <3>2, StepsInOrder
  <2>2. PICK n \in 0 .. 8 : Reached(n) /\ 8 <= n
    BY <2>1 DEF IInv, Task
  <2>3. n = 8 /\ Pieces = 1 .. 2 * n
    BY <2>2 DEF Pieces, Stages
  <2> QED
    BY <2>2, <2>3 DEF Reached
<1> QED
  BY <1>1, IInvHolds, PTL

(* When the correlation is enqueued, its kernels work on buffers of the    *)
(* patch and its transforms read in the order of its sides, and its result *)
(* has the size of the patch, but for what a call cut short left half      *)
(* renewed for a size that has not changed since, and for a creation that  *)
(* failed unnoticed (gpu_gaussianCorrelation, DFTInit).                    *)
THEOREM CorrelationFit == Spec => []CorrelationFits
<1>1. IInv /\ Fitting => CorrelationFits
  <2> SUFFICES ASSUME IInv, Fitting PROVE CorrelationFits
    OBVIOUS
  <2>1. ASSUME At("enqueue") PROVE pc = "correlate" /\ step = 20
    <3>1. pc = "correlate" /\ Steps[step].do = "enqueue"
      BY <2>1 DEF At
    <3>2. step \in 1 .. 23
      BY <3>1, StepsInOrder DEF IInv, TypeOK
    <3>3. \A i \in 1 .. 23 : Steps[i].do = "enqueue" => i = 20
      BY ONLY StepsMake, Zenon
    <3> QED
      BY <3>1, <3>2, <3>3
  <2>2. ASSUME At("enqueue"), Fit("area"), NEW k \in Range(Stages) PROVE args[k] = {Area(patch)}
    <3>1. \A i \in 1 .. 19 : Made(i)
      BY <2>1, <2>2 DEF Fitting, Renewed
    <3>2. PICK i \in 1 .. 19 : Steps[i].do = "kernel" /\ Steps[i].name = k
      BY StepsMake
    <3> QED
      BY <3>1, <3>2 DEF Made
  <2>3. ASSUME At("enqueue"), NEW side \in {"X", "Y"}, Fit(side), side \notin lost
        PROVE  plans[side].length = Side(side) /\ DigitReversal(plans[side])
    <3>1. plans[side] = Plan(Side(side)) /\ Side(side) > 0
      BY <2>1, <2>3 DEF Fitting, Renewed, Side
    <3>2. patch = MapSize(tmpl) /\ tmpl \in Templates
      BY <2>1, <2>3 DEF IInv, Sizes
    <3>3. Side(side) \in Sides
      BY <2>3, <3>1, <3>2, FittingMap DEF Side
    <3>4. \A n \in Sides : Plan(n).length = n
      BY DEF Plan
    <3> QED
      BY <3>1, <3>3, <3>4, PlansReverseDigits
  <2>4. ASSUME At("keys"), "Final" \notin lost PROVE gauss["Final"] = Area(patch)
    <3>1. pc = "correlate" /\ Steps[step].do = "keys"
      BY <2>4 DEF At
    <3>2. step \in 1 .. 23
      BY <3>1, StepsInOrder DEF IInv, TypeOK
    <3>3. \A i \in 1 .. 23 : Steps[i].do = "keys" => i = 23
      BY ONLY StepsInOrder, Zenon
    <3>4. step = 23
      BY <3>1, <3>2, <3>3
    <3> QED
      BY <2>4, <3>1, <3>4 DEF Fitting, Renewed
  <2> QED
    BY <2>2, <2>3, <2>4 DEF CorrelationFits, Fit, Side
<1>2. Spec => []Fitting
  <2>1. IInv /\ Fitting /\ [Next]_vars => Fitting'
    BY FittingStep
  <2> QED
    BY <2>1, InitFitting, IInvHolds, PTL DEF Spec
<1> QED
  BY <1>1, <1>2, IInvHolds, PTL
=============================================================================

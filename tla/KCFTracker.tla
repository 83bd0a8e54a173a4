----------------------------- MODULE KCFTracker -----------------------------
(***************************************************************************)
(* One KCFTracker object: the GPU resources it caches between frames.  A   *)
(* key frame calls init with a new region, every other frame update; both  *)
(* extract features (getFeatures) and correlate them                       *)
(* (gpu_gaussianCorrelation).  The size of the template follows the region *)
(* of the last key frame, so every surface, buffer, index and transform    *)
(* plan must be renewed when the size changes, and only then.              *)
(*                                                                         *)
(* Pixel values, the peak search and the position of the region are left   *)
(* out.  A 2D size is <<width, height>>.  A step in which the device fails *)
(* is a choice: MaxFaults bounds how many there are.  A region may be of   *)
(* any size: neither the detector nor main.cpp nor init bounds it.         *)
(***************************************************************************)
EXTENDS DFT

CONSTANTS Rois,       \* sizes of detected regions, in pixels
          Surfaces,   \* the VASurfaceIDs of the decoded frames
          MaxFaults   \* in how many steps a call of the device may fail

VARIABLES pc,         \* what the tracker does next
          step,       \* where in the correlation it is, 0 when not in it
          op,         \* "init", "detect" or "train": what it does it for
          faults,     \* steps in which the device failed so far
          roi,        \* the size of _roi, the region of the last key frame
          surf,       \* the frame it works on
          tmpl,       \* _tmpl_sz
          template,   \* templateWidth and templateHeight
          patch,      \* size_patch, from the feature map
          shapes,     \* sizes of hann, _tmpl, _prob and _alphaf
          hog,        \* sizes of SVMFeaturemap and of the feature surfaces
          pool,       \* the indices kept for each decoded frame
          hogTask,    \* pKernelArrayGetFeatures: how many pieces it was given
          gauss,      \* buffers by name: their size, 0 when there is none
          plans,      \* pParamSurfHUP and pParamBufferV
          key,        \* gWidth (= sizeX * sizeY), gPitchX, gPitchY
          kernels,    \* the kernel_* that are not NULL
          task,       \* pKernelArray: the pieces added to it
          args,       \* sizes of the buffers each kernel was given
          \* History, for the properties:
          stale,      \* frames whose indices were left behind by a failure
          torn,       \* sizes that were half renewed when a call was cut short
          lost,       \* what a failure the code does not look at left unmade
          refused     \* pieces the device did not add to pKernelArray

feature == <<tmpl, template, patch, hog, pool, hogTask>>
correlation == <<gauss, plans, key, kernels, task, args>>
history == <<stale, torn, lost, refused>>
vars == <<pc, step, op, faults, roi, surf, shapes, feature, correlation, history>>

ASSUME TrackerAssumption ==
    /\ \A box \in Rois : box[1] \in Int /\ box[2] \in Int
    /\ Surfaces \subseteq Nat /\ Surfaces # {}
    /\ MaxFaults \in Nat

None == <<-1, -1>>
Area(size) == size[1] * size[2]
NoPixels(size) == size[1] = 0 \/ size[2] = 0
Larger(size) == IF size[1] >= size[2] THEN size[1] ELSE size[2]
CellSize == 4

-----------------------------------------------------------------------------
(* The size of the template: the padded region, its larger side scaled to 96
   pixels and both sides rounded up to the next multiple of two cells.  The
   division is in single precision, so an exact quotient may be cut to the
   integer below. *)
Scaled(side, larger) ==
    LET q == (side * 96) \div larger
    IN  IF side > 0 /\ (side * 96) % larger = 0 THEN {q - 1, q} ELSE {q}

Padded(box) == <<(box[1] * 5) \div 2, (box[2] * 5) \div 2>>

\* Faulty: rounded down.
TemplateSizesCut(box) ==
    LET p == Padded(box)
        Cut(x) == (x \div (2 * CellSize)) * 2 * CellSize
    IN  {<<Cut(s[1]), Cut(s[2])>> : s \in Scaled(p[1], Larger(p)) \X Scaled(p[2], Larger(p))}

Round(x) == (x \div (2 * CellSize)) * 2 * CellSize + 2 * CellSize

TemplateSizes(box) ==
    LET p == Padded(box)
    IN  {<<Round(s[1]), Round(s[2])>> :
            s \in {t \in Scaled(p[1], Larger(p)) \X Scaled(p[2], Larger(p)) :
                     p[1] = p[2] => t[1] = t[2]}}

\* init asserts that no side is negative; a region without extent makes the
\* scale zero, and the conversion of 0 / 0 to an integer is undefined.
HasTemplate(box) == box[1] >= 0 /\ box[2] >= 0 /\ Larger(Padded(box)) > 0

\* The feature map has a cell less on every side.
MapSize(size) == <<size[1] \div CellSize - 2, size[2] \div CellSize - 2>>

\* The sides it can have when it has pixels, and what the transforms of these
\* lengths read: a fact about DFT that depends on no constant and is
\* established by computing it.
Sides == {2 * k : k \in 1 .. 12}

ASSUME PlansReverseDigits == \A n \in Sides : DigitReversal(Plan(n))

-----------------------------------------------------------------------------
(* The task of gpu_gaussianCorrelation, in the order of the code. *)
Buffer(name, by) == [do |-> "buffer", name |-> name, by |-> by, uses |-> {}]
PlanOf(side) == [do |-> "plan", name |-> side, by |-> side, uses |-> {}]
Kernel(name, uses) == [do |-> "kernel", name |-> name, by |-> "", uses |-> uses]
Inputs == [do |-> "inputs", name |-> "", by |-> "area", uses |-> {}]
Finally(do) == [do |-> do, name |-> "", by |-> "", uses |-> {}]

ForwardSteps ==
    << Buffer("H_F_0", "area"), Inputs,
       PlanOf("X"), Kernel("H_F_0", {"Surf0", "H_F_0"}),
       PlanOf("Y"), Buffer("V_F_0", "area"), Kernel("V_F_0", {"H_F_0", "V_F_0"}),
       Buffer("H_F_1", "area"), Kernel("H_F_1", {"Surf1", "H_F_1"}),
       Buffer("V_F_1", "area"), Kernel("V_F_1", {"H_F_1", "V_F_1"}) >>

InverseSteps ==
    << Buffer("MulSpectrum", "area"), Kernel("MulSpec", {"V_F_0", "V_F_1", "MulSpectrum"}),
       Buffer("H_V_1", "area"), Kernel("H_I", {"MulSpectrum", "H_V_1"}),
       Buffer("V_V_1", "area"), Kernel("V_I", {"H_V_1", "V_V_1"}),
       Buffer("InvSum", "area"), Kernel("ImageSum", {"V_V_1", "InvSum"}),
       Finally("enqueue"),
       Buffer("SrcImageSum", "area"), Buffer("Final", "pitch"),
       Finally("keys") >>

Steps == ForwardSteps \o InverseSteps
\* The kernels in the order of the data flow: both transforms, the product of
\* the spectra, the inverse transform and the sum.
Stages == <<"H_F_0", "V_F_0", "H_F_1", "V_F_1", "MulSpec", "H_I", "V_I", "ImageSum">>
\* Each kernel is followed by a synchronization: pieces 2 * i - 1 and 2 * i of
\* the whole task.
Place(k) == CHOOSE i \in DOMAIN Stages : Stages[i] = k
Pieces == 1 .. 2 * Len(Stages)

Buffers == {Steps[i].name : i \in {j \in DOMAIN Steps : Steps[j].do = "buffer"}}
             \cup {"Surf0", "Surf1"}

-----------------------------------------------------------------------------
TypeOK ==
    /\ pc \in {"idle", "resize", "indices", "frame", "extract", "hann", "correlate", "crashed"}
    /\ step \in 0 .. Len(Steps) /\ (pc = "correlate" => step > 0)
    /\ op \in {"init", "detect", "train"}
    /\ faults \in 0 .. MaxFaults
    /\ roi \in Rois \cup {None} /\ surf \in Surfaces
    /\ tmpl \in Nat \X Nat /\ template \in Int \X Int /\ patch \in Nat \X Nat
    /\ shapes \in [{"hann", "_tmpl", "_prob", "_alphaf"} -> Int \X Int]
    /\ hog \in [map : Int \X Int, surfaces : Int \X Int]
    /\ pool \in [Surfaces -> [sampler : {"none", "live", "destroyed"},
                              surface : {"none", "live", "destroyed"}]]
    /\ hogTask \in -1 .. 5
    /\ gauss \in [Buffers -> Nat]
    /\ DOMAIN plans = {"X", "Y"}
    /\ key \in [area : Nat, X : Nat, Y : Nat]
    /\ kernels \subseteq Range(Stages)
    /\ task \in Seq(Pieces)
    /\ stale \subseteq Surfaces
    /\ torn \subseteq {"area", "X", "Y"}
    /\ lost \subseteq {"X", "Y", "Final"}
    /\ refused \subseteq Pieces

NoTask == -1
NoPlan == [length |-> 0]

\* The constructor and initMDF: nothing is created yet but the device, the
\* program, the task and the queue of the correlation.
Init ==
    /\ pc = "idle" /\ step = 0 /\ op = "init" /\ faults = 0
    /\ roi = None /\ surf = CHOOSE s \in Surfaces : TRUE
    /\ tmpl = <<0, 0>> /\ template = None /\ patch = <<0, 0>>
    /\ shapes = [m \in {"hann", "_tmpl", "_prob", "_alphaf"} |-> None]
    /\ hog = [map |-> None, surfaces |-> None]
    /\ pool = [s \in Surfaces |-> [sampler |-> "none", surface |-> "none"]]
    /\ hogTask = NoTask
    /\ gauss = [b \in Buffers |-> 0]
    /\ plans = [side \in {"X", "Y"} |-> NoPlan]
    /\ key = [area |-> 0, X |-> 0, Y |-> 0]
    /\ kernels = {} /\ task = <<>>
    /\ args = [k \in Range(Stages) |-> {}]
    /\ stale = {} /\ torn = {} /\ lost = {} /\ refused = {}

-----------------------------------------------------------------------------
\* init: a key frame gave the target a new region.
init(box, s) ==
    /\ pc = "idle"
    /\ op' = "init" /\ roi' = box /\ surf' = s
    /\ \/ /\ HasTemplate(box)
          /\ tmpl' \in TemplateSizes(box)
          /\ pc' = "resize"
       \/ /\ ~HasTemplate(box)
          /\ pc' = "crashed" /\ UNCHANGED tmpl
    /\ UNCHANGED <<step, faults, shapes, template, patch, hog, pool, hogTask,
                   correlation, history>>

\* update: any other frame; the template keeps its size.
update(s) ==
    /\ pc = "idle" /\ shapes["_tmpl"] # None
    /\ op' = "detect" /\ surf' = s
    /\ pc' = "resize"
    /\ UNCHANGED <<step, faults, roi, shapes, feature, correlation, history>>

\* A step succeeds, or fails while the bound allows it.  A surface or buffer
\* without pixels may be refused at any time.
Succeeds == faults' = faults
Fails == faults < MaxFaults /\ faults' = faults + 1
Refuses(size) == Fails \/ (NoPixels(size) /\ Succeeds)

\* A null pointer is used, OpenCV throws or the code calls exit.
Crash == Fails /\ pc' = "crashed"

-----------------------------------------------------------------------------
(* getFeatureMaps_gpu *)

\* A new size: the feature map, the sampler and the four surfaces are created
\* anew, and the sampler of the pooled indices is gone.
refreshKernels ==
    /\ pc = "resize" /\ tmpl # template
    /\ template' = tmpl
    /\ hog' = [map |-> MapSize(tmpl), surfaces |-> tmpl]
    /\ pool' = [s \in Surfaces |-> IF pool[s].sampler = "none" THEN pool[s]
                                   ELSE [pool[s] EXCEPT !.sampler = "destroyed"]]
    /\ Succeeds /\ pc' = "indices"
    /\ UNCHANGED <<step, op, roi, surf, shapes, tmpl, patch, hogTask, correlation, history>>

\* The smallest surface has the size of the map.
refreshKernelsFails ==
    /\ pc = "resize" /\ tmpl # template
    /\ Refuses(MapSize(tmpl)) /\ pc' = "crashed"
    /\ UNCHANGED <<step, op, roi, surf, shapes, feature, correlation, history>>

SameSize ==
    /\ pc = "resize" /\ tmpl = template
    /\ pc' = "frame"
    /\ UNCHANGED <<step, op, faults, roi, surf, shapes, feature, correlation, history>>

Live == [sampler |-> "live", surface |-> "live"]
Pooled == {s \in Surfaces : pool[s].sampler # "none"}

\* Faulty: the sampler index is kept.
RefreshSurfacesOnly ==
    /\ pc = "indices"
    /\ pool' = [s \in Surfaces |-> IF s \in Pooled THEN [pool[s] EXCEPT !.surface = "live"]
                                   ELSE pool[s]]
    /\ stale' = {}
    /\ Succeeds /\ pc' = "frame"
    /\ UNCHANGED <<step, op, roi, surf, shapes, tmpl, template, patch, hog, hogTask,
                   correlation, torn, lost, refused>>

\* The indices of every frame seen so far are renewed, the last one first.
RefreshIndices ==
    /\ pc = "indices"
    /\ pool' = [s \in Surfaces |-> IF s \in Pooled THEN Live ELSE pool[s]]
    /\ stale' = {}
    /\ Succeeds /\ pc' = "frame"
    /\ UNCHANGED <<step, op, roi, surf, shapes, tmpl, template, patch, hog, hogTask,
                   correlation, torn, lost, refused>>

\* The one that cannot be created ends the call: its surface index has been
\* destroyed, and neither it nor the frames before it get the new sampler.
RefreshIndicesFails ==
    /\ pc = "indices"
    /\ \E bad \in Pooled :
         /\ pool' = [s \in Surfaces |->
                       IF s \in Pooled /\ s > bad THEN Live
                       ELSE IF s = bad THEN [sampler |-> "destroyed", surface |-> "destroyed"]
                       ELSE pool[s]]
         /\ stale' = {s \in Pooled : s <= bad}
    /\ Fails /\ pc' = "hann"
    /\ UNCHANGED <<step, op, roi, surf, shapes, tmpl, template, patch, hog, hogTask,
                   correlation, torn, lost, refused>>

\* The indices of a frame seen for the first time.
CreateSampler8x8Surface ==
    /\ pc = "frame"
    /\ \/ /\ surf \in Pooled
          /\ Succeeds /\ pc' = "extract"
          /\ UNCHANGED pool
       \/ /\ surf \notin Pooled
          /\ Succeeds /\ pc' = "extract"
          /\ pool' = [pool EXCEPT ![surf] = Live]
       \/ /\ surf \notin Pooled
          /\ Fails /\ pc' = "hann"
          /\ UNCHANGED pool
    /\ UNCHANGED <<step, op, roi, surf, shapes, tmpl, template, patch, hog, hogTask,
                   correlation, history>>

\* The task of three kernels and two synchronizations is put together once
\* and runs on every call.  That the map could not be read back is only
\* printed.  Without its queue the task is left for the next call; a piece
\* that is refused ends the call, and the task stays as it is for good.
Extract ==
    /\ pc = "extract"
    /\ \/ /\ hogTask' = IF hogTask = NoTask THEN 5 ELSE hogTask
          /\ Succeeds \/ Fails
          /\ pc' = "hann"
       \/ /\ hogTask = NoTask
          /\ hogTask' \in {NoTask} \cup 0 .. 4
          /\ Fails /\ pc' = "hann"
       \/ Crash /\ UNCHANGED hogTask
    /\ UNCHANGED <<step, op, roi, surf, shapes, tmpl, template, patch, hog, pool,
                   correlation, history>>

\* The end of getFeatures, and of what init does before train.
HannSize == hog.map

ApplyHann ==
    /\ pc = "hann"
    /\ patch' = hog.map
    /\ shapes' = IF op = "init"
                 THEN [m \in DOMAIN shapes |-> IF m = "hann" THEN HannSize ELSE hog.map]
                 ELSE shapes
    /\ pc' = "correlate" /\ step' = 1
    /\ UNCHANGED <<op, faults, roi, surf, tmpl, template, hog, pool, hogTask,
                   correlation, history>>

-----------------------------------------------------------------------------
(* gpu_gaussianCorrelation *)

\* Its result is ignored: detect goes on to train, init and train are done.
Return ==
    /\ op' = IF op = "detect" THEN "train" ELSE op
    /\ pc' = IF op = "detect" THEN "resize" ELSE "idle"
    /\ step' = 0
Advance == pc' = pc /\ step' = step + 1 /\ op' = op /\ torn' = torn
Continue == Succeeds /\ Advance

At(kind) == pc = "correlate" /\ Steps[step].do = kind

\* Faulty: the plans are renewed with the buffers only.
ChangedByArea(by) == key.area # Area(patch)

\* The sizes the resources were created for are no longer those of the patch.
Changed(by) ==
    CASE by = "area"  -> key.area # Area(patch)
      [] by = "pitch" -> key.X # patch[1] \/ key.Y # patch[2]
      [] by = "X"     -> key.X # patch[1]
      [] by = "Y"     -> key.Y # patch[2]

\* The call is given up between two resources of a size that changed.
BeingRenewed == {by \in {"area", "X", "Y"} : Changed(by)}
CutShort == Return /\ torn' = torn \cup BeingRenewed

CreateBuffer ==
    /\ At("buffer") /\ Steps[step].name # "Final"
    /\ LET b == Steps[step].name
           renew == gauss[b] = 0 \/ Changed(Steps[step].by)
       IN  \/ /\ gauss' = IF renew THEN [gauss EXCEPT ![b] = Area(patch)] ELSE gauss
              /\ Continue
           \/ /\ renew
              /\ gauss' = [gauss EXCEPT ![b] = 0]
              /\ Refuses(patch) /\ CutShort
           \/ /\ renew /\ b = "SrcImageSum"  \* memory is there, its buffer is not
              /\ gauss' = [gauss EXCEPT ![b] = Area(patch)]
              /\ Crash /\ UNCHANGED <<step, op, torn>>
    /\ UNCHANGED <<roi, surf, shapes, feature, plans, key, kernels, task, args,
                   stale, lost, refused>>

\* Call_FianlExpImageSum may give up before it looks at the size, when it
\* creates the buffer or after: the caller does not look at its result.
FinalExpImageSum ==
    /\ At("buffer") /\ Steps[step].name = "Final"
    /\ LET renew == gauss["Final"] = 0 \/ Changed("pitch")
       IN  \/ /\ gauss' = IF renew THEN [gauss EXCEPT !["Final"] = Area(patch)] ELSE gauss
              /\ lost' = IF renew THEN lost \ {"Final"} ELSE lost
              /\ Continue
           \/ /\ renew
              /\ gauss' \in {gauss, [gauss EXCEPT !["Final"] = 0]}
              /\ lost' = lost \cup {"Final"}
              /\ Fails /\ Advance
    /\ UNCHANGED <<roi, surf, shapes, feature, plans, key, kernels, task, args,
                   stale, refused>>

\* Only the second creation is checked; then both surfaces are written.
CreateInputs ==
    /\ At("inputs")
    /\ LET renew == gauss["Surf0"] = 0 \/ gauss["Surf1"] = 0 \/ Changed("area")
           Created(m, n) == [gauss EXCEPT !["Surf0"] = m, !["Surf1"] = n]
           whole == IF renew THEN Created(Area(patch), Area(patch)) ELSE gauss
       IN  \/ /\ gauss' = whole
              /\ Continue \/ (Fails /\ CutShort)
           \/ /\ renew
              /\ gauss' \in {Created(Area(patch), 0), Created(0, 0)}
              /\ Refuses(patch) /\ CutShort
           \/ /\ renew
              /\ gauss' = Created(0, Area(patch))
              /\ Crash /\ UNCHANGED <<step, op, torn>>
    /\ UNCHANGED <<roi, surf, shapes, feature, plans, key, kernels, task, args,
                   stale, lost, refused>>

\* DFTInit writes before its table for a side without pixels, or there is no
\* plan yet to be used.  That the plan's buffer could not be created is not
\* looked at: the pointer that is used next is null or that of the buffer
\* destroyed before.
MakePlan ==
    /\ At("plan")
    /\ LET side == Steps[step].name
           n    == IF side = "X" THEN patch[1] ELSE patch[2]
       IN  \/ /\ n > 0
              /\ plans' = IF Changed(side) THEN [plans EXCEPT ![side] = Plan(n)] ELSE plans
              /\ lost' = IF Changed(side) THEN lost \ {side} ELSE lost
              /\ Continue
           \/ /\ n > 0 /\ Changed(side)
              /\ plans' = [plans EXCEPT ![side] = NoPlan]
              /\ \/ lost' = lost /\ Fails /\ CutShort
                 \/ lost' = lost \cup {side} /\ Fails /\ Advance
                 \/ lost' = lost \cup {side} /\ Crash /\ UNCHANGED <<step, op, torn>>
           \/ /\ n = 0
              /\ pc' = "crashed"
              /\ UNCHANGED <<step, op, faults, torn, plans, lost>>
    /\ UNCHANGED <<roi, surf, shapes, feature, gauss, key, kernels, task, args,
                   stale, refused>>

\* Faulty: it is created and added on every call.
NewAlways(k) == k \in Range(Stages)

\* A kernel is created and added to the task once.
New(k) == k \notin kernels

\* It gets its arguments on every call.  The result of AddKernel is
\* overwritten by that of AddSync, whose failure ends the call; either way the
\* kernel is not NULL and what was refused is never added again.
SetKernel ==
    /\ At("kernel")
    /\ LET k == Steps[step].name
           kernel == 2 * Place(k) - 1
           sync == 2 * Place(k)
           given == [args EXCEPT ![k] = {gauss[b] : b \in Steps[step].uses}]
       IN  \/ /\ ~New(k)
              /\ args' = given
              /\ Continue /\ UNCHANGED <<kernels, task, refused>>
           \/ /\ New(k)
              /\ kernels' = kernels \cup {k}
              /\ \/ /\ task' = Append(Append(task, kernel), sync)
                    /\ args' = given /\ Continue /\ UNCHANGED refused
                 \/ /\ task' = Append(task, sync)
                    /\ refused' = refused \cup {kernel}
                    /\ args' = given /\ Fails /\ Advance
                 \/ /\ task' = Append(task, kernel)
                    /\ refused' = refused \cup {sync}
                    /\ UNCHANGED args /\ Fails /\ CutShort
                 \/ /\ refused' = refused \cup {kernel, sync}
                    /\ UNCHANGED <<task, args>> /\ Fails /\ CutShort
           \/ /\ New(k) /\ Fails /\ CutShort            \* CreateKernel
              /\ UNCHANGED <<kernels, task, args, refused>>
           \/ /\ New(k) /\ k = "MulSpec"               \* which is not checked
              /\ Crash /\ UNCHANGED <<step, op, kernels, task, args, torn, refused>>
    /\ UNCHANGED <<roi, surf, shapes, feature, gauss, plans, key, stale, lost>>

Enqueue ==
    /\ At("enqueue")
    /\ Continue \/ (Fails /\ CutShort)
    /\ UNCHANGED <<roi, surf, shapes, feature, correlation, stale, lost, refused>>

\* Every resource of a size that changed belongs to the patch now.
KeepKeys ==
    /\ At("keys")
    /\ key' = [area |-> Area(patch), X |-> patch[1], Y |-> patch[2]]
    /\ torn' = torn \ BeingRenewed
    /\ Succeeds /\ Return
    /\ UNCHANGED <<roi, surf, shapes, feature, gauss, plans, kernels, task, args,
                   stale, lost, refused>>

-----------------------------------------------------------------------------
getFeatures ==
    \/ refreshKernels \/ refreshKernelsFails \/ SameSize
    \/ RefreshIndices \/ RefreshIndicesFails
    \/ CreateSampler8x8Surface \/ Extract \/ ApplyHann

gpu_gaussianCorrelation ==
    \/ CreateBuffer \/ FinalExpImageSum \/ CreateInputs \/ MakePlan
    \/ SetKernel \/ Enqueue \/ KeepKeys

Next ==
    \/ \E box \in Rois, s \in Surfaces : init(box, s)
    \/ \E s \in Surfaces : update(s)
    \/ getFeatures
    \/ gpu_gaussianCorrelation

Spec == Init /\ [][Next]_vars

-----------------------------------------------------------------------------
\* When the feature kernels run, their surfaces, the map they are read into and
\* the window have the size of the current template, and the two indices of the
\* frame are those of a live sampler and a live surface.  Only the frames that
\* a renewal cut short left behind keep destroyed ones: the code does not come
\* back to them before the size changes again.
FeaturesFit ==
    /\ pc = "extract" =>
         /\ hog = [map |-> MapSize(tmpl), surfaces |-> tmpl]
         /\ pool[surf] = Live <=> surf \notin stale
    /\ At("buffer") =>
         \A m \in DOMAIN shapes : shapes[m] = patch

\* A patch has pixels in a direction exactly if the padded region is more than
\* a twelfth of its larger side there: what the detector finds is not bounded,
\* so a thinner region, or one without extent, leaves nothing to correlate or
\* ends the program.  Unless the device fails, no other region does.
PatchNotEmpty ==
    /\ pc = "correlate" => \A i \in {1, 2} :
         /\ 12 * Padded(roi)[i] > Larger(Padded(roi)) => patch[i] > 0
         /\ 12 * Padded(roi)[i] < Larger(Padded(roi)) => patch[i] = 0
    /\ pc = "crashed" /\ faults = 0 =>
         \E i \in {1, 2} : 12 * Padded(roi)[i] <= Larger(Padded(roi))

\* When the correlation is enqueued, its kernels work on buffers of the patch
\* and the transforms follow the digit reversal of its two sides; when it is
\* done, so is its result.  What a call that was cut short had renewed for a
\* size stays wrong as long as the patch has the size of the last complete
\* call, and a plan or result whose creation failed unnoticed until that size
\* changes.
CorrelationFits ==
    /\ At("enqueue") =>
         /\ "area" \notin torn \/ Changed("area") =>
              \A k \in Range(Stages) : args[k] = {Area(patch)}
         /\ \A side \in {"X", "Y"} :
              (side \notin torn \/ Changed(side)) /\ side \notin lost =>
                /\ plans[side].length = IF side = "X" THEN patch[1] ELSE patch[2]
                /\ DigitReversal(plans[side])
    /\ At("keys") /\ "Final" \notin lost => gauss["Final"] = Area(patch)

\* The task that is enqueued has every stage and every synchronization once and
\* in the order of the data flow, but those the device refused to add: it is
\* put together across calls of which any may have been cut short.
StagesInOrder ==
    At("enqueue") =>
        /\ \A i, j \in DOMAIN task : i < j => task[i] < task[j]
        /\ Range(task) = Pieces \ refused
=============================================================================

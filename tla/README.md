# Verification of the Intel media-lab video analytics example

TLA+ specifications, TLC runs and TLAPS proofs for the program in
`video_analytics_Intel_GPU/` of this repository. Paths and line numbers below
refer to `video_analytics_Intel_GPU/video_analytics_example/` unless they say
otherwise.

The program decodes up to several H.264 streams, scales the frames, sends them
in batches to a neural network, and shows or follows the detected objects. What
makes it hard is not the arithmetic but the plumbing: seven kinds of threads, two
kinds of pipes, half a dozen semaphores, buffers that one thread fills and
another returns, and a detector that answers a batch later than it is asked.

## 1. Inventory

| Part | State | Operations | Talks to |
|---|---|---|---|
| Buffer pipe `VaDualPipe` (`dualpipe.cpp`) | lists `m_inPipe` (idle) and `m_outPipe` (stored), a mutex, a condition variable | `Initialize`, `Get`, `Store`, `Load` (with or without timeout), `LoadNoWait`, `Put`, destructor | decoders, scheduler, inference and tracker threads |
| `Detector` (`detector.cpp`, `.hpp`) | mode, `nbatch_index_`, queue `imginfoque_`, two inference requests and their blobs | `Load`, `SetMode`, `InsertImage` | Inference Engine, scheduler or inference threads |
| Decoding threads (`DecodeThreadFunc`, main.cpp:423) | one per channel: the surface and buffer in hand, frame counters | decode, `Get`, fill, `Store`, `sem_post` | their pipe(s), scheduler, tracker |
| Scheduler (`ScheduleThreadFunc`, main.cpp:995) | the pipe it visits, the frame in hand | `sem_wait`, `Load`, `Put`, `InsertImage`, or `LoadNoWait` and hand-over | pipes, detector, display, inference threads |
| Inference threads (`InferThreadFunc`, main.cpp:1244) | queue `gtaskque[i]`, semaphore `gsemtInfer[i]` | pop, `Put`, `InsertImage` | scheduler, pipes, detector |
| Display thread (`DisplayThreadFunc`, main.cpp:307) | queue `gresultque`, semaphore `g_semtshow` | `sem_wait`, pop, draw | scheduler, inference threads, tracker |
| Tracker threads (`TrackerThreadFunc`, main.cpp:746; KCF build only) | frame in hand, targets | `sem_wait`, `Load`, wait for boxes, `init`/`update`, unlock, `Put` | decoder, scheduler |
| Main thread (main.cpp:1388) | `grunning` | initialise, create threads, wait for Ctrl-C, post, join | everybody |
| Statistics thread (`thr_fps`, main.cpp:267) | counters | print and reset | decoders (without a lock) |
| Frame allocator (`common.cpp`:457, 653) | reference counts of surface pools | `simple_alloc`, `simple_free` | Media SDK |
| KCF tracker (`kcftracker.cpp`, `fhog.cpp`, `SetupSurface.cpp`) | the template's size, GPU surfaces, buffers, transform plans and a task, all kept between calls | `init`, `update` | tracker threads, the GPU |
| Custom layers (`../extension/`) | the registry of layer types; buffers of DetectionOutput; output blobs that are used again | `getFactoryFor`, `getSupportedConfigurations`, `init`, `execute` | Inference Engine, `Detector` |

The three builds differ in who runs the detector: by default the scheduler
does; with `ENABLE_WORKLOAD_BALANCE` two inference threads do; with
`TEST_KCF_TRACK_WITH_GPU` the scheduler does, for every sixth frame only, and
tracker threads follow the boxes through the frames between.

What is hard, and what makes each part correct:

* **Pipe.** `Store` signals after it has unlocked; `LoadNoWait` may take the
  buffer a signal was meant for; a timed `Load` may time out while it is
  signalled; buffers are returned by other threads than those that loaded them.
  Correct: a FIFO pool in which every buffer is in one place, nobody sleeps
  while there is work for him, and producers get their buffers back.
* **Detector.** In asynchronous mode the answer belongs to the batch before, and
  nothing but the length of a queue keeps answers and pictures together.
  Correct: an in-order service whose boxes belong to the picture they are
  returned with; a blob is not written while its request runs.
* **Decoder, scheduler, inference threads.** Semaphore tokens and frames only
  agree on average: a scan of all pipes takes one token and any number of frames.
  Buffer fields are read after the buffer was given back. Threads are created
  before the semaphore they post is initialised, and stopped in an order of
  which each step can block. Correct: no frame is lost, doubled or overtaken,
  no channel starves, nobody sleeps beside work, and shutdown ends.
* **Display.** Two batches are cached; scheduler and display wait for each other.
* **Tracker threads.** Frames and boxes reach them over two paths that only
  their order keeps together, and they hold buffers while they wait.
* **KCF tracker.** Every GPU object is created once and kept until the size of the
  template changes; each is guarded by its own comparison of sizes, any call of the
  device may fail and end the correlation half-way, and the keys are written last.
  Nothing bounds the regions. Correct: a kernel runs on live objects of the size of the
  patch, and the patch has pixels. The code does not keep all of this after a failure,
  nor for thin regions; the properties say exactly where it does.
* **Custom layers.** Threads of one layer share buffers, output blobs keep the rows
  of earlier batches, and the reader of a blob has to find its end. The rest is
  index arithmetic. Correct: suppression keeps the greedy set, nothing of an
  earlier batch is reported, every value is stored at its place.

`PROJECT.json` lists each hazard at its line with the properties that watch it.

## 2. Modules

| Module | Models | Rests on |
|---|---|---|
| `BufferPool` | what a pipe promises: a FIFO pool of exclusively owned buffers | |
| `DualPipe` | `VaDualPipe` with mutex, condition variable, polling, timeouts, spurious wakeups | implements `BufferPool` |
| `DualPipeProofs` | theorems about `DualPipe` | `DualPipe` |
| `BatchService` | what a detector promises: accept, report in order, forget | |
| `Detector` | `Load`, `SetMode`, `InsertImage`, both requests, both modes | implements `BatchService` |
| `DetectorProofs` | theorems about `Detector` | `Detector` |
| `Decoding` | the decoding threads, their pipes, `grunning`, `gNewtaskAvaiable` | uses pipes as `BufferPool` says |
| `DecodingProofs` | lemmas about lists of buffers, what lies in them, and frame numbers, which both builds rest on | `Decoding` |
| `Pipeline` | the default build: scheduler, detector, display, startup, shutdown | extends `Decoding` |
| `PipelineProofs` | theorems about `Pipeline` | `DecodingProofs` |
| `BalancedPipeline` | the `ENABLE_WORKLOAD_BALANCE` build with two detectors | extends `Decoding` |
| `BalancedPipelineProofs` | theorems about `BalancedPipeline` | `DecodingProofs` |
| `KCFPipeline` | the `TEST_KCF_TRACK_WITH_GPU` build: decoder, scheduler, tracker | |
| `KCFPipelineProofs` | theorems about `KCFPipeline` | `KCFPipeline` |
| `DFT` | the factors of a transform and the order in which it reads its input | |
| `KCFTracker` | one tracker: `init`, `update`, `getFeatures`, `gpu_gaussianCorrelation`, the objects they cache, a device whose calls fail, regions of any size | extends `DFT` |
| `KCFTrackerProofs` | theorems about `KCFTracker` | `KCFTracker` |
| `Ranking` | `std::sort` by a strict order, and picking elements of a list | |
| `Suppression` | the loops of non-maximum suppression of three layers, their overlap tests, and the set they are meant to keep | extends `Ranking` |
| `DetectionOutput` | the last layer of an SSD network with its OpenMP threads and buffers, and the loop of `InsertImage` that reads its rows | extends `Suppression` |
| `RegionProposal` | `Proposal`, `SimplerNMS`, and `PSROIPooling` as reader of their blob | extends `Suppression` |
| `Blob` | an output blob and a loop that stores into it | extends `Ranking` |
| `GridLayers` | `ReorgYolo`, `RegionYolo`, `PriorBox`, `PriorBoxClustered` | extends `Blob` |
| `AnswerLayers` | `ArgMax`, `CTCGreedyDecoder`, `Resample` (nearest), `PSROIPooling` of one region | extends `Blob` |
| `Extension` | the registry, and the life of a layer: found, constructed, configured, initialised, executed | composes the four modules of layers |
| `ExtensionProofs` | theorems about `DetectionOutput`, `RegionProposal`, `GridLayers` and `AnswerLayers` as parts of `Extension` | `Extension` |
| `MCDetector`, `MCPipeline`, `MCBalancedPipeline`, `MCKCFTracker`, `MCExtension` | values for TLC | |

The pieces are put together by contract: `DualPipe` and `Detector` are shown to
implement `BufferPool` and `BatchService`, and the modules of the builds use
pipe and detector as these two describe them. That the threads also keep *their*
side (nobody stores a buffer he does not hold, nobody returns one twice) is
`PoolsUsed`: the composed system, seen from one pipe, takes only steps of
`BufferPool`. It is proved of the default and of the balanced build, so that with
`ImplementsPool` both sides of this contract hold for all numbers of threads and buffers.

Correspondence of state and code:

* Variables bear the names of the code (`m_inPipe` is `inPipe`; locals such as
  `srcframe`, `frame`, `objects` are variables because other threads act
  between the statements that use them). Where a thread is, is a string named
  for what it does next.
* A buffer's contents are the channel and number of the frame in it. A picture
  copied from a buffer keeps that name, so that a mixed-up, repeated or
  overwritten picture is visible.
* A critical section is one action; what happens outside of it (the signal
  after the unlock, the reading of a buffer's fields after `Put`) is an action of
  its own. Polling loops are guards.
* `Load` in `DualPipe` ends in four actions: it takes a buffer, blocks, rechecks
  when woken, and has a last look when its time is over.
* In `KCFTracker` a GPU object is its size, or `"none"`, `"live"`, `"destroyed"`
  for an index. `Steps` lists what `gpu_gaussianCorrelation` does, in its order, and
  one action stands for all steps of a kind, since the code repeats the same
  lines with other names; `FinalExpImageSum` is a function that differs. `Call_DFT_FWD_H`
  and its like set a kernel's arguments: `SetKernel` keeps which buffers they pass.
  `task` (`pKernelArray`) is the list of pieces it was given, kernels at odd and
  synchronizations at even places of `Pieces`; `kernels` are the `kernel_*` that are not
  NULL, which is what the code looks at. `hogTask` counts the pieces of
  `pKernelArrayGetFeatures`. A failure is a disjunct of the action it happens in, with
  what the code leaves behind: an ignored result goes on (`Advance`), an early return
  leaves everything as it is (`CutShort`), an exception, a null pointer or `exit` ends the
  program (`Crash`). Four variables are history, which the code does not have:
  `stale` are the frames a failed renewal did not come to, `torn` the sizes of which some
  resources were renewed and others not when a call was cut short, `lost` the plans
  and the result whose creation failed unnoticed, `refused` the pieces not added.
* In the layers a value is named by what it is computed from (`copy` of a cell,
  `softmax` over cells, the pixels of a bin), so that a value at a wrong place, or
  missing, or stored twice, is visible. A network layer is one action, except
  where threads or readers may come between: `DetectionOutput` has an action for
  each part of a thread's work, `RegionProposal` one for each stage.
* In the layers, an order or an overlap test is a set of pairs, so that a sort
  (`Ranked`), the loops of suppression (`KeepLoop`, `KillLoop`) and the set
  they are compared with (`GreedySet`) are about the same things for whatever boxes.
* In asynchronous mode the pipelines' detector reports a batch when the next one
  is full; this is what `Detector` does, seen through `BatchService`.
* Operators marked *Faulty* are not part of any specification. Each is a
  version of the action after it with a plausible bug; used in its place, it breaks
  the property named with it in `PROJECT.json`, which shows that the
  property can fail.

## 3. What TLC checks

| Run | Instance | Shows |
|---|---|---|
| `dual_pipe` | 3 buffers, 2 producers, 2 consumers | `Ownership`, `NoLostWakeup`, refinement of `BufferPool`; stored buffers are delivered, polling decoders served |
| `detector` | 2 images, batches of 2 | `QueueMatchesBlobs`, `PairedResults`, `NeverThrows`, `BlobUntouched`, refinement of `BatchService`; calls return, accepted images are reported |
| `pipeline_safety` | 2 channels, 2 buffers each, frames modulo 2 | `FramesInOrder` from the decoder to the last report, `ChannelsInTurn`, `ChannelRight`, through startup, a failing decoder and shutdown |
| `pipeline_display` | 2 channels, 1 buffer each, display | one token per batch; stored frames are taken although startup lost tokens, unless a decoder failed; scheduler and display release each other, also at shutdown |
| `balanced` | 1 channel, 2 buffers, frames modulo 2, semaphores that stop at 2, a failing decoder, Ctrl-C | `FramesInOrder`, `NoFrameForgotten`, `NoTaskForgotten`, `PoolsUsed`; every stored frame is inferred, also after its decoder failed; scheduler and inference threads stop. With one channel a scan takes a frame or none for its token: that it may take many is covered by the theorem about `NoFrameForgotten` |
| `kcf` | 1 channel, batch 2, key interval 2, 3 buffers, 4 surfaces | surfaces stay intact while tracked, each key frame gets its own boxes, every frame is tracked, no deadlock |
| `tracker` | four sizes of regions, among them a thin and an empty one, 2 surfaces, the device fails in one step, anywhere | `PatchNotEmpty`: which regions leave nothing to correlate or end the program; `FeaturesFit`, `CorrelationFits`: which objects fit the template and the patch, and which a failure leaves wrong; `StagesInOrder`: the task lacks nothing but what was refused |
| `extension` | one layer of each modelled type over batches, pictures and all small shapes, a threshold of -1 | `KeptGreedily` and `BestReported` (DetectionOutput), `RegionsOfPicture` (Proposal, SimplerNMS), `GridsRight`, `AnswersRight` |

Four runs show disagreements of the code with what it says of itself:

* `pipeline_startup`: `sem_init(&gNewtaskAvaiable)` (main.cpp:2029) comes after the
  decoding threads that post it (main.cpp:1986). Decoders that fill their pipe
  before it leave the scheduler asleep for ever.
* `pipeline_shutdown`: after Ctrl-C the scheduler ends, and a decoder polling
  for a buffer does not look at `grunning` (dualpipe.cpp:71-85); `main` never
  returns from `pthread_join`.
* `kcf_batch`: with the batch of six the README recommends, the tracker waits for a
  result that needs 31 frames, but its pipe has 20 buffers: decoder, scheduler
  and tracker wait for each other.
* `kcf_channels`: `InsertImage` is not told the channel (main.cpp:1056), so the first
  tracker gets everybody's boxes.

More things the models showed are no runs, because nothing in the repository says
otherwise; the properties state what the code does.

* `srcframe->frameno` is read after `Put` (main.cpp:1044, 1056), so `-pv` may
  log a newer frame's number; the channel is always right.
* In the default build a decoder that fails stops all channels, because the scheduler
  waits in `Load` for its next frame; `FrameScheduled` grants it that.
* A Ctrl-C handled before `pause()` is called (`Interrupt`) stops the threads that look at
  `grunning`, and `main` waits for a second one.
* A detected region whose padded short side is less than a twelfth of the long one
  leaves a patch without pixels, for which `DFTInit` writes before its table
  (kcftracker.cpp:1343); one without extent divides by a scale of zero. This is a bug:
  boxes come from the detector unchecked (main.cpp:849-854, detector.cpp:230-237), and the
  only check (kcftracker.cpp:219) is that no side is negative. `PatchNotEmpty` says that these
  regions, and no others, do so. (At exactly a twelfth the rounding of the division
  decides.)
* A correlation that was cut short keeps the old keys beside new buffers: the tracker
  then works on buffers of the wrong size whenever the patch has the size of those keys,
  until a call is completed with another (`torn` in `CorrelationFits`). Failures that are not
  looked at leave a plan or the result wrong until its size changes (`lost`), and a frame
  whose indices were not renewed is read through destroyed ones (`stale`).
* A kernel or synchronization that the device refuses to add is not added later: its
  kernel is no longer NULL, and the task is enqueued without it from then on (`refused`).
* `SimplerNMS` writes no end marker, so `PSROIPooling` also pools regions of earlier
  pictures; `RegionsOfPicture` grants it that.
* The reader of the detections takes a confidence of 0 for the end of the list
  (detector.cpp:222). With the default threshold, `-FLT_MAX`
  (`ext_detectionoutput.cpp`:52), such detections are kept and hide all that follow;
  with a threshold of 0 or more, as in the SSD networks, there are none (`BestReported`).
* `PriorBox` with more `max_size` than `min_size` reserves more room than it fills, so the
  boxes of all places but the first stand too early. `PriorBoxClustered` with fewer than four
  variances, such as its default of one, does not put them where `DetectionOutput` reads
  them. `Resample` mixes up its two factors (`ext_resample.cpp`:163-164): with
  unequal ones it reads a pixel beside the right one, perhaps outside the picture.
  `PriorsRight`, `ClusteredRight` and `ResampleRight` say where the values are.

### Bounds, and why they are enough

* *Two channels* let one be slow, stopped or full while the other is not; the
  scheduler treats all channels alike. *Two inference threads* is the number in
  the code.
* *One to three buffers* instead of 100: an empty and a full pipe, and a buffer
  that is filled again while a pointer to it is in use, occur with one or two.
  In `kcf` three is the least number with which the batch of key frames fits;
  `kcf_batch` uses the real numbers.
* *`FrameCycle`*: frames are counted modulo this. `FramesInOrder` tells a frame
  from its neighbours if the cycle is two, which the runs of that property use
  (in `pipeline_safety` and `balanced` it also holds with three). It is one where no checked property looks at numbers.
* *`SEM_VALUE_MAX`* is small so that a semaphore that stops counting
  (EOVERFLOW, ignored by all callers) occurs.
* *`StartupWindow`* bounds the frames stored before `sem_init`. With
  `NoBufferLeft` (all buffers of all pipes) the race of `pipeline_startup` is in
  the model; with `OneBufferLeft` it is excluded but some tokens are lost;
  with 0 startup is atomic.
* *`Failing`*: the channels whose decoder may end with an error at any frame. One of
  them suffices; the others show what it does to them. It is empty in the runs of the
  two disagreements, which need no failure.
* *Batches of one* in the pipelines: a picture is still reported a batch later, so
  one is in the detector while the next is on its way. How a batch is put
  together is the business of `detector`, which has batches of two.
* *Four regions* in `tracker`: two with swapped sides, whose patches have equal area
  but need other plans, one too thin for a patch, and one without extent. A
  quotient that is exact may be cut (single precision), so each gives two sizes.
  The lengths of the transforms are 8, 22 and 24: a power of two, an odd
  factor, and both. *`MaxFaults`* of one suffices, for what a failure leaves behind
  (`stale`, `torn`, `lost`, `refused`) is then followed by calls of all sizes. The theorems
  hold for all regions and any number of failures.
* *Four priors, three classes, two images* in `extension`: with these one class keeps
  fewer than it has, the best of all classes are cut, a batch is empty after a
  full one, and the blob is full, partly filled and longer than the layer's part.
  *Four anchors* overlap their neighbours only. The shapes of the grid layers
  have unequal sides wherever the code allows it, so that swapped factors show.
* *Two images* in `detector` fill a batch in all orders, including the same
  image twice. The theorems about it hold for all numbers.

### Fairness

Each thread is weakly fair: the operating system schedules it, and an action of
a thread stays enabled until the thread takes it, because nobody else takes
its buffers or, for one waiter, its tokens. Decoders are fair in decoding since
the code rewinds a stream at its end (main.cpp, `DecodeThreadFunc`); that a decoder
fails is one of the things it may do, never the only one. The device
finishes what it was given (`InferDone`). Not fair are Ctrl-C, timeouts and
spurious wakeups, and the pipe's destructor: nothing may depend on them. In
`DualPipe` a fair consumer gives back what it loaded, as every loop in main.cpp does.
`KCFTracker` and `Extension` state no fairness: their calls are sequential and end by
the shape of the code, and what matters is what they leave behind.

## 4. What is proved

All constants are arbitrary; the assumptions are those the modules state
(`DualPipeAssumption`, `DetectorAssumption`, `TrackerAssumption`, `DecodingAssumption`,
`PipelineAssumption`, `BalancedAssumption`, `KCFAssumption`, `ThresholdAssumption`,
`DetectionAssumption`, `ProposalAssumption`, `GridAssumption`, `AnswerAssumption`). TLC evaluates
them in every run. `TrackerAssumption` asks nothing of a region but integers. `DetectionAssumption` and `ProposalAssumption` say that the blobs of an input have the shapes
the layers' constructors checked, and that the rows fit the output blob, without which
`execute` returns OUT_OF_BOUNDS (as it does for a negative `keep_top_k`); the threshold is any
number, like the code's default of `-FLT_MAX`. `GridAssumption` and `AnswerAssumption` exclude
parameters with which a layer that does not check them leaves its buffers (section 5). Beside positive numbers they ask for two bounds, both of which the code keeps by far,
since SEM_VALUE_MAX is 2^31 - 1: fewer channels than a semaphore can count
(`Pipeline`), and no more buffers in all pipes than a semaphore can count (`BalancedPipeline`).
Two theorems of `KCFPipelineProofs` assume one channel. That is no weakening: with two the
properties are false, which is the finding of `kcf_channels`.

**`DualPipe`** (`DualPipeProofs`). The inductive invariant is
`IInv == TypeOK /\ Ownership /\ NoLostWakeup`.

* `Ownership` is inductive with the types: a buffer enters a list only from the
  hands of one thread, and `AppendNew`, `PopFront` and `PushFront` say what
  this does to the set of a list's elements and to its having no duplicates.
* `NoLostWakeup` says more than that somebody is awake: while a consumer
  sleeps, there are at least as many threads about to signal or to look as there are
  buffers. The weaker form ("somebody is awake") is not inductive: two buffers
  may be stored, and one thread may take one and fall asleep. The count needs
  cardinalities of finite sets, hence the lemma `AttendingFinite`.
* `ImplementsPool` maps `inPipe` to its set of elements, since callers cannot
  tell which idle buffer they get, and needs `Ownership` to show that loading
  moves exactly one buffer.

**`Detector`** (`DetectorProofs`). `QueueMatchesBlobs`, that the queue of images is
the batch in flight followed by the batch being filled, is not inductive.
`Rotation` adds that the two requests take turns: which of them may run, which one
the blob pointers show, and that a finished request's output is that of its
blob. From `Inv` follow `PairedResults`, `NeverThrows`, `BlobUntouched` (an
action property) and `ImplementsService`. The batch size is any positive number.

**`KCFTracker`** (`KCFTrackerProofs`). The inductive invariant is
`IInv == TypeOK /\ Region /\ Sizes /\ Indices /\ Task`, for regions of any size,
any surfaces and any number of failures.

* `Region` ties the template to the region of the last key frame, and says that the
  program ends without a failure of the device only for a slim one. With it `TemplateHasCells`
  (what the rounding makes of a padded side that is more, or less, than a twelfth of
  the larger one) gives `PatchNotEmpty` in both directions; `OnlySlimFails` is the case in
  which the program ends.
* `Sizes` follows the template's size through a call: `init` changes it,
  `refreshKernels` brings surfaces and map to it, `ApplyHann` the matrices. None of
  the properties it serves is inductive, because `update` relies on what the
  last key frame left.
* `Indices` says that every pooled index is dead between a change of size and the
  renewal, and after it just those of the frames in `stale`. `FeaturesFit` is this for the frame
  in hand.
* `Task` says that the first n kernels were created, and that the task has each of them
  and its synchronization in order, but for the refused ones. n is no less than the number of
  kernels passed in this call; it may be greater, when an earlier call got further; that
  is why a kernel is looked for before it is added (`AddStage`, with one case for each way to
  fail).
* `CorrelationFits` needs `Fitting`: what this call has brought to the size of its patch
  (`Renewed`), and that the keys tell the truth about what the last complete correlation
  left (`Kept`). Both hold for each size (`Fit`) but those that are `torn`, and for a plan or the
  result unless it is `lost`: a size stops being torn as soon as the patch differs from the
  keys, since everything is then renewed (`PassStep`); a call that ends early makes torn what it was
  renewing (`LeaveStep`), and one that completes clears it (`KeepStep`).
  `Made` describes one stage of the task. What remains is that the plan of a
  length reads its input in the order of its digits reversed. That is a statement
  about `DFTInit` alone, and since a template has 4 to 26 cells a side there are
  only twelve lengths: `PlansReverseDigits` is a formula without constants that
  TLC computes whenever it starts the run `tracker`, and the theorem takes it from there.

**`Pipeline`** (`PipelineProofs`, on `DecodingProofs`). `DecodingInv` is about one channel
at a time: no buffer is twice in a pipe, none is in a pipe and in its decoder's hands, and a
stored buffer holds a picture of its channel. A step of a decoder is described once
(`BuffersKept`, `Grows`) and used for both builds. `PipeInv` adds where the scheduler's buffer is. With
it

* `FramesInOrder` is inductive as it stands, because `Line` names every place a picture of
  a channel can be, from the detector to the frame being decoded: a step either moves a
  picture across a border of two parts or adds the next number at the end
  (`OrderNext`). That a pointer's buffer is not written while it is
  read is the part that needs `PipeInv`.
* `ChannelsInTurn` needs `Turn`, which relates the last picture the detector was given to
  the pipe the scheduler visits.
* `ShowTokens` needs `CacheBound`: as the scheduler waits when two batches are
  cached, tokens stay far from SEM_VALUE_MAX until Ctrl-C; from then on one
  pass over the channels may add a batch for each.
* `PoolsKeepContract`: every step is, on every pipe, a step of `BufferPool` or none.

**`BalancedPipeline`** (`BalancedPipelineProofs`). `BalancedInv` extends `DecodingInv` by the
tasks: a task lies in one place, belongs to the thread that serves its
channel, and its buffer is in nobody else's hands.

* `FramesInOrder` is stated over the pictures of both threads, although only one of them
  ever has a given channel. `ChannelOrder` is the statement about that one, and is
  inductive; `OrderOfBoth` brings the other back in.
* `NoFrameForgotten` holds only while the scheduler waits, and what happens in
  between must be known. `TokenBound` says that in a scan one more frame may be stored than
  tokens, announcements and the startup window explain, and then only if a
  pipe not yet visited has frames: that pipe gives one up before the scan ends. `ScanStart` is
  needed because a scan that began in the middle could miss it. The argument needs sums over
  sets of buffers, hence the lemmas on cardinalities, and that all
  buffers can be counted by a semaphore: a token is then lost only when there are more
  tokens than frames.
* `NoTaskForgotten` needs `TaskTold`, the same for the place where a thread decides to sleep.

**`KCFPipeline`** (`KCFPipelineProofs`). `KCFInv` is proved for any number of channels.

* `FramesIntact` says nothing of locks; `Tracked` adds that the surfaces still to be seen are locked and
  differ from each other. Then the decoder, which takes an unlocked surface, cannot overwrite
  one (`DecodeIntact`), locking adds one (`LockIntact`), and unlocking, which needs that no other
  track has the same surface, removes the first (`UnlockIntact`). Frame numbers are
  counted modulo, hence the lemmas on remainders. `Counted` bounds the idle buffers.
* `ResultThere` needs `Announced`: while the scheduler is between `push` and `sem_post` there is one
  result more than tokens.
* `KeyFramesAnswered` joins both paths. `Waiting` is what the tracker has still to see and
  `Coming` every place a picture for the detector can be; the decoder adds
  a key frame to both in one step, when it locks the surface (`DecoderBrings`), the
  scheduler only moves pictures (`SchedulerBrings`), and the tracker takes the first
  of both (`TrackerBrings`, `KeyTaken`). The property relates them by an increasing map of
  positions, not by a filter, which would be a recursive function. `TargetsMatch` follows: the result in
  front is that of the frame in hand.

**`Extension`** (`ExtensionProofs`). Networks of any number of priors, classes and images,
any boxes and scores, any threshold. `LayersInv` is `DetectionInv` and `ProposalInv`, one
for each of the two layers with a memory; the layers run one at a time, so a step of
one leaves the other's alone (`LayersNext`).

* *Loops.* The code's loops are recursive functions here. `UpTo` is induction up to a number, for
  a set instead of a predicate, from the well-foundedness of the natural numbers; with it
  `Iterates` shows that a loop is defined and obeys its own equation, and an invariant of
  a loop is the set of positions at which it holds.
* *Sorting.* `Ranked` picks the element that k - 1 others precede. `Ranks` and `RankedList`
  show that for a strict total order this is a list of all elements, each once, in
  order; the argument maps every element to its number of predecessors, which is
  one-to-one and so, by cardinality, onto.
* *Suppression.* `KeepLoopGreedy` and `KillLoopGreedy`: both loops keep a list of ascending
  positions, and a position among those passed is kept just if no kept one before it
  overlaps it (`GreedyAt`), as long as the limit is not reached. `GreedyExists` shows
  that there is one and only one such set, so that `GreedySet`, a `CHOOSE`, means
  something; `KeptAreGreedy` joins both. That `KeepLoop` asks whether the new box overlaps
  a kept one, and `KillLoop` whether a kept one overlaps the later ones, does not matter as
  the tests are symmetric (`SameOverlaps`); that the additional test of Proposal
  changes nothing, since boxes that do not touch share no pixel, is in the same lemma.
* `KeptGreedily` is inductive with `SliceHeld` (a thread finds in its slice what it put
  there, which is where threads could harm each other) and `ImagesToCome`.
* `BestReported` needs a statement for every stage its rows pass through. `ImagesChosen`: what is
  kept of an image that is through are the best of what suppression keeps, no matter how
  `std::sort` orders equal scores. `RowsOfBatch`: the rows of the blob are these, in the order of
  the loops, and the row after them stops the reader. `RowsBeyond`: rows that nobody clears
  have never been written, so the reader stops also where the marker has no
  room. Then each image's places are told from the others' and counted (`Numbered`,
  `AllRowsFit`).
* `GridsRight` is about layers without a memory, so the invariant is the property itself
  (`GridsNext`). The work is in three questions about each loop.
  *Which cell?* `Place` appends a digit to a number in a mixed radix whose other digits are
  variables too. `Place` is kept closed, because no prover here knows such products; `Digits`,
  and its companions say that places of different digits differ and lie in the blob, and a
  cell of a blob is then a `Place4` of four digits.
  *What was stored there?* `Stored` takes the stores as a set: a cell holds a value if it is the only
  one stored there (`StoredOnce`), and what it held before if there is none (`StoredElsewhere`).
  For the priors, whose boxes and variances are two halves of one blob, `Fills` says that a set of
  stores fills a beginning of one half, and `PartFilled` that it leaves everything else alone; a
  half is filled only in part if there are too many `max_size` or too few variances.
  *Which boxes?* `RatiosOf` shows that the list of ratios has each one asked for once, and
  `NumbersOfBoxes` counts the boxes of a place, so that the number of priors the
  constructor reserved is the number `execute` writes, unless there are too many `max_size`.
* `AnswersRight` is its own invariant too (`AnswersNext`); each layer has a lemma.
  *ArgMax*: `CountSplits` cuts the sizes of a blob into those before the axis, the axis, and those
  after it, without which the quotients of the code mean nothing. The pairs are `Ranked` once
  more, so the pair with `rank` greater ones is at `rank` + 1 (`PairRanked`), and `ArgMaxCell` finds
  its cell; `ArgMaxHalves` does so for indices and values that share a blob.
  *CTCGreedyDecoder*: `BestIsChosen` is the inner loop. The outer one has the invariant
  `Decoding`: what is written are the classes of the starts of runs so far (`Starts`), each at the
  number of starts before it. As a set of positions it does without a filtered sequence.
  *Resample*: a quotient is characterised by the products it lies between (`Below`, `Above`), since
  division by a variable is beyond Z3; from this follows that none is nearer than the rounded
  pixel to the point the kernel computes (`NearIsNearest`), and that it is in the picture if
  the factors are equal, when that point is the pixel's centre. The loops for factors of two and four are
  shown to fill the same cells.
  *PSROIPooling*: `floor` and `ceil` by the same lemmas, so that a bin is the pixels it touches
  (`Touched`), and every pixel of the region is in the bin of its quotient (`BinOf`).
* `RegionsOfPicture` needs `RegionsSuppressed`, `RegionsInBlob`, and of SimplerNMS that it never
  writes a marker (`NoMarker`), which is why there the pooled regions are the wanted ones and
  then old ones.

**Only model-checked.**

* Liveness (the prover has no rules for fairness and `ENABLED`): `StoredIsDelivered`,
  `DecoderServed`, `CallReturns`, `AcceptedReported`, `FrameScheduled`, `CacheReleased`,
  `DisplayStops`, `FrameInfered`, `InfersStop`, `FrameTracked`. Of the balanced build they
  are checked with one channel: with two, liveness takes TLC longer than a
  run of this project should. For many channels there is the theorem about `NoFrameForgotten`.
* `PlansReverseDigits`, see above: computed for every length there is.

## 5. What is not modelled

* Pixels. In the pipelines a result is the image it tells about; boxes and their
  number are the business of `DetectionOutput`, which shows that no row has the
  image number that the check at detector.cpp:229 lets pass.
* Busy devices and the waits for a free surface in `Decoding`: a frame is decoded in
  one step, or the thread ends with an error. That the conversion of a frame asks
  for more data (main.cpp:598), which it does only when it changes the frame rate;
  such a frame would be counted and not stored. `-infer=0`, which stores none.
* A failing inference request (the proofs assume that `Wait`
  succeeds for a request that was started).
* Startup before the decoding threads are created, and its error exits.
* A signal before the handler is installed, which ends the process.
* In the default build the inference threads exist too, but only wait on
  `gsemtInfer` and end with its post; `JoinAll` leaves them out.
* The display of the balanced build (`gresultque1`) and of the KCF build; startup
  and shutdown of the KCF build; the lock counts the Media SDK keeps itself.
* The statistics thread, and the frame allocator (two reference counts).
* In `KCFTracker`: pixel values, the peak search, the position of the region and its
  clamping (kcftracker.cpp:278-298), the twiddle factors of the transforms, the device's
  creation in `initMDF`, which is taken to succeed.
* In the layers: floating point (coordinates and quotients are exact fractions, so
  the rounding of `floor` and `ceil` at a boundary is not covered), the decoding of
  boxes, and the layers GRN, MVN, Normalize, PReLU, PowerFile, Interp,
  SpatialTransformer and the LINEAR kernels of Resample, which are arithmetic on
  every value of a blob and have no state. `PReLU` with four dimensions and `Interp` ask
  for a blocked layout that `init` refuses (ext_base.cpp:50), so they never
  execute: `Extension` models that.
* What the layers take for granted (`GridAssumption`, `AnswerAssumption`), all of it unchecked
  in the code: ReorgYolo has at least stride² channels, a multiple of them; PriorBoxClustered
  no more than four variances (it would write beyond its blob); ArgMax an axis its input
  has, no empty size, and a `top_k` up to the number of values it chooses from
  (`partial_sort` would pass the end of its vector, ext_argmax.cpp:75); CTCGreedyDecoder
  at least one step and one class. What lies beyond is undefined behaviour. Proposal is modelled for one
  picture at a time, since its pointers do not advance with the batch.
* `runtime/include/`: vendored headers of the C for Media runtime, three quarters of
  the lines of the repository, without behaviour of their own.

## 6. Plan

In this order; each with its hazards in `PROJECT.json`.

1. `FrameAllocator`: reference counts of `simple_alloc`, `simple_free` and
   `_simple_free` (common.cpp), against the specification that the last user
   frees a pool, with the invariant proved.
2. Surface pools and busy devices in `Decoding`, and the error exits of the decoder
   in `KCFPipeline`.
3. `gresultque1` and the display in `BalancedPipeline`; the display queue of
   `KCFPipeline`.
4. `Startup`: the phases of `main` with their error exits, and what is not
   released on each.
5. Failing `Wait` in `Detector`.
6. The position of the tracked region in `KCFTracker`.

## 7. Running

    tlc -config DualPipe.cfg DualPipe.tla
    tlc -config Detector.cfg MCDetector.tla
    tlc -config Pipeline_safety.cfg MCPipeline.tla        # likewise Pipeline_*.cfg
    tlc -config Balanced.cfg MCBalancedPipeline.tla
    tlc -config KCF.cfg KCFPipeline.tla                   # likewise KCF_*.cfg
    tlc -config Tracker.cfg MCKCFTracker.tla
    tlc -config Extension.cfg MCExtension.tla
    tlapm DualPipeProofs.tla                              # the same for each *Proofs.tla

Deadlock checking is off where the modelled program ends (the pipe is destroyed,
Ctrl-C was pressed, a creation failed, or a layer was refused or has run) and where
the deadlock is the finding. `KCFPipeline` and `BalancedPipeline` state type invariants
that document their variables; add `TypeOK` to a configuration to check them.

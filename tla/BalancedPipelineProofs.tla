----------------------- MODULE BalancedPipelineProofs -----------------------
(***************************************************************************)
(* The safety properties of the balanced build (BalancedPipeline), for any *)
(* number of channels and of buffers: no frame is lost or overtaken on its *)
(* way through the threads, no buffer is in two hands, and no thread waits *)
(* for a token while there is work left for it.                            *)
(***************************************************************************)
EXTENDS BalancedPipeline, DecodingProofs, FiniteSetTheorems

-----------------------------------------------------------------------------
(* The inductive invariant of buffers and tasks.                           *)

\* The inference thread that is given the frames of channel c.
Instance(c) == IF c = 1 THEN 2 ELSE 1

FramesOf(i) == {f \in Frames : Instance(f.channel) = i}
DescriptionsOf(i) == {d \in Descriptions : d.image \in FramesOf(i)}
TasksOf(i) ==
  {t \in Tasks : Instance(t.dpipe) = i /\ t.dbuffer \in Own(t.dpipe)}

(* A task for thread i that refers to a picture in a buffer which neither  *)
(* the pipe nor its decoder has.                                           *)
Lent(i, t) ==
  /\ t \in TasksOf(i)
  /\ imgbuf[t.dbuffer] # Unfilled
  /\ t.dbuffer \notin Held(t.dpipe)

Queued(i) ==
  /\ gtaskque[i] \in Seq(TasksOf(i)) /\ IsInjective(gtaskque[i])
  /\ \A t \in ToSet(gtaskque[i]) : Lent(i, t)

Working(i) ==
  /\ infer[i] = "put" => /\ Lent(i, task[i]) /\ task[i] \notin ToSet(gtaskque[i])
  /\ infer[i] \in {"put", "insert"} =>
       /\ task[i] \in TasksOf(i) /\ imgbuf[task[i].dbuffer] # Unfilled
       /\ frame[i] \in PicturesOf(task[i].dpipe)

\* The task the scheduler is about to hand over.
NextTask == [dpipe |-> channel, dbuffer |-> srcframe]

Scheduling ==
  scheduler = "push" =>
    /\ Lent(Instance(channel), NextTask)
    /\ NextTask \notin ToSet(gtaskque[Instance(channel)])
    /\ infer[Instance(channel)] = "put" => task[Instance(channel)] # NextTask

\* The scheduler and the inference threads do nothing before they are created.
Created ==
  /\ scheduler = "none" <=> mainPc = "creating"
  /\ \A i \in Infers : infer[i] = "none" <=> mainPc = "creating"

BalancedInv ==
  /\ DecodingInv /\ TypeOK /\ Created /\ Scheduling
  /\ \A i \in Infers : /\ Queued(i) /\ Working(i)
                       /\ imginfoque_[i] \in Seq(DescriptionsOf(i))

-----------------------------------------------------------------------------
(* Why a frame is never forgotten.                                         *)

(* During a scan one more frame may be stored than tokens explain: the     *)
(* one whose token started the scan, in a pipe not visited yet.            *)
Unvisited == {d \in Channels : d >= channel /\ outPipe[d] # <<>>}
Explained == gNewtaskAvaiable + Cardinality(Announcing) + StartupWindow

TokenBound ==
  IF mainPc = "creating" THEN Cardinality(StoredBuffers) <= early
  ELSE \/ Cardinality(StoredBuffers) <= Explained
       \/ /\ scheduler = "load"
          /\ Cardinality(StoredBuffers) <= Explained + 1
          /\ Unvisited # {}

\* The ranges of the quantities compared.
Counted ==
  /\ Cardinality(StoredBuffers) \in Nat
  /\ Cardinality(StoredBuffers) <= SEM_VALUE_MAX
  /\ Cardinality(Announcing) \in Nat
  /\ gNewtaskAvaiable \in Nat /\ gNewtaskAvaiable <= SEM_VALUE_MAX
  /\ StartupWindow \in Nat /\ SEM_VALUE_MAX \in Nat
  /\ early <= StartupWindow /\ early \in Nat
  /\ channel \in Channels /\ FLAGS_c \in Nat

\* A scan starts at the first channel.
ScanStart == scheduler \in {"none", "loop", "semwait"} => channel = 1

(* A thread that was created, or that found its queue empty, is told of    *)
(* what has come since.                                                    *)
TaskTold ==
  \A i \in Infers :
    infer[i] \in {"none", "loop", "semwait"} /\ gtaskque[i] # <<>> =>
      gsemtInfer[i] > 0 \/ (scheduler = "post" /\ nInferThreadInstance = i)

-----------------------------------------------------------------------------
(* Types and buffers.                                                      *)

LEMMA InstanceType == \A c \in Channels : Instance(c) \in Infers
BY DEF Instance, Infers

LEMMA TaskBuffer ==
  ASSUME NEW i \in Infers, NEW t \in TasksOf(i)
  PROVE  /\ t \in Tasks /\ t.dpipe \in Channels /\ t.dbuffer \in Own(t.dpipe)
         /\ t.dbuffer \in Buffers /\ Instance(t.dpipe) = i
         /\ t = [dpipe |-> t.dpipe, dbuffer |-> t.dbuffer]
BY DEF TasksOf, Tasks

(* Buffers of different tasks are different.                               *)
LEMMA TaskIsBuffer ==
  ASSUME NEW i \in Infers, NEW t \in TasksOf(i),
         NEW j \in Infers, NEW u \in TasksOf(j), t.dbuffer = u.dbuffer
  PROVE  t = u
<1>1. t.dpipe = u.dpipe
  BY TaskBuffer, OwnDisjoint
<1> QED
  BY <1>1, TaskBuffer

LEMMA BalancedInit == Init => BalancedInv
<1> SUFFICES ASSUME Init PROVE BalancedInv
  OBVIOUS
<1>1. DecodingInv /\ DecodingTypeOK /\ mainPc = "creating"
  BY DecodingInitInv DEF Init, DecodingInv, DecodingInit
<1>2. 1 \in Channels /\ SEM_VALUE_MAX \in Nat
  BY DecodingAssumption DEF Channels
<1>3. TypeOK
  BY <1>1, <1>2 DEF Init, TypeOK, Infers
<1>4. ASSUME NEW i \in Infers
      PROVE  Queued(i) /\ Working(i) /\ imginfoque_[i] \in Seq(DescriptionsOf(i))
  <2>1. gtaskque[i] = <<>> /\ infer[i] = "none" /\ imginfoque_[i] = <<>>
    BY DEF Init
  <2>2. ToSet(gtaskque[i]) = {} /\ IsInjective(gtaskque[i])
    <3>1. DOMAIN gtaskque[i] = {}
      BY <2>1
    <3> QED
      BY <3>1 DEF ToSet, IsInjective
  <2> QED
    BY <2>1, <2>2 DEF Queued, Working
<1> QED
  BY <1>1, <1>3, <1>4 DEF Init, BalancedInv, Created, Scheduling

(* A picture that lies in a filled buffer of the channel.                  *)
LEMMA PictureOfBuffer ==
  ASSUME DecodingInv, NEW c \in Channels, NEW b \in Own(c), imgbuf[b] # Unfilled
  PROVE  /\ imgbuf[b] \in Frames /\ imgbuf[b] \in PicturesOf(c)
         /\ imgbuf[b].channel = c
<1>1. imgbuf[b] \in Frames /\ imgbuf[b].channel = c
  BY OwnBuffers, NotUnfilled DEF DecodingInv, DecodingTypeOK, Labelled
<1> QED
  BY <1>1 DEF Frames, PicturesOf

(* Steps that move no buffer in or out of a thread's hands.                *)
LEMMA LoansStay ==
  ASSUME BalancedInv,
         \A c \in Channels : Held(c)' = Held(c) /\ BuffersKept(c),
         \/ scheduler' # "push"
         \/ UNCHANGED <<scheduler, channel, srcframe>>,
         gtaskque' = gtaskque,
         \A i \in Infers : \/ infer'[i] \notin {"put", "insert"}
                           \/ /\ infer'[i] = infer[i] /\ task'[i] = task[i]
                              /\ frame'[i] = frame[i]
  PROVE  Scheduling' /\ \A i \in Infers : Queued(i)' /\ Working(i)'
<1>1. \A i \in Infers : Queued(i) /\ Working(i)
  BY DEF BalancedInv
<1>2. ASSUME NEW i \in Infers, NEW t, Lent(i, t) PROVE Lent(i, t)'
  <2>1. /\ t \in TasksOf(i) /\ t.dpipe \in Channels /\ t.dbuffer \in Own(t.dpipe)
        /\ imgbuf[t.dbuffer] # Unfilled /\ t.dbuffer \notin Held(t.dpipe)
    BY <1>2, TaskBuffer DEF Lent
  <2>2. imgbuf'[t.dbuffer] # Unfilled /\ t.dbuffer \notin Held(t.dpipe)'
    BY <2>1 DEF BuffersKept
  <2> QED
    BY <2>1, <2>2 DEF Lent
<1>3. ASSUME NEW i \in Infers PROVE Queued(i)' /\ Working(i)'
  <2>1. Queued(i)'
    BY <1>1, <1>2 DEF Queued
  <2>2. CASE infer'[i] \notin {"put", "insert"}
    BY <2>1, <2>2 DEF Working
  <2>3. CASE infer'[i] = infer[i] /\ task'[i] = task[i] /\ frame'[i] = frame[i]
    <3>1. infer[i] \in {"put", "insert"} =>
            task[i] \in TasksOf(i) /\ imgbuf'[task[i].dbuffer] # Unfilled
      BY <1>1, TaskBuffer DEF Working, BuffersKept
    <3>2. PICK t \in {task[i]} : t = task[i] /\ t = task'[i]
      BY <2>3
    <3>3. infer[i] = "put" => Lent(i, t) /\ t \notin ToSet(gtaskque[i])
      BY <1>1, <3>2 DEF Working
    <3>4. infer[i] = "put" => Lent(i, t)'
      BY <1>2, <3>3
    <3>5. infer'[i] = "put" => Lent(i, task[i])'
      BY <2>3, <3>2, <3>4 DEF Lent
    <3>6. infer'[i] = "put" => task'[i] \notin ToSet(gtaskque[i])'
      <4>1. ToSet(gtaskque[i])' = ToSet(gtaskque[i])
        BY DEF ToSet
      <4> QED
        BY <2>3, <3>2, <3>3, <4>1
    <3>7. infer'[i] \in {"put", "insert"} => frame'[i] \in PicturesOf(task'[i].dpipe)
      BY <1>1, <2>3 DEF Working
    <3>8. infer'[i] \in {"put", "insert"} =>
            task'[i] \in TasksOf(i) /\ imgbuf'[task'[i].dbuffer] # Unfilled
      BY <2>3, <3>1
    <3> QED
      BY <2>1, <3>5, <3>6, <3>7, <3>8 DEF Working
  <2> QED
    BY <2>1, <2>2, <2>3
<1>4. Scheduling'
  <2>1. CASE scheduler' # "push"
    BY <2>1 DEF Scheduling
  <2>2. CASE scheduler = "push" /\ UNCHANGED <<scheduler, channel, srcframe>>
    <3>1. Instance(channel) \in Infers /\ Scheduling
      BY InstanceType DEF BalancedInv, TypeOK
    <3>2. PICK i \in Infers, t \in {NextTask} : i = Instance(channel)
      BY <3>1
    <3>3. /\ t = NextTask /\ NextTask' = t /\ Instance(channel') = i
          /\ scheduler = "push"
      BY <2>2, <3>2 DEF NextTask
    <3>4. Lent(i, t) /\ t \notin ToSet(gtaskque[i]) /\ (infer[i] = "put" => task[i] # t)
      BY <3>1, <3>2, <3>3 DEF Scheduling
    <3>5. Lent(i, t)'
      BY <1>2, <3>4
    <3>6. ToSet(gtaskque[i])' = ToSet(gtaskque[i]) /\ (infer'[i] = "put" => task'[i] # t)
      BY <3>4
    <3> QED
      BY <3>3, <3>4, <3>5, <3>6 DEF Scheduling
  <2> QED
    BY <2>1, <2>2
<1> QED
  BY <1>3, <1>4

(* Steps of a thread that has no buffer to itself before or after.         *)
LEMMA QuietStep ==
  ASSUME BalancedInv, DecodingInv',
         \A c \in Channels : Held(c)' = Held(c) /\ BuffersKept(c),
         TypeOK', Created',
         \/ scheduler' # "push"
         \/ UNCHANGED <<scheduler, channel, srcframe>>,
         gtaskque' = gtaskque, imginfoque_' = imginfoque_,
         \A i \in Infers : \/ infer'[i] \notin {"put", "insert"}
                           \/ /\ infer'[i] = infer[i] /\ task'[i] = task[i]
                              /\ frame'[i] = frame[i]
  PROVE  BalancedInv'
<1>1. Scheduling' /\ \A i \in Infers : Queued(i)' /\ Working(i)'
  BY LoansStay
<1> QED
  BY <1>1 DEF BalancedInv

\* Steps that touch neither pipes nor decoders.
LEMMA PipesKept ==
  ASSUME BalancedInv, UNCHANGED <<pipeVars, decVars>>,
         grunning' \in BOOLEAN,
         mainPc' \in {"creating", "pause", "posting", "joining", "terminated"},
         early' \in 0..StartupWindow,
         gNewtaskAvaiable' \in 0..SEM_VALUE_MAX
  PROVE  /\ DecodingInv' /\ DecodingTypeOK'
         /\ \A c \in Channels : Held(c)' = Held(c) /\ BuffersKept(c)
<1>1. DecodingInv' /\ \A c \in Channels : Held(c)' = Held(c)
  BY PipesUntouched DEF BalancedInv
<1>2. \A c \in Channels : BuffersKept(c)
  BY DEF BuffersKept, pipeVars
<1> QED
  BY <1>1, <1>2 DEF DecodingInv

LEMMA LoadKeeps == BalancedInv /\ LoadFrame => BalancedInv'
<1> SUFFICES ASSUME BalancedInv, LoadFrame PROVE BalancedInv'
  OBVIOUS
<1>a. PICK c \in Channels : c = channel
  BY DEF BalancedInv, TypeOK
<1>b. PICK b \in {Head(outPipe[c])} : b = Head(outPipe[c])
  OBVIOUS
<1>1.   /\ c = channel /\ channel' = c /\ b = Head(outPipe[c]) /\ srcframe' = b
        /\ scheduler = "load" /\ scheduler' = "push" /\ outPipe[c] # <<>>
        /\ outPipe' = [outPipe EXCEPT ![c] = Tail(outPipe[c])]
        /\ UNCHANGED <<mainVars, inPipe, imgbuf, decVars>>
        /\ UNCHANGED <<nInferThreadInstance, queVars, inferVars>>
  BY <1>a, <1>b DEF LoadFrame, SchedulerAt
<1>2. /\ DecodingInv' /\ DecodingTypeOK'
      /\ b \in Own(c) /\ b \in ToSet(outPipe[c]) /\ imgbuf[b] \in PicturesOf(c)
      /\ Held(c)' = Held(c) \ {b}
      /\ \A d \in Channels \ {c} : Held(d)' = Held(d)
  BY <1>1, TakeFront DEF BalancedInv, DecodingInv
<1>3. b \in Held(c) /\ b \in Buffers /\ imgbuf[b] # Unfilled
  BY <1>2, OwnBuffers DEF Held, PicturesOf, Unfilled, Channels
<1>4. TypeOK'
  BY <1>1, <1>2, <1>3 DEF BalancedInv, TypeOK, queVars, inferVars
<1>5. Created'
  BY <1>1 DEF BalancedInv, Created, mainVars, inferVars
<1>6. ASSUME NEW i \in Infers, NEW t, Lent(i, t)
      PROVE  Lent(i, t)' /\ t # [dpipe |-> c, dbuffer |-> b]
  <2>1. t \in TasksOf(i) /\ t.dpipe \in Channels /\ t.dbuffer \notin Held(t.dpipe)
    BY <1>6, TaskBuffer DEF Lent
  <2>2. t.dbuffer \notin Held(t.dpipe)'
    BY <2>1, <1>2
  <2>3. t # [dpipe |-> c, dbuffer |-> b]
    BY <2>1, <1>3
  <2> QED
    BY <1>1, <1>6, <2>2, <2>3 DEF Lent
<1>7. ASSUME NEW i \in Infers
      PROVE  /\ Queued(i)' /\ Working(i)' /\ imginfoque_'[i] \in Seq(DescriptionsOf(i))
             /\ [dpipe |-> c, dbuffer |-> b] \notin ToSet(gtaskque[i])
             /\ infer[i] = "put" => task[i] # [dpipe |-> c, dbuffer |-> b]
  <2>1. /\ Queued(i) /\ Working(i) /\ imginfoque_[i] \in Seq(DescriptionsOf(i))
        /\ gtaskque' = gtaskque /\ infer' = infer /\ task' = task /\ frame' = frame
        /\ imginfoque_' = imginfoque_ /\ imgbuf' = imgbuf
    BY <1>1 DEF BalancedInv, queVars, inferVars
  <2>2. Queued(i)' /\ [dpipe |-> c, dbuffer |-> b] \notin ToSet(gtaskque[i])
    BY <1>6, <2>1 DEF Queued
  <2>3. PICK t \in {task[i]} : t = task[i] /\ task'[i] = t
    BY <2>1
  <2>4. infer[i] = "put" => Lent(i, t)' /\ t # [dpipe |-> c, dbuffer |-> b]
    BY <1>6, <2>1, <2>3 DEF Working
  <2>5. infer'[i] = "put" => Lent(i, task[i])'
    BY <2>1, <2>3, <2>4 DEF Lent
  <2>6. Working(i)'
    BY <2>1, <2>5 DEF Working, ToSet
  <2> QED
    BY <2>1, <2>2, <2>3, <2>4, <2>6
<1>8. Scheduling'
  <2> DEFINE i == Instance(c)
             t == [dpipe |-> c, dbuffer |-> b]
  <2>1. i \in Infers /\ t \in Tasks /\ t.dpipe = c /\ t.dbuffer = b
    BY <1>3, InstanceType DEF Tasks
  <2>2. NextTask' = t /\ Instance(channel') = i
    BY <1>1, <2>1 DEF NextTask
  <2>3. Lent(i, t)'
    BY <1>1, <1>2, <1>3, <2>1 DEF Lent, TasksOf
  <2>4. t \notin ToSet(gtaskque[i])' /\ (infer'[i] = "put" => task'[i] # t)
    BY <1>1, <1>7, <2>1 DEF ToSet, queVars, inferVars
  <2> QED
    BY <2>2, <2>3, <2>4 DEF Scheduling
<1> QED
  BY <1>2, <1>4, <1>5, <1>7, <1>8 DEF BalancedInv

(* The frame's channel, read from the buffer, is the pipe's: it goes to    *)
(* the thread of that channel.                                             *)
LEMMA RouteIsInstance ==
  ASSUME BalancedInv, scheduler = "push"
  PROVE  /\ Route = Instance(channel) /\ Route \in Infers
         /\ NextTask \in TasksOf(Route)
         /\ imgbuf[srcframe] \in PicturesOf(channel)
<1>1. Lent(Instance(channel), NextTask) /\ channel \in Channels
  BY DEF BalancedInv, Scheduling, TypeOK
<1>2. NextTask.dpipe = channel /\ NextTask.dbuffer = srcframe
  BY DEF NextTask
<1>3. /\ NextTask \in TasksOf(Instance(channel))
      /\ srcframe \in Own(channel) /\ imgbuf[srcframe] # Unfilled
  BY <1>1, <1>2 DEF Lent, TasksOf
<1>4. imgbuf[srcframe].channel = channel /\ imgbuf[srcframe] \in PicturesOf(channel)
  BY <1>1, <1>3, PictureOfBuffer DEF BalancedInv
<1>5. Route = Instance(channel)
  BY <1>4 DEF Route, Instance
<1> QED
  BY <1>1, <1>3, <1>4, <1>5, InstanceType

LEMMA PushKeeps == BalancedInv /\ PushTask => BalancedInv'
<1> SUFFICES ASSUME BalancedInv, PushTask PROVE BalancedInv'
  OBVIOUS
<1>a. PICK r \in Infers : r = Route
  BY RouteIsInstance DEF PushTask, SchedulerAt
<1>b. PICK t \in TasksOf(r) : t = NextTask
  BY <1>a, RouteIsInstance DEF PushTask, SchedulerAt
<1>1. r = Route /\ t = NextTask /\ r = Instance(channel)
  BY <1>a, <1>b, RouteIsInstance DEF PushTask, SchedulerAt
<1>2. /\ scheduler = "push" /\ scheduler' = "post" /\ nInferThreadInstance' = r
      /\ gtaskque' = [gtaskque EXCEPT ![r] = Append(gtaskque[r], t)]
      /\ UNCHANGED <<decodingVars, channel, srcframe, gsemtInfer, inferVars>>
  BY <1>1 DEF PushTask, SchedulerAt, NextTask
<1>3. /\ DecodingInv' /\ DecodingTypeOK'
      /\ \A c \in Channels : Held(c)' = Held(c) /\ BuffersKept(c)
  <2>1. DecodingTypeOK
    BY DEF BalancedInv, DecodingInv
  <2> QED
    BY <2>1, <1>2, PipesKept DEF decodingVars, mainVars, DecodingTypeOK
<1>4. /\ Lent(r, t) /\ t \notin ToSet(gtaskque[r])
      /\ infer[r] = "put" => task[r] # t
  BY <1>1, <1>2 DEF BalancedInv, Scheduling
<1>5. \A i \in Infers : /\ Queued(i) /\ Working(i)
                        /\ imginfoque_[i] \in Seq(DescriptionsOf(i))
  BY DEF BalancedInv
<1>6. /\ gtaskque \in [Infers -> Seq(Tasks)] /\ t \in Tasks
      /\ gtaskque'[r] = Append(gtaskque[r], t)
      /\ \A i \in Infers \ {r} : gtaskque'[i] = gtaskque[i]
      /\ gtaskque' \in [Infers -> Seq(Tasks)]
  BY <1>1, <1>2, TaskBuffer DEF BalancedInv, TypeOK
<1>7. /\ gtaskque'[r] \in Seq(TasksOf(r)) /\ IsInjective(gtaskque'[r])
      /\ ToSet(gtaskque'[r]) = ToSet(gtaskque[r]) \cup {t}
  BY <1>1, <1>4, <1>5, <1>6, AppendNew DEF Queued
<1>8. ASSUME NEW i \in Infers, NEW u, Lent(i, u) PROVE Lent(i, u)'
  BY <1>2, <1>3, <1>8, TaskBuffer DEF Lent, decodingVars, pipeVars
<1>9. TypeOK'
  BY <1>2, <1>3, <1>6 DEF BalancedInv, TypeOK, inferVars
<1>10. Created'
  BY <1>2 DEF BalancedInv, Created, decodingVars, mainVars, inferVars
<1>11. ASSUME NEW i \in Infers
       PROVE  Queued(i)' /\ Working(i)' /\ imginfoque_'[i] \in Seq(DescriptionsOf(i))
  <2>1. Queued(i)'
    <3>1. CASE i = r
      <4>1. ToSet(gtaskque[i])' = ToSet(gtaskque[r]) \cup {t}
        BY <1>7, <3>1 DEF ToSet
      <4>2. \A u \in ToSet(gtaskque[r]) \cup {t} : Lent(r, u)'
        BY <1>4, <1>5, <1>8 DEF Queued
      <4>3. gtaskque'[i] \in Seq(TasksOf(i)) /\ IsInjective(gtaskque[i])'
        BY <1>7, <3>1 DEF IsInjective
      <4> QED
        BY <3>1, <4>1, <4>2, <4>3 DEF Queued
    <3>2. CASE i # r
      <4>1. ToSet(gtaskque[i])' = ToSet(gtaskque[i]) /\ gtaskque'[i] = gtaskque[i]
        BY <1>6, <3>2 DEF ToSet
      <4>2. \A u \in ToSet(gtaskque[i]) : Lent(i, u)'
        BY <1>5, <1>8 DEF Queued
      <4>3. gtaskque'[i] \in Seq(TasksOf(i)) /\ IsInjective(gtaskque[i])'
        BY <1>5, <4>1 DEF IsInjective, Queued
      <4> QED
        BY <4>1, <4>2, <4>3 DEF Queued
    <3> QED
      BY <3>1, <3>2
  <2>2. UNCHANGED <<infer, task, frame, imginfoque_, imgbuf>>
    BY <1>2 DEF inferVars, decodingVars, pipeVars
  <2>3. PICK u \in {task[i]} : u = task[i] /\ task'[i] = u
    BY <2>2
  <2>4. infer'[i] = "put" => Lent(i, task[i])' /\ u \notin ToSet(gtaskque[i])'
    <3>1. infer[i] = "put" => Lent(i, u) /\ u \notin ToSet(gtaskque[i]) /\ (i = r => u # t)
      BY <1>4, <1>5, <2>3 DEF Working
    <3>2. infer[i] = "put" => Lent(i, u)'
      BY <1>8, <3>1
    <3>3. infer[i] = "put" => u \notin ToSet(gtaskque'[i])
      BY <3>1, <1>6, <1>7
    <3> QED
      BY <2>2, <2>3, <3>2, <3>3 DEF Lent, ToSet
  <2>5. Working(i)'
    BY <1>5, <2>2, <2>3, <2>4 DEF Working
  <2> QED
    BY <1>5, <2>1, <2>2, <2>5
<1>12. Scheduling'
  BY <1>2 DEF Scheduling
<1> QED
  BY <1>3, <1>9, <1>10, <1>11, <1>12 DEF BalancedInv

\* The task a thread works on, where another thread or its queue changes.
LEMMA WorkingStays ==
  ASSUME NEW i \in Infers, Working(i),
         infer'[i] = infer[i], task'[i] = task[i], frame'[i] = frame[i],
         imgbuf' = imgbuf,
         \A u : infer[i] = "put" /\ u = task[i] =>
                  Lent(i, u)' /\ u \notin ToSet(gtaskque'[i])
  PROVE  Working(i)'
<1>1. PICK u \in {task[i]} : u = task[i] /\ task'[i] = u
  OBVIOUS
<1>2. infer[i] = "put" => Lent(i, u)' /\ u \notin ToSet(gtaskque'[i])
  BY <1>1
<1>3. infer'[i] = "put" => Lent(i, task[i])' /\ task'[i] \notin ToSet(gtaskque'[i])
  BY <1>1, <1>2 DEF Lent
<1> QED
  BY <1>1, <1>3 DEF Working, ToSet

\* A queue that does not change.
LEMMA QueuedStays ==
  ASSUME NEW i \in Infers, Queued(i), gtaskque'[i] = gtaskque[i],
         \A u \in ToSet(gtaskque[i]) : Lent(i, u)'
  PROVE  Queued(i)'
<1>1. ToSet(gtaskque[i])' = ToSet(gtaskque[i]) /\ IsInjective(gtaskque[i])'
  BY DEF ToSet, IsInjective, Queued
<1> QED
  BY <1>1 DEF Queued

\* A task that waits with the scheduler.
LEMMA SchedulingStays ==
  ASSUME BalancedInv, UNCHANGED <<scheduler, channel, srcframe>>,
         \A i \in Infers : \A u :
           /\ Lent(i, u) /\ u \notin ToSet(gtaskque[i])
           /\ infer[i] = "put" => task[i] # u
           => /\ Lent(i, u)' /\ u \notin ToSet(gtaskque'[i])
              /\ infer'[i] = "put" => task'[i] # u
  PROVE  Scheduling'
<1> SUFFICES ASSUME scheduler = "push" PROVE Scheduling'
  BY DEF Scheduling
<1>1. PICK i \in Infers : i = Instance(channel)
  BY InstanceType DEF BalancedInv, TypeOK
<1>2. PICK u \in {NextTask} : u = NextTask /\ NextTask' = u
  BY DEF NextTask
<1>3. Lent(i, u) /\ u \notin ToSet(gtaskque[i]) /\ (infer[i] = "put" => task[i] # u)
  BY <1>1, <1>2 DEF BalancedInv, Scheduling
<1>4. /\ Lent(i, u)' /\ u \notin ToSet(gtaskque'[i])
      /\ infer'[i] = "put" => task'[i] # u
  BY <1>3
<1> QED
  BY <1>1, <1>2, <1>4 DEF Scheduling, ToSet

LEMMA PopKeeps ==
  ASSUME BalancedInv, NEW r \in Infers, PopTask(r)
  PROVE  BalancedInv'
<1>a. PICK t \in {Head(gtaskque[r])} : t = Head(gtaskque[r])
  OBVIOUS
<1>1. /\ gtaskque[r] # <<>> /\ infer[r] = "pop"
      /\ infer' = [infer EXCEPT ![r] = "put"]
      /\ task' = [task EXCEPT ![r] = t]
      /\ frame' = [frame EXCEPT ![r] = imgbuf[t.dbuffer]]
      /\ gtaskque' = [gtaskque EXCEPT ![r] = Tail(gtaskque[r])]
      /\ UNCHANGED <<decodingVars, schedVars, gsemtInfer, imginfoque_>>
  BY <1>a DEF PopTask, InferAt
<1>2. /\ DecodingInv' /\ DecodingTypeOK'
      /\ \A c \in Channels : Held(c)' = Held(c) /\ BuffersKept(c)
  <2>1. DecodingTypeOK
    BY DEF BalancedInv, DecodingInv
  <2> QED
    BY <2>1, <1>1, PipesKept DEF decodingVars, mainVars, DecodingTypeOK
<1>3. TypeOK /\ \A i \in Infers : /\ Queued(i) /\ Working(i)
                                  /\ imginfoque_[i] \in Seq(DescriptionsOf(i))
  BY DEF BalancedInv
<1>4. /\ t \in ToSet(gtaskque[r]) /\ t \in TasksOf(r)
      /\ Tail(gtaskque[r]) \in Seq(TasksOf(r)) /\ IsInjective(Tail(gtaskque[r]))
      /\ ToSet(Tail(gtaskque[r])) = ToSet(gtaskque[r]) \ {t}
  BY <1>a, <1>1, <1>3, PopFront DEF Queued
<1>5. /\ Lent(r, t) /\ t \in Tasks /\ t.dpipe \in Channels /\ t.dbuffer \in Own(t.dpipe)
      /\ imgbuf[t.dbuffer] # Unfilled
  BY <1>3, <1>4, TaskBuffer DEF Queued, Lent
<1>6. imgbuf[t.dbuffer] \in Frames /\ imgbuf[t.dbuffer] \in PicturesOf(t.dpipe)
  BY <1>5, PictureOfBuffer DEF BalancedInv
<1>7. /\ infer'[r] = "put" /\ task'[r] = t /\ frame'[r] = imgbuf[t.dbuffer]
      /\ gtaskque'[r] = Tail(gtaskque[r])
      /\ \A i \in Infers \ {r} : /\ infer'[i] = infer[i] /\ task'[i] = task[i]
                                 /\ frame'[i] = frame[i] /\ gtaskque'[i] = gtaskque[i]
      /\ imgbuf' = imgbuf /\ imginfoque_' = imginfoque_
  BY <1>1, <1>3 DEF TypeOK, decodingVars, pipeVars
<1>8. TypeOK'
  <2>1. Tail(gtaskque[r]) \in Seq(Tasks)
    BY <1>1, <1>3, PopFront DEF TypeOK
  <2>2. infer' \in [Infers -> {"none", "loop", "semwait", "pop", "put", "insert", "done"}]
    BY <1>1, <1>3 DEF TypeOK
  <2>3. /\ task' \in [Infers -> Tasks \cup {NoTask}]
        /\ frame' \in [Infers -> Frames \cup {Unfilled}]
        /\ gtaskque' \in [Infers -> Seq(Tasks)]
    BY <1>1, <1>3, <1>5, <1>6, <2>1 DEF TypeOK
  <2> QED
    BY <1>1, <1>2, <1>3, <2>2, <2>3 DEF TypeOK, schedVars
<1>9. Created'
  BY <1>1 DEF BalancedInv, Created, decodingVars, mainVars, schedVars
<1>10. ASSUME NEW i \in Infers, NEW u, Lent(i, u) PROVE Lent(i, u)'
  BY <1>7, <1>2, <1>10, TaskBuffer DEF Lent
<1>11. Queued(r)' /\ Working(r)'
  <2>1. /\ ToSet(gtaskque[r])' = ToSet(gtaskque[r]) \ {t}
        /\ IsInjective(gtaskque[r])'
    <3> DEFINE s == Tail(gtaskque[r])
    <3>1. gtaskque'[r] = s /\ ToSet(s) = ToSet(gtaskque[r]) \ {t} /\ IsInjective(s)
      BY <1>4, <1>7
    <3>2. ToSet(gtaskque[r])' = ToSet(gtaskque'[r])
      BY DEF ToSet
    <3>3. IsInjective(gtaskque[r])' = IsInjective(gtaskque'[r])
      BY DEF IsInjective
    <3> HIDE DEF s
    <3> QED
      BY <3>1, <3>2, <3>3
  <2>2. \A u \in ToSet(gtaskque[r]) : Lent(r, u)'
    BY <1>3, <1>10 DEF Queued
  <2>3. Queued(r)'
    BY <1>4, <1>7, <2>1, <2>2 DEF Queued
  <2>4. Lent(r, task[r])'
    BY <1>5, <1>7, <1>10 DEF Lent
  <2>5. task'[r] \notin ToSet(gtaskque[r])'
    BY <1>7, <2>1
  <2>6. frame'[r] \in PicturesOf(task'[r].dpipe) /\ imgbuf'[task'[r].dbuffer] # Unfilled
        /\ task'[r] \in TasksOf(r)
    BY <1>4, <1>5, <1>6, <1>7
  <2> QED
    BY <2>3, <2>4, <2>5, <2>6 DEF Working
<1>12. ASSUME NEW i \in Infers \ {r} PROVE Queued(i)' /\ Working(i)'
  <2>1. \A u \in ToSet(gtaskque[i]) : Lent(i, u)'
    BY <1>3, <1>10 DEF Queued
  <2>2. \A u : infer[i] = "put" /\ u = task[i] =>
                  Lent(i, u)' /\ u \notin ToSet(gtaskque'[i])
    BY <1>3, <1>7, <1>10 DEF Working
  <2> QED
    BY <1>3, <1>7, <2>1, <2>2, QueuedStays, WorkingStays
<1>13. Scheduling'
  <2>1. ASSUME NEW i \in Infers, NEW u, Lent(i, u), u \notin ToSet(gtaskque[i]),
               infer[i] = "put" => task[i] # u
        PROVE  /\ Lent(i, u)' /\ u \notin ToSet(gtaskque'[i])
               /\ infer'[i] = "put" => task'[i] # u
    BY <1>4, <1>7, <1>10, <2>1
  <2> QED
    BY <1>1, <2>1, SchedulingStays DEF schedVars
<1> QED
  BY <1>2, <1>3, <1>7, <1>8, <1>9, <1>11, <1>12, <1>13 DEF BalancedInv

LEMMA PutKeeps ==
  ASSUME BalancedInv, NEW r \in Infers, PutFrame(r)
  PROVE  BalancedInv'
<1>a. PICK t \in {task[r]} : t = task[r]
  OBVIOUS
<1>1. /\ infer[r] = "put" /\ infer' = [infer EXCEPT ![r] = "insert"]
      /\ inPipe' = [inPipe EXCEPT ![t.dpipe] = Cons(t.dbuffer, inPipe[t.dpipe])]
      /\ UNCHANGED <<mainVars, outPipe, imgbuf, decVars, schedVars, queVars, task,
                     frame, imginfoque_>>
  BY <1>a DEF PutFrame, InferAt
<1>2. TypeOK /\ \A i \in Infers : /\ Queued(i) /\ Working(i)
                                  /\ imginfoque_[i] \in Seq(DescriptionsOf(i))
  BY DEF BalancedInv
<1>3. /\ Lent(r, t) /\ t \notin ToSet(gtaskque[r]) /\ t \in TasksOf(r)
      /\ t.dpipe \in Channels /\ t.dbuffer \in Own(t.dpipe)
      /\ t.dbuffer \notin Held(t.dpipe) /\ imgbuf[t.dbuffer] # Unfilled
      /\ frame[r] \in PicturesOf(t.dpipe)
  BY <1>a, <1>1, <1>2, TaskBuffer DEF Working, Lent
<1>4. /\ DecodingInv' /\ DecodingTypeOK'
      /\ Held(t.dpipe)' = Held(t.dpipe) \cup {t.dbuffer}
      /\ \A d \in Channels \ {t.dpipe} : Held(d)' = Held(d)
  <2>1. PICK c \in {t.dpipe}, b \in {t.dbuffer} : c = t.dpipe /\ b = t.dbuffer
    OBVIOUS
  <2>2. /\ DecodingInv' /\ Held(c)' = Held(c) \cup {b}
        /\ \A d \in Channels \ {c} : Held(d)' = Held(d)
    BY <1>1, <1>3, <2>1, GiveBackBuffer DEF BalancedInv
  <2> QED
    BY <2>1, <2>2 DEF DecodingInv
<1>5. /\ infer'[r] = "insert" /\ \A i \in Infers \ {r} : infer'[i] = infer[i]
      /\ infer' \in [Infers -> {"none", "loop", "semwait", "pop", "put", "insert", "done"}]
      /\ UNCHANGED <<imgbuf, scheduler, channel, srcframe, gtaskque, task, frame, imginfoque_>>
  BY <1>1, <1>2 DEF TypeOK, schedVars, queVars
<1>6. TypeOK'
  BY <1>1, <1>2, <1>4, <1>5 DEF TypeOK, schedVars, queVars
<1>7. Created'
  BY <1>1, <1>5 DEF BalancedInv, Created, mainVars
\* No other task refers to the buffer.
<1>8. ASSUME NEW i \in Infers, NEW u, Lent(i, u), u # t PROVE Lent(i, u)'
  <2>1. /\ u \in TasksOf(i) /\ u.dpipe \in Channels /\ u.dbuffer \notin Held(u.dpipe)
        /\ imgbuf[u.dbuffer] # Unfilled
    BY <1>8, TaskBuffer DEF Lent
  <2>2. u.dbuffer # t.dbuffer
    BY <1>3, <1>8, <2>1, TaskIsBuffer
  <2>3. u.dbuffer \notin Held(u.dpipe)'
    BY <1>4, <2>1, <2>2
  <2> QED
    BY <1>5, <2>1, <2>3 DEF Lent
<1>9. ASSUME NEW i \in Infers \ {r}, NEW u, Lent(i, u) PROVE u # t
  <2>1. u \in TasksOf(i)
    BY <1>9 DEF Lent
  <2> QED
    BY <1>3, <2>1, TaskBuffer
<1>10. ASSUME NEW i \in Infers PROVE Queued(i)'
  <2>1. \A u \in ToSet(gtaskque[i]) : Lent(i, u) /\ u # t
    BY <1>2, <1>3, <1>9 DEF Queued
  <2>2. \A u \in ToSet(gtaskque[i]) : Lent(i, u)'
    BY <1>8, <2>1
  <2> QED
    BY <1>2, <1>5, <2>2, QueuedStays
<1>11. Working(r)'
  BY <1>a, <1>3, <1>5 DEF Working
<1>12. ASSUME NEW i \in Infers \ {r} PROVE Working(i)'
  <2>1. \A u : infer[i] = "put" /\ u = task[i] =>
                  Lent(i, u)' /\ u \notin ToSet(gtaskque'[i])
    BY <1>2, <1>5, <1>8, <1>9 DEF Working
  <2> QED
    BY <1>2, <1>5, <2>1, WorkingStays
<1>13. Scheduling'
  <2>1. ASSUME NEW i \in Infers, NEW u, Lent(i, u), u \notin ToSet(gtaskque[i]),
               infer[i] = "put" => task[i] # u
        PROVE  /\ Lent(i, u)' /\ u \notin ToSet(gtaskque'[i])
               /\ infer'[i] = "put" => task'[i] # u
    <3>1. u # t
      BY <1>a, <1>1, <1>9, <2>1
    <3>2. infer'[i] = "put" => infer[i] = "put" /\ task'[i] = task[i]
      BY <1>5
    <3> QED
      BY <1>5, <1>8, <2>1, <3>1, <3>2
  <2> QED
    BY <1>1, <2>1, SchedulingStays DEF schedVars
<1> QED
  BY <1>2, <1>4, <1>5, <1>6, <1>7, <1>10, <1>11, <1>12, <1>13 DEF BalancedInv

(* What InsertImage adds to a detector.                                    *)
LEMMA DescribedType ==
  ASSUME BalancedInv, NEW r \in Infers, infer[r] = "insert"
  PROVE  /\ Described(r) \in DescriptionsOf(r) /\ Described(r) \in Descriptions
         /\ Described(r).image = frame[r]
         /\ frame[r] \in FramesOf(r) /\ frame[r] \in PicturesOf(task[r].dpipe)
<1>1. /\ task[r] \in TasksOf(r) /\ imgbuf[task[r].dbuffer] # Unfilled
      /\ frame[r] \in PicturesOf(task[r].dpipe)
  BY DEF BalancedInv, Working
<1>2. /\ task[r].dpipe \in Channels /\ task[r].dbuffer \in Own(task[r].dpipe)
      /\ Instance(task[r].dpipe) = r
  BY <1>1, TaskBuffer
<1>3. imgbuf[task[r].dbuffer].channel \in Channels
  BY <1>1, <1>2, PictureOfBuffer DEF BalancedInv
<1>4. frame[r] \in Frames /\ frame[r].channel = task[r].dpipe
  BY <1>1, <1>2 DEF PicturesOf, Frames
<1> QED
  BY <1>1, <1>2, <1>3, <1>4 DEF Described, DescriptionsOf, Descriptions, FramesOf

(* The list it leaves there: the whole list, or what follows a batch.      *)
LEMMA LeftInDetector ==
  ASSUME BalancedInv, NEW r \in Infers, InsertImage(r)
  PROVE  /\ Append(imginfoque_[r], Described(r)) \in Seq(DescriptionsOf(r))
         /\ imginfoque_'[r] \in Seq(DescriptionsOf(r))
         /\ \/ imginfoque_'[r] = Append(imginfoque_[r], Described(r))
            \/ /\ nBatch[r] \in Nat
               /\ nBatch[r] <= Len(Append(imginfoque_[r], Described(r)))
               /\ imginfoque_'[r] = SubSeq(Append(imginfoque_[r], Described(r)),
                                           nBatch[r] + 1,
                                           Len(Append(imginfoque_[r], Described(r))))
         /\ \A i \in Infers \ {r} : imginfoque_'[i] = imginfoque_[i]
<1> DEFINE que == Append(imginfoque_[r], Described(r))
           rest == SubSeq(que, nBatch[r] + 1, Len(que))
<1>1. infer[r] = "insert" /\ imginfoque_ \in [Infers -> Seq(Descriptions)]
      /\ imginfoque_[r] \in Seq(DescriptionsOf(r))
      /\ imginfoque_' = [imginfoque_ EXCEPT ![r] =
                           IF Len(que) < 2 * nBatch[r] THEN que ELSE rest]
  BY DEF InsertImage, InferAt, BalancedInv, TypeOK
<1>2. que \in Seq(DescriptionsOf(r))
  BY <1>1, DescribedType, AppendProperties
<1>3. rest \in Seq(DescriptionsOf(r))
  <2>1. nBatch[r] \in Nat
    BY BalancedAssumption
  <2> HIDE DEF que
  <2>2. \A k \in 1..Len(que) : que[k] \in DescriptionsOf(r)
    BY <1>2, ElementOfSeq
  <2> QED
    BY <1>2, <2>1, <2>2
<1>4. /\ imginfoque_'[r] = IF Len(que) < 2 * nBatch[r] THEN que ELSE rest
      /\ \A i \in Infers \ {r} : imginfoque_'[i] = imginfoque_[i]
  BY <1>1
<1>5. /\ nBatch[r] \in Nat
      /\ ~(Len(que) < 2 * nBatch[r]) => nBatch[r] <= Len(que)
  <2>1. nBatch[r] \in Nat /\ Len(que) \in Nat
    BY <1>2, BalancedAssumption, LenProperties
  <2> QED
    BY <2>1
<1> QED
  BY <1>2, <1>3, <1>4, <1>5

LEMMA InsertKeeps ==
  ASSUME BalancedInv, NEW r \in Infers, InsertImage(r)
  PROVE  BalancedInv'
<1>1. /\ infer[r] = "insert" /\ infer' = [infer EXCEPT ![r] = "pop"]
      /\ task' = [task EXCEPT ![r] = NoTask]
      /\ frame' = [frame EXCEPT ![r] = Unfilled]
      /\ UNCHANGED <<decodingVars, schedVars, queVars>>
  BY DEF InsertImage, InferAt
<1>2. TypeOK /\ \A i \in Infers : imginfoque_[i] \in Seq(DescriptionsOf(i))
  BY DEF BalancedInv
<1>3. /\ DecodingInv' /\ DecodingTypeOK'
      /\ \A c \in Channels : Held(c)' = Held(c) /\ BuffersKept(c)
  <2>1. DecodingTypeOK
    BY DEF BalancedInv, DecodingInv
  <2> QED
    BY <2>1, <1>1, PipesKept DEF decodingVars, mainVars, DecodingTypeOK
<1>4. /\ infer' \in [Infers -> {"none", "loop", "semwait", "pop", "put", "insert", "done"}]
      /\ task' \in [Infers -> Tasks \cup {NoTask}]
      /\ frame' \in [Infers -> Frames \cup {Unfilled}]
      /\ infer'[r] = "pop"
      /\ \A i \in Infers \ {r} : /\ infer'[i] = infer[i] /\ task'[i] = task[i]
                                 /\ frame'[i] = frame[i]
  BY <1>1, <1>2 DEF TypeOK
<1>5. \A i \in Infers : imginfoque_'[i] \in Seq(DescriptionsOf(i))
  BY <1>2, LeftInDetector
<1>6. imginfoque_' \in [Infers -> Seq(Descriptions)]
  <2>1. \A i \in Infers : imginfoque_'[i] \in Seq(Descriptions)
    <3>1. \A i \in Infers : Seq(DescriptionsOf(i)) \subseteq Seq(Descriptions)
      BY SeqMonotonic DEF DescriptionsOf
    <3> QED
      BY <1>5, <3>1
  <2>2. DOMAIN imginfoque_' = Infers
        /\ imginfoque_' = [i \in Infers |-> imginfoque_'[i]]
    BY <1>2 DEF TypeOK, InsertImage
  <2> QED
    BY <2>1, <2>2
<1>7. TypeOK'
  BY <1>1, <1>2, <1>3, <1>4, <1>6 DEF TypeOK, schedVars, queVars
<1>8. Created'
  BY <1>1 DEF BalancedInv, Created, decodingVars, mainVars, schedVars
<1>9. Scheduling' /\ \A i \in Infers : Queued(i)' /\ Working(i)'
  BY <1>1, <1>3, <1>4, LoansStay DEF schedVars, queVars
<1> QED
  BY <1>3, <1>5, <1>7, <1>8, <1>9 DEF BalancedInv

LEMMA BalancedNext == BalancedInv /\ [Next]_vars => BalancedInv'
<1> SUFFICES ASSUME BalancedInv, [Next]_vars PROVE BalancedInv'
  OBVIOUS
<1>1. /\ DecodingInv /\ DecodingTypeOK /\ TypeOK /\ Created
      /\ grunning \in BOOLEAN
      /\ mainPc \in {"creating", "pause", "posting", "joining", "terminated"}
      /\ early \in 0..StartupWindow
      /\ gNewtaskAvaiable \in 0..SEM_VALUE_MAX
      /\ SEM_VALUE_MAX \in Nat /\ StartupWindow \in Nat
      /\ FLAGS_c \in Nat \ {0}
  BY DecodingAssumption DEF BalancedInv, DecodingInv, DecodingTypeOK
<1>2. ASSUME NEW d \in Channels, Decoder(d) PROVE BalancedInv'
  <2>1. DecoderStep(d) /\ UNCHANGED <<schedVars, queVars, inferVars>>
    BY <1>2 DEF Decoder
  <2>2. /\ DecodingInv' /\ DecodingTypeOK'
        /\ \A c \in Channels : Held(c)' = Held(c) /\ BuffersKept(c)
    BY <1>1, <2>1, DecoderKeeps DEF DecodingInv
  <2>3. TypeOK'
    BY <1>1, <2>1, <2>2 DEF TypeOK, schedVars, queVars, inferVars
  <2>4. UNCHANGED mainPc
    BY <2>1 DEF DecoderStep, DecoderExit, Decode, VppFails, Fill, StoreFrame, Announce, mainVars
  <2>5. Created'
    BY <1>1, <2>1, <2>4 DEF Created, schedVars, inferVars
  <2> QED
    BY <2>1, <2>2, <2>3, <2>5, QuietStep DEF schedVars, queVars, inferVars
\* Where pipes and decoders are left alone.
<1>3. ASSUME UNCHANGED <<pipeVars, decVars>>,
             grunning' \in BOOLEAN,
             mainPc' \in {"creating", "pause", "posting", "joining", "terminated"},
             early' \in 0..StartupWindow,
             gNewtaskAvaiable' \in 0..SEM_VALUE_MAX,
             scheduler' \in {"none", "loop", "semwait", "load", "push", "post", "done"},
             channel' \in Channels, srcframe' \in Buffers \cup {NoBuffer},
             gsemtInfer' \in [Infers -> 0..SEM_VALUE_MAX],
             infer' \in [Infers -> {"none", "loop", "semwait", "pop", "put", "insert",
                                    "done"}],
             UNCHANGED <<nInferThreadInstance, gtaskque, task, frame, imginfoque_>>,
             Created',
             scheduler' # "push" \/ UNCHANGED <<scheduler, channel, srcframe>>,
             \A i \in Infers : infer'[i] \notin {"put", "insert"} \/ infer'[i] = infer[i]
      PROVE  BalancedInv'
  <2>1. /\ DecodingInv' /\ DecodingTypeOK'
        /\ \A c \in Channels : Held(c)' = Held(c) /\ BuffersKept(c)
    BY <1>3, PipesKept
  <2>2. TypeOK'
    BY <1>1, <1>3, <2>1 DEF TypeOK
  <2> QED
    BY <1>3, <2>1, <2>2, QuietStep
<1>4. CASE ScheduleLoop
  BY <1>1, <1>3, <1>4 DEF ScheduleLoop, SchedulerAt, decodingVars, mainVars, queVars,
     inferVars, TypeOK, Created
<1>5. CASE AwaitTask
  <2>1. gNewtaskAvaiable' \in 0..SEM_VALUE_MAX
    BY <1>1, <1>5 DEF AwaitTask
  <2> QED
    BY <1>1, <1>3, <1>5, <2>1 DEF AwaitTask, SchedulerAt, queVars, inferVars, TypeOK, Created
<1>6. ASSUME NextPipe
      PROVE  /\ scheduler' \in {"load", "loop"} /\ channel' \in Channels
             /\ srcframe' = NoBuffer
  BY <1>1, <1>6 DEF NextPipe, TypeOK, Channels
<1>7. CASE LoadNothing
  BY <1>1, <1>3, <1>6, <1>7 DEF LoadNothing, decodingVars, mainVars, queVars, inferVars,
     TypeOK, Created
<1>8. CASE LoadFrame
  BY <1>8, LoadKeeps
<1>9. CASE PushTask
  BY <1>9, PushKeeps
<1>10. CASE PostInfer
  <2>1. gsemtInfer' \in [Infers -> 0..SEM_VALUE_MAX]
    BY <1>1, <1>10 DEF PostInfer, Posted, TypeOK
  <2> QED
    BY <1>1, <1>3, <1>6, <1>10, <2>1 DEF PostInfer, decodingVars, mainVars, inferVars,
       TypeOK, Created
<1>11. ASSUME NEW i \in Infers, InferLoop(i) PROVE BalancedInv'
  <2>1. /\ infer[i] = "loop" /\ infer' = [infer EXCEPT ![i] = IF grunning THEN "semwait" ELSE "done"]
        /\ UNCHANGED <<decodingVars, schedVars, queVars, task, frame, imginfoque_>>
    BY <1>11 DEF InferLoop, InferAt
  <2>3. Created'
    BY <1>1, <2>1 DEF Created, decodingVars, mainVars, schedVars, TypeOK
  <2> QED
    BY <1>1, <1>3, <2>1, <2>3 DEF decodingVars, mainVars, schedVars, queVars, TypeOK
<1>12. ASSUME NEW i \in Infers, AwaitInfer(i) PROVE BalancedInv'
  <2>1. /\ infer[i] = "semwait" /\ infer' = [infer EXCEPT ![i] = "pop"]
        /\ UNCHANGED <<decodingVars, schedVars, gtaskque, task, frame, imginfoque_>>
    BY <1>12 DEF AwaitInfer, InferAt
  <2>2. gsemtInfer' \in [Infers -> 0..SEM_VALUE_MAX]
    BY <1>1, <1>12 DEF AwaitInfer, TypeOK
  <2>3. Created'
    BY <1>1, <2>1 DEF Created, decodingVars, mainVars, schedVars, TypeOK
  <2> QED
    BY <1>1, <1>3, <2>1, <2>2, <2>3 DEF decodingVars, mainVars, schedVars, TypeOK
<1>13. ASSUME NEW i \in Infers, QueueEmpty(i) PROVE BalancedInv'
  <2>1. /\ infer[i] = "pop" /\ infer' = [infer EXCEPT ![i] = "loop"]
        /\ UNCHANGED <<decodingVars, schedVars, queVars, task, frame, imginfoque_>>
    BY <1>13 DEF QueueEmpty, InferAt
  <2>3. Created'
    BY <1>1, <2>1 DEF Created, decodingVars, mainVars, schedVars, TypeOK
  <2> QED
    BY <1>1, <1>3, <2>1, <2>3 DEF decodingVars, mainVars, schedVars, queVars, TypeOK
<1>14. ASSUME NEW i \in Infers, PopTask(i) \/ PutFrame(i) \/ InsertImage(i)
       PROVE  BalancedInv'
  BY <1>14, PopKeeps, PutKeeps, InsertKeeps
<1>15. CASE CreateThreads
  BY <1>1, <1>3, <1>15 DEF CreateThreads, queVars, TypeOK, Created
<1>16. CASE Interrupt
  BY <1>1, <1>3, <1>16 DEF Interrupt, schedVars, queVars, inferVars, TypeOK, Created
<1>17. CASE PostAll
  <2>1. gNewtaskAvaiable' \in 0..SEM_VALUE_MAX
        /\ gsemtInfer' \in [Infers -> 0..SEM_VALUE_MAX]
    BY <1>1, <1>17 DEF PostAll, Posted, TypeOK
  <2> QED
    BY <1>1, <1>3, <1>17, <2>1 DEF PostAll, schedVars, inferVars, TypeOK, Created
<1>18. CASE JoinAll
  BY <1>1, <1>3, <1>18 DEF JoinAll, schedVars, queVars, inferVars, TypeOK, Created
<1>19. CASE UNCHANGED vars
  BY <1>1, <1>3, <1>19 DEF vars, decodingVars, mainVars, schedVars, queVars, inferVars,
     TypeOK, Created
<1> QED
  BY <1>2, <1>4, <1>5, <1>7, <1>8, <1>9, <1>10, <1>11, <1>12, <1>13, <1>14, <1>15, <1>16,
     <1>17, <1>18, <1>19 DEF Next, SchedulerStep, InferStep

-----------------------------------------------------------------------------
(* Tokens.                                                                 *)

LEMMA TaskToldInit == Init => TaskTold
BY DEF Init, TaskTold

LEMMA TaskToldNext == BalancedInv /\ TaskTold /\ [Next]_vars => TaskTold'
<1> SUFFICES ASSUME BalancedInv, TaskTold, [Next]_vars, NEW i \in Infers,
                    infer'[i] \in {"none", "loop", "semwait"}, gtaskque'[i] # <<>>
             PROVE  \/ gsemtInfer'[i] > 0
                    \/ scheduler' = "post" /\ nInferThreadInstance' = i
  BY DEF TaskTold
<1>1. /\ TypeOK /\ Created /\ SEM_VALUE_MAX \in Nat \ {0}
      /\ infer[i] \in {"none", "loop", "semwait"} /\ gtaskque[i] # <<>> =>
           gsemtInfer[i] > 0 \/ (scheduler = "post" /\ nInferThreadInstance = i)
  BY DecodingAssumption DEF BalancedInv, TaskTold
<1>2. CASE UNCHANGED <<infer, gtaskque, gsemtInfer, scheduler, nInferThreadInstance>>
  BY <1>1, <1>2
<1>3. CASE \E d \in Channels : Decoder(d)
  BY <1>2, <1>3 DEF Decoder, schedVars, queVars, inferVars
\* The scheduler is not about to wake a thread.
<1>4. CASE ScheduleLoop \/ AwaitTask \/ LoadNothing \/ LoadFrame
  BY <1>1, <1>4 DEF ScheduleLoop, AwaitTask, LoadNothing, LoadFrame, SchedulerAt, queVars,
     inferVars
<1>5. CASE PushTask
  <2>1. /\ scheduler = "push" /\ scheduler' = "post" /\ nInferThreadInstance' = Route
        /\ Route \in Infers
        /\ \A j \in Infers \ {Route} : gtaskque'[j] = gtaskque[j]
        /\ UNCHANGED <<infer, gsemtInfer>>
    BY <1>1, <1>5, RouteIsInstance DEF PushTask, SchedulerAt, inferVars, TypeOK
  <2> QED
    BY <1>1, <2>1
<1>6. CASE PostInfer
  <2>1. /\ gsemtInfer'[nInferThreadInstance] > 0
        /\ \A j \in Infers \ {nInferThreadInstance} : gsemtInfer'[j] = gsemtInfer[j]
        /\ UNCHANGED <<infer, gtaskque>>
    BY <1>1, <1>6 DEF PostInfer, Posted, inferVars, TypeOK
  <2> QED
    BY <1>1, <2>1
<1>7. ASSUME NEW r \in Infers, InferStep(r)
      PROVE  \/ gsemtInfer'[i] > 0
             \/ scheduler' = "post" /\ nInferThreadInstance' = i
  <2>1. UNCHANGED <<scheduler, nInferThreadInstance>>
    BY <1>7 DEF InferStep, InferLoop, AwaitInfer, QueueEmpty, PopTask, PutFrame, InsertImage,
       schedVars
  <2>2. CASE i # r
    BY <1>1, <1>7, <2>1, <2>2 DEF InferStep, InferAt, InferLoop, AwaitInfer, QueueEmpty,
       PopTask, PutFrame, InsertImage, queVars, TypeOK
  <2>3. CASE i = r
    <3>1. CASE InferLoop(i)
      BY <1>1, <2>1, <3>1 DEF InferLoop, InferAt, queVars, TypeOK
    <3>2. CASE QueueEmpty(i)
      BY <3>2 DEF QueueEmpty, queVars
    <3>3. infer'[i] \notin {"pop", "put", "insert"}
      OBVIOUS
    <3> QED
      BY <1>1, <1>7, <2>3, <3>1, <3>2, <3>3 DEF InferStep, InferAt, AwaitInfer, PopTask,
         PutFrame, InsertImage, TypeOK
  <2> QED
    BY <2>2, <2>3
<1>8. CASE CreateThreads
  <2>1. scheduler = "none" /\ UNCHANGED <<gtaskque, gsemtInfer>>
    BY <1>1, <1>8 DEF CreateThreads, Created, queVars
  <2>2. infer[i] \in {"none", "loop", "semwait"}
    BY <1>1, <1>8 DEF CreateThreads, Created
  <2> QED
    BY <1>1, <2>1, <2>2
<1>9. CASE Interrupt \/ JoinAll
  BY <1>2, <1>9 DEF Interrupt, JoinAll, schedVars, queVars, inferVars
<1>10. CASE PostAll
  BY <1>1, <1>10 DEF PostAll, Posted, schedVars, inferVars, TypeOK
<1>11. CASE UNCHANGED vars
  BY <1>2, <1>11 DEF vars, schedVars, queVars, inferVars
<1> QED
  BY <1>3, <1>4, <1>5, <1>6, <1>7, <1>8, <1>9, <1>10, <1>11 DEF Next, SchedulerStep

\* Every stored frame has a buffer of its own; there are so many of them.
LEMMA StoredCount ==
  ASSUME BalancedInv
  PROVE  /\ StoredBuffers \subseteq Buffers /\ IsFiniteSet(StoredBuffers)
         /\ Cardinality(StoredBuffers) \in Nat
         /\ Cardinality(StoredBuffers) <= SEM_VALUE_MAX
         /\ IsFiniteSet(Announcing) /\ Cardinality(Announcing) \in Nat
<1>1. /\ FLAGS_c \in Nat \ {0} /\ NumBuffers \in Nat \ {0} /\ SEM_VALUE_MAX \in Nat
      /\ FLAGS_c * NumBuffers <= SEM_VALUE_MAX /\ FLAGS_c * NumBuffers \in Nat
  BY DecodingAssumption, BalancedAssumption
<1>2. IsFiniteSet(Buffers) /\ Cardinality(Buffers) <= SEM_VALUE_MAX
  <2>1. PICK n \in Nat : n = FLAGS_c * NumBuffers
    BY <1>1
  <2>2. Buffers = 1..n /\ n <= SEM_VALUE_MAX
    BY <1>1, <2>1 DEF Buffers
  <2>3. IsFiniteSet(1..n) /\ Cardinality(1..n) = IF 1 > n THEN 0 ELSE n - 1 + 1
    BY FS_Interval
  <2> QED
    BY <1>1, <2>2, <2>3
<1>3. IsFiniteSet(Channels)
  BY <1>1, FS_Interval DEF Channels
<1>4. StoredBuffers \subseteq Buffers
  BY DEF StoredBuffers, ToSet, BalancedInv, DecodingInv, DecodingTypeOK
<1>5. IsFiniteSet(StoredBuffers) /\ Cardinality(StoredBuffers) <= Cardinality(Buffers)
  BY <1>2, <1>4, FS_Subset
<1>6. Announcing \subseteq Channels
  BY DEF Announcing
<1>7. IsFiniteSet(Announcing)
  BY <1>3, <1>6, FS_Subset
<1>8. Cardinality(Buffers) \in Nat /\ Cardinality(StoredBuffers) \in Nat
      /\ Cardinality(Announcing) \in Nat
  BY <1>2, <1>5, <1>7, FS_CardinalityType
<1> QED
  BY <1>1, <1>2, <1>4, <1>5, <1>7, <1>8

(* A decoding thread stores a frame and is then about to announce it.      *)
LEMMA DecoderTokens ==
  ASSUME BalancedInv, NEW d \in Channels, DecoderStep(d)
  PROVE  /\ mainPc' = mainPc
         /\ \A e \in Channels : outPipe[e] # <<>> => outPipe'[e] # <<>>
         /\ \/ UNCHANGED <<StoredBuffers, Announcing, gNewtaskAvaiable, early>>
            \/ /\ Cardinality(StoredBuffers)' <= Cardinality(StoredBuffers) + 1
               /\ Cardinality(StoredBuffers)' \in Nat
               /\ Cardinality(Announcing)' = Cardinality(Announcing) + 1
               /\ gNewtaskAvaiable' = gNewtaskAvaiable
               /\ early' = IF mainPc = "creating" THEN early + 1 ELSE early
            \/ /\ StoredBuffers' = StoredBuffers
               /\ Cardinality(Announcing)' = Cardinality(Announcing) - 1
               /\ gNewtaskAvaiable' = Posted(gNewtaskAvaiable)
               /\ early' = early
<1>1. DecodingTypeOK /\ \A e \in Channels : Owned(e)
  BY DEF BalancedInv, DecodingInv
<1>2. StoredBuffers' = UNION {ToSet(outPipe'[e]) : e \in Channels}
  BY DEF StoredBuffers, ToSet
<1>3. CASE DecoderExit(d) \/ Decode(d) \/ VppFails(d) \/ Fill(d)
  <2>1. UNCHANGED <<mainPc, outPipe, gNewtaskAvaiable, early>>
    BY <1>3 DEF DecoderExit, Decode, VppFails, Fill, mainVars, pipeVars
  <2>2. StoredBuffers' = StoredBuffers
    BY <1>2, <2>1 DEF StoredBuffers
  <2>3. /\ decoder[d] # "post" /\ decoder'[d] # "post"
        /\ \A e \in Channels \ {d} : decoder'[e] = decoder[e]
    BY <1>1, <1>3 DEF DecoderExit, Decode, VppFails, Fill, DecoderAt, DecodingTypeOK
  <2>4. Announcing' = Announcing
    BY <2>3 DEF Announcing
  <2> QED
    BY <2>1, <2>2, <2>4
<1>4. CASE StoreFrame(d)
  <2>1. /\ decoder[d] = "store" /\ decoder'[d] = "post"
        /\ \A e \in Channels \ {d} : decoder'[e] = decoder[e] /\ outPipe'[e] = outPipe[e]
        /\ outPipe'[d] = Append(outPipe[d], decframe[d])
        /\ outPipe[d] \in Seq(Own(d)) /\ decframe[d] \in Own(d)
        /\ mainPc' = mainPc /\ gNewtaskAvaiable' = gNewtaskAvaiable
        /\ early' = IF mainPc = "creating" THEN early + 1 ELSE early
    BY <1>1, <1>4 DEF StoreFrame, DecoderAt, DecodingTypeOK, Owned
  <2>2. /\ ToSet(outPipe'[d]) = ToSet(outPipe[d]) \cup {decframe[d]}
        /\ Append(outPipe[d], decframe[d]) # <<>>
    <3>1. PICK b \in Own(d) : b = decframe[d]
      BY <2>1
    <3>2. /\ ToSet(Append(outPipe[d], b)) = ToSet(outPipe[d]) \cup {b}
          /\ Len(Append(outPipe[d], b)) = Len(outPipe[d]) + 1
      BY <2>1, AppendNew
    <3>3. Len(outPipe[d]) \in Nat
      BY <2>1, LenProperties
    <3>4. Append(outPipe[d], b) # <<>>
      <4>1. Len(Append(outPipe[d], b)) # 0 /\ Len(<<>>) = 0
        BY <3>2, <3>3
      <4> QED
        BY ONLY <4>1, Zenon
    <3> QED
      BY <2>1, <3>1, <3>2, <3>4
  <2>3. StoredBuffers' = StoredBuffers \cup {decframe[d]}
    BY <1>2, <2>1, <2>2 DEF StoredBuffers
  <2>4. /\ Cardinality(StoredBuffers)' <= Cardinality(StoredBuffers) + 1
        /\ Cardinality(StoredBuffers)' \in Nat
    <3>1. /\ Cardinality(StoredBuffers \cup {decframe[d]}) =
               IF decframe[d] \in StoredBuffers THEN Cardinality(StoredBuffers)
                                                ELSE Cardinality(StoredBuffers) + 1
          /\ Cardinality(StoredBuffers) \in Nat
      BY StoredCount, FS_AddElement
    <3> QED
      BY <2>3, <3>1
  <2>5. Announcing' = Announcing \cup {d} /\ d \notin Announcing
    BY <2>1 DEF Announcing
  <2>6. Cardinality(Announcing)' = Cardinality(Announcing) + 1
    BY <2>5, StoredCount, FS_AddElement
  <2> QED
    BY <2>1, <2>2, <2>4, <2>6
<1>5. CASE Announce(d)
  <2>1. /\ decoder[d] = "post" /\ decoder'[d] = "decode"
        /\ \A e \in Channels \ {d} : decoder'[e] = decoder[e]
        /\ outPipe' = outPipe /\ mainPc' = mainPc /\ early' = early
        /\ gNewtaskAvaiable' = Posted(gNewtaskAvaiable)
    BY <1>1, <1>5 DEF Announce, DecoderAt, DecodingTypeOK, pipeVars
  <2>2. StoredBuffers' = StoredBuffers
    BY <1>2, <2>1 DEF StoredBuffers
  <2>3. Announcing' = Announcing \ {d} /\ d \in Announcing
    BY <2>1 DEF Announcing
  <2>4. Cardinality(Announcing)' = Cardinality(Announcing) - 1
    BY <2>3, StoredCount, FS_RemoveElement
  <2> QED
    BY <2>1, <2>2, <2>4
<1> QED
  BY <1>3, <1>4, <1>5 DEF DecoderStep

\* LoadNoWait takes one of the stored frames.
LEMMA LoadTokens ==
  ASSUME BalancedInv, LoadFrame
  PROVE  /\ Cardinality(StoredBuffers)' = Cardinality(StoredBuffers) - 1
         /\ UNCHANGED <<mainPc, Announcing, gNewtaskAvaiable, early>>
<1>a. PICK c \in Channels : c = channel
  BY DEF BalancedInv, TypeOK
<1>b. PICK b \in {Head(outPipe[c])} : b = Head(outPipe[c])
  OBVIOUS
<1>1. /\ outPipe[c] # <<>> /\ outPipe' = [outPipe EXCEPT ![c] = Tail(outPipe[c])]
      /\ UNCHANGED <<mainVars, decVars>>
  BY <1>a DEF LoadFrame
<1>2. DecodingTypeOK /\ \A e \in Channels : Owned(e)
  BY DEF BalancedInv, DecodingInv
<1>3. /\ outPipe[c] \in Seq(Own(c)) /\ b \in ToSet(outPipe[c]) /\ b \in Own(c)
      /\ ToSet(Tail(outPipe[c])) = ToSet(outPipe[c]) \ {b}
      /\ outPipe'[c] = Tail(outPipe[c])
      /\ \A e \in Channels \ {c} : outPipe'[e] = outPipe[e]
  BY <1>b, <1>1, <1>2, PopFront DEF Owned, DecodingTypeOK
<1>4. StoredBuffers' = UNION {ToSet(outPipe'[e]) : e \in Channels}
  BY DEF StoredBuffers, ToSet
<1>5. \A e \in Channels \ {c} : b \notin ToSet(outPipe[e])
  BY <1>2, <1>3, OwnDisjoint DEF Owned, ToSet
<1>6. StoredBuffers' = StoredBuffers \ {b} /\ b \in StoredBuffers
  BY <1>3, <1>4, <1>5 DEF StoredBuffers
<1>7. Cardinality(StoredBuffers)' = Cardinality(StoredBuffers) - 1
  BY <1>6, StoredCount, FS_RemoveElement
<1> QED
  BY <1>1, <1>7 DEF mainVars, decVars, Announcing

LEMMA TokenCounts == BalancedInv => Counted
<1> SUFFICES ASSUME BalancedInv PROVE Counted
  OBVIOUS
<1>1. StartupWindow \in Nat /\ SEM_VALUE_MAX \in Nat /\ FLAGS_c \in Nat
  BY DecodingAssumption
<1>2. /\ gNewtaskAvaiable \in 0..SEM_VALUE_MAX /\ early \in 0..StartupWindow
      /\ channel \in Channels
  BY DEF BalancedInv, TypeOK, DecodingTypeOK
<1> QED
  BY <1>1, <1>2, StoredCount DEF Counted

\* A scan starts at the first channel.
LEMMA ScanInit == Init => ScanStart
BY DEF Init, ScanStart

LEMMA ScanNext == BalancedInv /\ ScanStart /\ [Next]_vars => ScanStart'
<1> SUFFICES ASSUME BalancedInv, ScanStart, [Next]_vars
             PROVE  ScanStart'
  OBVIOUS
<1>1. CASE UNCHANGED <<scheduler, channel>>
  BY <1>1 DEF ScanStart
<1>2. CASE SchedulerStep
  BY <1>2 DEF SchedulerStep, ScheduleLoop, AwaitTask, LoadNothing, LoadFrame, PushTask,
     PostInfer, NextPipe, SchedulerAt, ScanStart
<1>3. CASE CreateThreads
  BY <1>3 DEF CreateThreads, ScanStart, Created, BalancedInv
<1>4. CASE UNCHANGED vars
  BY <1>1, <1>4 DEF vars, schedVars
<1>5. CASE (\E c \in Channels : Decoder(c)) \/ (\E i \in Infers : InferStep(i))
           \/ Interrupt \/ PostAll \/ JoinAll
  BY <1>1, <1>5 DEF Decoder, InferStep, InferLoop, AwaitInfer, QueueEmpty, PopTask,
     PutFrame, InsertImage, Interrupt, PostAll, JoinAll, schedVars
<1> QED
  BY <1>2, <1>3, <1>4, <1>5 DEF Next

\* Steps that neither store nor announce a frame, outside a scan or within it.
LEMMA TokensStay ==
  ASSUME BalancedInv, TokenBound, UNCHANGED <<mainPc, early, outPipe, decoder>>,
         gNewtaskAvaiable' \in Nat, gNewtaskAvaiable' >= gNewtaskAvaiable,
         scheduler # "load" \/ UNCHANGED <<scheduler, channel>>
  PROVE  TokenBound'
<1>1. StoredBuffers' = StoredBuffers /\ Announcing' = Announcing
  BY DEF StoredBuffers, Announcing
<1>2. Explained \in Nat /\ Explained' \in Nat /\ Explained' >= Explained
  BY <1>1, TokenCounts DEF Explained, Counted
<1>3. Cardinality(StoredBuffers)' = Cardinality(StoredBuffers)
      /\ Cardinality(StoredBuffers) \in Nat
  BY <1>1, TokenCounts DEF Counted
<1>4. UNCHANGED channel => Unvisited' = Unvisited
  BY DEF Unvisited
<1> QED
  BY <1>2, <1>3, <1>4 DEF TokenBound

LEMMA DecoderTold ==
  ASSUME BalancedInv, BalancedInv', TokenBound, NEW d \in Channels, Decoder(d)
  PROVE  TokenBound'
<1>1. DecoderStep(d) /\ UNCHANGED <<scheduler, channel>>
  BY DEF Decoder, schedVars
<1>2. Counted /\ Counted'
  BY TokenCounts, PTL
<1>3. mainPc' = mainPc
  BY <1>1, DecoderTokens
<1>4. Unvisited \subseteq Unvisited'
  BY <1>1, DecoderTokens DEF Unvisited
<1>5. CASE UNCHANGED <<StoredBuffers, Announcing, gNewtaskAvaiable, early>>
  <2>1. Explained' = Explained /\ Cardinality(StoredBuffers)' = Cardinality(StoredBuffers)
    BY <1>5 DEF Explained
  <2> QED
    BY <1>1, <1>3, <1>4, <1>5, <2>1 DEF TokenBound
<1>6. CASE /\ Cardinality(StoredBuffers)' <= Cardinality(StoredBuffers) + 1
           /\ Cardinality(Announcing)' = Cardinality(Announcing) + 1
           /\ gNewtaskAvaiable' = gNewtaskAvaiable
           /\ early' = IF mainPc = "creating" THEN early + 1 ELSE early
  <2>1. Explained' = Explained + 1 /\ Explained \in Nat
    BY <1>2, <1>6 DEF Explained, Counted
  <2>2. /\ Cardinality(StoredBuffers) \in Nat /\ Cardinality(StoredBuffers)' \in Nat
        /\ early \in Nat
    BY <1>2 DEF Counted
  <2>3. CASE mainPc = "creating"
    BY <1>3, <1>6, <2>2, <2>3 DEF TokenBound
  <2>4. CASE mainPc # "creating"
    BY <1>1, <1>3, <1>4, <1>6, <2>1, <2>2, <2>4 DEF TokenBound
  <2> QED
    BY <2>3, <2>4
<1>7. CASE /\ StoredBuffers' = StoredBuffers
           /\ Cardinality(Announcing)' = Cardinality(Announcing) - 1
           /\ gNewtaskAvaiable' = Posted(gNewtaskAvaiable)
           /\ early' = early
  <2>1. Cardinality(StoredBuffers)' = Cardinality(StoredBuffers)
    BY <1>7
  <2>2. CASE mainPc = "creating"
    BY <1>3, <1>7, <2>1, <2>2 DEF TokenBound
  <2>3. CASE mainPc # "creating" /\ gNewtaskAvaiable < SEM_VALUE_MAX
    <3>1. Explained' = Explained
      BY <1>2, <1>7, <2>3 DEF Explained, Posted, Counted
    <3> QED
      BY <1>1, <1>3, <1>4, <2>1, <2>3, <3>1 DEF TokenBound
  <2>4. CASE mainPc # "creating" /\ gNewtaskAvaiable = SEM_VALUE_MAX
    <3>1. Cardinality(StoredBuffers)' <= Explained'
      BY <1>2, <1>7, <2>4 DEF Explained, Posted, Counted
    <3> QED
      BY <1>3, <2>4, <3>1 DEF TokenBound
  <2>5. gNewtaskAvaiable < SEM_VALUE_MAX \/ gNewtaskAvaiable = SEM_VALUE_MAX
    BY <1>2 DEF Counted
  <2> QED
    BY <2>2, <2>3, <2>4, <2>5
<1> QED
  BY <1>1, <1>5, <1>6, <1>7, DecoderTokens

LEMMA TokenInit == Init => TokenBound
<1> SUFFICES ASSUME Init PROVE TokenBound
  OBVIOUS
<1>1. mainPc = "creating" /\ early = 0 /\ outPipe = [c \in Channels |-> <<>>]
  BY DEF Init, DecodingInit
<1>2. StoredBuffers = {}
  <2>1. \A c \in Channels : DOMAIN outPipe[c] = {}
    BY <1>1
  <2> QED
    BY <2>1 DEF StoredBuffers, ToSet
<1> QED
  BY <1>1, <1>2, FS_EmptySet DEF TokenBound

(* One token starts a scan of all pipes: if it stood for a frame, the scan *)
(* has yet to find one.                                                    *)
LEMMA AwaitTold ==
  ASSUME BalancedInv, TokenBound, ScanStart, AwaitTask
  PROVE  TokenBound'
<1>1. /\ scheduler = "semwait" /\ scheduler' = "load" /\ channel = 1 /\ channel' = 1
      /\ gNewtaskAvaiable' = gNewtaskAvaiable - 1
      /\ UNCHANGED <<mainPc, early, outPipe, decoder>>
  BY DEF AwaitTask, SchedulerAt, ScanStart, pipeVars, decVars
<1>2. mainPc # "creating" /\ mainPc' # "creating"
  BY <1>1 DEF BalancedInv, Created
<1>3. StoredBuffers' = StoredBuffers /\ Announcing' = Announcing
  BY <1>1 DEF StoredBuffers, Announcing
<1>4. Counted
  BY TokenCounts
<1>5. /\ Cardinality(StoredBuffers) \in Nat /\ Explained' \in Int
      /\ Cardinality(StoredBuffers)' = Cardinality(StoredBuffers)
      /\ Explained' >= 0 /\ Cardinality(StoredBuffers) <= Explained' + 1
  <2>1. gNewtaskAvaiable > 0
    BY DEF AwaitTask
  <2>2. Cardinality(StoredBuffers) <= Explained
    BY <1>1, <1>2 DEF TokenBound
  <2>3. Explained' = Explained - 1 /\ Explained \in Nat /\ Explained > 0
    BY <1>1, <1>3, <1>4, <2>1 DEF Explained, Counted
  <2> QED
    BY <1>3, <1>4, <2>2, <2>3 DEF Counted
<1>6. CASE Cardinality(StoredBuffers) = 0
  BY <1>2, <1>5, <1>6 DEF TokenBound
<1>7. CASE Cardinality(StoredBuffers) # 0
  <2>1. StoredBuffers # {}
    BY <1>7, FS_EmptySet
  <2>2. PICK d \in Channels : ToSet(outPipe[d]) # {}
    BY <2>1 DEF StoredBuffers
  <2>3. outPipe'[d] # <<>>
    <3>1. outPipe[d] # <<>>
      BY <2>2 DEF ToSet
    <3> QED
      BY <3>1, <1>1
  <2>4. d >= 1
    BY DecodingAssumption DEF Channels
  <2>5. d \in Unvisited'
    BY <1>1, <2>3, <2>4 DEF Unvisited
  <2> QED
    BY <1>1, <1>2, <1>5, <2>5 DEF TokenBound
<1> QED
  BY <1>6, <1>7

LEMMA LoadNothingTold ==
  ASSUME BalancedInv, TokenBound, LoadNothing
  PROVE  TokenBound'
<1>1. /\ scheduler = "load" /\ outPipe[channel] = <<>> /\ NextPipe
      /\ UNCHANGED <<mainPc, early, gNewtaskAvaiable, outPipe, decoder>>
  BY DEF LoadNothing, decodingVars, mainVars, pipeVars, decVars
<1>2. mainPc # "creating" /\ mainPc' # "creating"
  BY <1>1 DEF BalancedInv, Created
<1>3. /\ Cardinality(StoredBuffers)' = Cardinality(StoredBuffers)
      /\ Explained' = Explained
  BY <1>1 DEF StoredBuffers, Announcing, Explained
<1>4. CASE Cardinality(StoredBuffers) <= Explained
  BY <1>2, <1>3, <1>4 DEF TokenBound
<1>5. CASE /\ Cardinality(StoredBuffers) <= Explained + 1
           /\ Unvisited # {}
  <2>1. PICK d \in Channels : d >= channel /\ outPipe[d] # <<>>
    BY <1>5 DEF Unvisited
  <2>2. /\ d \in Nat /\ channel \in Nat /\ FLAGS_c \in Nat /\ d <= FLAGS_c /\ d # channel
    BY <1>1, <2>1, DecodingAssumption DEF Channels, BalancedInv, TypeOK
  <2>3. channel < FLAGS_c
    BY <2>1, <2>2
  <2>4. scheduler' = "load" /\ channel' = channel + 1
    BY <1>1, <2>3 DEF NextPipe
  <2>5. d \in Unvisited'
    <3>1. d >= channel'
      BY <2>1, <2>2, <2>4
    <3>2. outPipe'[d] # <<>>
      BY <1>1, <2>1
    <3> QED
      BY <3>1, <3>2 DEF Unvisited
  <2> QED
    BY <1>2, <1>3, <1>5, <2>4, <2>5 DEF TokenBound
<1> QED
  BY <1>2, <1>4, <1>5 DEF TokenBound

LEMMA TokenNext == BalancedInv /\ ScanStart /\ TokenBound /\ [Next]_vars => TokenBound'
<1> SUFFICES ASSUME BalancedInv, ScanStart, TokenBound, [Next]_vars
             PROVE  TokenBound'
  OBVIOUS
<1>1. BalancedInv'
  BY BalancedNext
<1>2. Counted
  BY TokenCounts
<1>3. ASSUME NEW d \in Channels, Decoder(d) PROVE TokenBound'
  BY <1>1, <1>3, DecoderTold
<1>4. gNewtaskAvaiable \in Nat
  BY <1>2 DEF Counted
<1>5. ASSUME UNCHANGED <<mainPc, early, gNewtaskAvaiable, outPipe, decoder>>,
             scheduler # "load" \/ UNCHANGED <<scheduler, channel>>
      PROVE  TokenBound'
  BY <1>4, <1>5, TokensStay
<1>6. CASE ScheduleLoop \/ PushTask \/ PostInfer
  BY <1>5, <1>6 DEF ScheduleLoop, PushTask, PostInfer, SchedulerAt, NextPipe, decodingVars,
     mainVars, pipeVars, decVars
<1>7. CASE AwaitTask
  BY <1>7, AwaitTold
<1>8. CASE LoadNothing
  BY <1>8, LoadNothingTold
<1>9. CASE LoadFrame
  <2>1. /\ Cardinality(StoredBuffers)' = Cardinality(StoredBuffers) - 1
        /\ UNCHANGED <<mainPc, Announcing, gNewtaskAvaiable, early>>
    BY <1>9, LoadTokens
  <2>2. mainPc # "creating"
    BY <1>9 DEF LoadFrame, SchedulerAt, BalancedInv, Created
  <2>3. Explained' = Explained /\ Explained \in Nat
    BY <1>2, <2>1 DEF Explained, Counted
  <2>4. Cardinality(StoredBuffers) \in Nat
    BY <1>2 DEF Counted
  <2> QED
    BY <2>1, <2>2, <2>3, <2>4 DEF TokenBound
<1>10. ASSUME NEW r \in Infers, InferStep(r) PROVE TokenBound'
  <2>1. UNCHANGED <<mainPc, early, gNewtaskAvaiable, outPipe, decoder, scheduler, channel>>
    BY <1>10 DEF InferStep, InferLoop, AwaitInfer, QueueEmpty, PopTask, PutFrame,
       InsertImage, decodingVars, schedVars, mainVars, pipeVars, decVars
  <2> QED
    BY <1>5, <2>1
<1>11. CASE CreateThreads
  <2>1. /\ mainPc = "creating" /\ mainPc' = "pause" /\ gNewtaskAvaiable' = 0
        /\ UNCHANGED <<outPipe, decoder>>
    BY <1>11 DEF CreateThreads, pipeVars, decVars
  <2>2. /\ StoredBuffers' = StoredBuffers /\ Announcing' = Announcing
    BY <2>1 DEF StoredBuffers, Announcing
  <2>3. Cardinality(StoredBuffers)' <= Explained'
    BY <1>2, <2>1, <2>2 DEF Counted, Explained, TokenBound
  <2> QED
    BY <2>1, <2>3 DEF TokenBound
<1>12. CASE Interrupt \/ JoinAll
  <2>1. /\ mainPc # "creating" /\ mainPc' # "creating"
        /\ UNCHANGED <<gNewtaskAvaiable, outPipe, decoder, scheduler, channel>>
    BY <1>12 DEF Interrupt, JoinAll, pipeVars, decVars, schedVars
  <2>2. /\ Cardinality(StoredBuffers)' = Cardinality(StoredBuffers)
        /\ Explained' = Explained /\ Unvisited' = Unvisited
    BY <2>1 DEF StoredBuffers, Announcing, Explained, Unvisited
  <2> QED
    BY <2>1, <2>2 DEF TokenBound
<1>13. CASE PostAll
  <2>1. /\ mainPc # "creating" /\ mainPc' # "creating"
        /\ gNewtaskAvaiable' = Posted(gNewtaskAvaiable)
        /\ UNCHANGED <<outPipe, decoder, scheduler, channel>>
    BY <1>13 DEF PostAll, pipeVars, decVars, schedVars
  <2>2. /\ Cardinality(StoredBuffers)' = Cardinality(StoredBuffers)
        /\ Announcing' = Announcing /\ Unvisited' = Unvisited
    BY <2>1 DEF StoredBuffers, Announcing, Unvisited
  <2>3. Explained' \in Nat /\ Explained \in Nat /\ Explained' >= Explained
    BY <1>2, <2>1, <2>2 DEF Explained, Counted, Posted
  <2>4. Cardinality(StoredBuffers) \in Nat
    BY <1>2 DEF Counted
  <2> QED
    BY <2>1, <2>2, <2>3, <2>4 DEF TokenBound
<1>14. CASE UNCHANGED vars
  BY <1>5, <1>14 DEF vars, decodingVars, mainVars, pipeVars, decVars, schedVars
<1> QED
  BY <1>3, <1>6, <1>7, <1>8, <1>9, <1>10, <1>11, <1>12, <1>13, <1>14 DEF Next, SchedulerStep

-----------------------------------------------------------------------------
(* The order of pictures.                                                  *)

InDetector(i) == [k \in DOMAIN imginfoque_[i] |-> imginfoque_[i][k].image]
InHand(i) == IF infer[i] \in {"put", "insert"} THEN <<frame[i]>> ELSE <<>>
InQueue(i) == [k \in DOMAIN gtaskque[i] |-> imgbuf[gtaskque[i][k].dbuffer]]

ImageOf == [d \in Descriptions |-> d.image]
PictureAt == [t \in Tasks |-> imgbuf[t.dbuffer]]

Parts(i) ==
  /\ InDetector(i) \in Seq(FramesOf(i)) /\ InHand(i) \in Seq(FramesOf(i))
  /\ InQueue(i) \in Seq(FramesOf(i)) /\ Infered(i) \in Seq(FramesOf(i))
  /\ InDetector(i) = Contents(ImageOf, imginfoque_[i])
  /\ InQueue(i) = Contents(PictureAt, gtaskque[i])
  /\ \A t \in ToSet(gtaskque[i]) : PictureAt[t] \in FramesOf(i)
  /\ Infered(i) = Join(Join(InDetector(i), InHand(i)), InQueue(i))

LEMMA PictureIsOf ==
  ASSUME NEW c \in Channels
  PROVE  PicturesOf(c) \subseteq FramesOf(Instance(c)) /\ PicturesOf(c) \subseteq Frames
BY DEF PicturesOf, FramesOf, Frames

LEMMA LentPicture ==
  ASSUME BalancedInv, NEW i \in Infers, NEW t, Lent(i, t)
  PROVE  /\ imgbuf[t.dbuffer] \in FramesOf(i) /\ imgbuf[t.dbuffer] \in PicturesOf(t.dpipe)
         /\ t \in Tasks /\ PictureAt[t] = imgbuf[t.dbuffer]
<1>1. /\ t \in TasksOf(i) /\ imgbuf[t.dbuffer] # Unfilled
  BY DEF Lent
<1>2. /\ t.dpipe \in Channels /\ t.dbuffer \in Own(t.dpipe) /\ Instance(t.dpipe) = i
      /\ t \in Tasks
  BY <1>1, TaskBuffer
<1>3. imgbuf[t.dbuffer] \in PicturesOf(t.dpipe)
  BY <1>1, <1>2, PictureOfBuffer DEF BalancedInv
<1> QED
  BY <1>2, <1>3, PictureIsOf DEF PictureAt

LEMMA DetectorPart ==
  ASSUME NEW i \in Infers, NEW q \in Seq(DescriptionsOf(i))
  PROVE  /\ [k \in DOMAIN q |-> q[k].image] = Contents(ImageOf, q)
         /\ Contents(ImageOf, q) \in Seq(FramesOf(i))
         /\ \A d \in DescriptionsOf(i) : ImageOf[d] = d.image /\ ImageOf[d] \in FramesOf(i)
<1>1. \A d \in DescriptionsOf(i) : ImageOf[d] = d.image /\ ImageOf[d] \in FramesOf(i)
  BY DEF DescriptionsOf, ImageOf
<1>2. \A k \in DOMAIN q : q[k] \in DescriptionsOf(i)
  BY LenProperties, ElementOfSeq
<1>3. [k \in DOMAIN q |-> q[k].image] = Contents(ImageOf, q)
  BY <1>1, <1>2 DEF Contents
<1>4. \A d \in ToSet(q) : ImageOf[d] \in FramesOf(i)
  BY <1>1, <1>2 DEF ToSet
<1>5. Contents(ImageOf, q) \in Seq(FramesOf(i))
  BY <1>4, ContentsOfList
<1> QED
  BY <1>1, <1>3, <1>5

LEMMA QueuePart ==
  ASSUME BalancedInv, NEW i \in Infers
  PROVE  /\ InQueue(i) = Contents(PictureAt, gtaskque[i])
         /\ Contents(PictureAt, gtaskque[i]) \in Seq(FramesOf(i))
         /\ \A t \in ToSet(gtaskque[i]) : PictureAt[t] \in FramesOf(i)
<1>1. Queued(i)
  BY DEF BalancedInv
<1>2. \A t \in ToSet(gtaskque[i]) :
        PictureAt[t] = imgbuf[t.dbuffer] /\ PictureAt[t] \in FramesOf(i)
  BY <1>1, LentPicture DEF Queued
<1>3. InQueue(i) = Contents(PictureAt, gtaskque[i])
  BY <1>2 DEF InQueue, Contents, ToSet
<1>4. Contents(PictureAt, gtaskque[i]) \in Seq(FramesOf(i))
  BY <1>1, <1>2, ContentsOfList DEF Queued
<1> QED
  BY <1>2, <1>3, <1>4

LEMMA PartsAre == BalancedInv => \A i \in Infers : Parts(i)
<1> SUFFICES ASSUME BalancedInv, NEW i \in Infers PROVE Parts(i)
  OBVIOUS
<1>1. InDetector(i) \in Seq(FramesOf(i)) /\ InDetector(i) = Contents(ImageOf, imginfoque_[i])
  BY DetectorPart DEF InDetector, BalancedInv
<1>2. InHand(i) \in Seq(FramesOf(i))
  <2>1. CASE infer[i] \in {"put", "insert"}
    <3>1. task[i] \in TasksOf(i) /\ frame[i] \in PicturesOf(task[i].dpipe)
      BY <2>1 DEF BalancedInv, Working
    <3>2. frame[i] \in FramesOf(i)
      BY <3>1, TaskBuffer, PictureIsOf
    <3> QED
      BY <3>2 DEF InHand
  <2>2. CASE infer[i] \notin {"put", "insert"}
    BY <2>2 DEF InHand
  <2> QED
    BY <2>1, <2>2
<1>3. InQueue(i) \in Seq(FramesOf(i)) /\ InQueue(i) = Contents(PictureAt, gtaskque[i])
      /\ \A t \in ToSet(gtaskque[i]) : PictureAt[t] \in FramesOf(i)
  BY QueuePart
<1>4. Infered(i) = Join(Join(InDetector(i), InHand(i)), InQueue(i))
  BY DEF Infered, Join, InDetector, InHand, InQueue
<1>5. Join(InDetector(i), InHand(i)) \in Seq(FramesOf(i))
  BY <1>1, <1>2, JoinType
<1>6. Infered(i) \in Seq(FramesOf(i))
  BY <1>3, <1>4, <1>5, JoinType
<1> QED
  BY <1>1, <1>2, <1>3, <1>4, <1>6 DEF Parts

LEMMA PartsNext == BalancedInv' => (\A i \in Infers : Parts(i))'
BY PartsAre, PTL

(* Whatever else is going on, a lent buffer keeps its picture.             *)
LEMMA InferedKept ==
  ASSUME BalancedInv, NEW i \in Infers, \A c \in Channels : BuffersKept(c),
         imginfoque_'[i] = imginfoque_[i], gtaskque'[i] = gtaskque[i],
         InHand(i)' = InHand(i)
  PROVE  Infered(i)' = Infered(i)
<1>1. Queued(i)
  BY DEF BalancedInv
<1>2. ASSUME NEW t \in ToSet(gtaskque[i]) PROVE imgbuf'[t.dbuffer] = imgbuf[t.dbuffer]
  <2>1. Lent(i, t)
    BY <1>1 DEF Queued
  <2>2. t.dpipe \in Channels /\ t.dbuffer \in Own(t.dpipe) /\ t.dbuffer \notin Held(t.dpipe)
    BY <2>1, TaskBuffer DEF Lent
  <2> QED
    BY <2>2 DEF BuffersKept, Held
<1>3. InQueue(i)' = InQueue(i)
  BY <1>2 DEF InQueue, ToSet
<1>4. InDetector(i)' = InDetector(i)
  BY DEF InDetector
<1>5. /\ Infered(i) = (InDetector(i) \o InHand(i)) \o InQueue(i)
      /\ Infered(i)' = (InDetector(i)' \o InHand(i)') \o InQueue(i)'
  BY DEF Infered, InDetector, InHand, InQueue
<1> QED
  BY <1>3, <1>4, <1>5

(* A task is appended to the queue of one thread.                          *)
LEMMA PushLine ==
  ASSUME BalancedInv, PushTask
  PROVE  /\ imgbuf[srcframe] \in PicturesOf(channel)
         /\ \A i \in Infers :
              Infered(i)' = IF i = Instance(channel)
                              THEN Join(Infered(i), <<imgbuf[srcframe]>>)
                              ELSE Infered(i)
<1>1. /\ scheduler = "push" /\ channel \in Channels /\ TypeOK
      /\ Route = Instance(channel) /\ NextTask \in TasksOf(Route) /\ Route \in Infers
      /\ imgbuf[srcframe] \in PicturesOf(channel)
      /\ gtaskque' = [gtaskque EXCEPT ![Route] = Append(@, NextTask)]
      /\ imgbuf' = imgbuf /\ UNCHANGED <<infer, frame, imginfoque_>>
  BY RouteIsInstance DEF PushTask, SchedulerAt, NextTask, BalancedInv, TypeOK, decodingVars,
     pipeVars, inferVars
<1>2. /\ \A c \in Channels : BuffersKept(c)
      /\ \A i \in Infers : InDetector(i)' = InDetector(i) /\ InHand(i)' = InHand(i)
  BY <1>1 DEF BuffersKept, InDetector, InHand
<1>3. ASSUME NEW i \in Infers, i # Instance(channel)
      PROVE  Infered(i)' = Infered(i)
  <2>1. gtaskque'[i] = gtaskque[i] /\ imginfoque_'[i] = imginfoque_[i]
    BY <1>1, <1>3 DEF TypeOK
  <2> QED
    BY <1>2, <2>1, InferedKept
<1>4. ASSUME NEW i \in Infers, i = Instance(channel)
      PROVE  Infered(i)' = Join(Infered(i), <<imgbuf[srcframe]>>)
  <2> DEFINE one == <<imgbuf[srcframe]>>
             inDet == InDetector(i)
             hand == InHand(i)
             que == InQueue(i)
             front == Join(inDet, hand)
  <2>1. /\ gtaskque'[i] = Append(gtaskque[i], NextTask)
        /\ gtaskque[i] \in Seq(TasksOf(i)) /\ NextTask \in TasksOf(i)
    BY <1>1, <1>4 DEF TypeOK, BalancedInv, Queued
  <2>2. /\ PictureAt[NextTask] = imgbuf[srcframe] /\ PictureAt' = PictureAt
        /\ imgbuf[srcframe] \in FramesOf(i)
    BY <1>1, <1>4, <2>1, PictureIsOf, TaskBuffer DEF PictureAt, NextTask
  <2>3. Parts(i)
    BY PartsAre
  <2>4. Contents(PictureAt, gtaskque'[i]) = Join(que, one)
    <3>1. que = Contents(PictureAt, gtaskque[i])
      BY <2>3 DEF Parts
    <3>2. Contents(PictureAt, Append(gtaskque[i], NextTask)) =
            Join(Contents(PictureAt, gtaskque[i]), <<PictureAt[NextTask]>>)
      <4>1. Maps(PictureAt, Tasks, Frames \cup {Unfilled})
        BY DEF Maps, PictureAt, Tasks, BalancedInv, TypeOK, DecodingTypeOK
      <4>2. gtaskque[i] \in Seq(Tasks) /\ NextTask \in Tasks
        BY <2>1, TaskBuffer DEF BalancedInv, TypeOK
      <4> QED
        BY <4>1, <4>2, ContentsPush
    <3> QED
      BY <2>1, <2>2, <3>1, <3>2
  <2>5. Parts(i)'
    BY PushKeeps, PartsNext
  <2>6. InQueue(i)' = Join(que, one)
    BY <2>2, <2>4, <2>5 DEF Parts
  <2>7. /\ Infered(i) = Join(front, que)
        /\ Infered(i)' = Join(front, Join(que, one))
    BY <1>2, <2>3, <2>5, <2>6 DEF Parts
  <2>8. inDet \in Seq(FramesOf(i)) /\ hand \in Seq(FramesOf(i)) /\ que \in Seq(FramesOf(i))
        /\ one \in Seq(FramesOf(i))
    BY <2>2, <2>3 DEF Parts
  <2>9. front \in Seq(FramesOf(i))
    BY <2>8, JoinType
  <2> HIDE DEF front, que, one
  <2>10. Join(Join(front, que), one) = Join(front, Join(que, one))
    BY <2>8, <2>9, JoinAssociative
  <2> QED
    BY <2>7, <2>10 DEF one
<1> QED
  BY <1>1, <1>3, <1>4

(* A thread takes the first task of its queue and copies the picture.      *)
LEMMA PopLine ==
  ASSUME BalancedInv, NEW r \in Infers, PopTask(r), NEW i \in Infers
  PROVE  Infered(i)' = Infered(i)
<1>1. /\ infer[r] = "pop" /\ gtaskque[r] # <<>> /\ TypeOK
      /\ infer' = [infer EXCEPT ![r] = "put"]
      /\ frame' = [frame EXCEPT ![r] = imgbuf[Head(gtaskque[r]).dbuffer]]
      /\ gtaskque' = [gtaskque EXCEPT ![r] = Tail(@)]
      /\ imgbuf' = imgbuf /\ imginfoque_' = imginfoque_
  BY DEF PopTask, InferAt, BalancedInv, decodingVars, pipeVars
<1>2. CASE i # r
  <2>1. /\ gtaskque'[i] = gtaskque[i] /\ imginfoque_'[i] = imginfoque_[i]
        /\ InHand(i)' = InHand(i)
    BY <1>1, <1>2 DEF TypeOK, InHand
  <2>2. \A c \in Channels : BuffersKept(c)
    BY <1>1 DEF BuffersKept
  <2> QED
    BY <2>1, <2>2, InferedKept
<1>3. CASE i = r
  <2> DEFINE t == Head(gtaskque[i])
             one == <<imgbuf[t.dbuffer]>>
             inDet == InDetector(i)
             left == InQueue(i)'
             S == FramesOf(i)
  <2>1. /\ gtaskque'[i] = Tail(gtaskque[i])
        /\ InHand(i)' = one /\ InHand(i) = <<>> /\ InDetector(i)' = inDet
        /\ PictureAt' = PictureAt
    BY <1>1, <1>3 DEF TypeOK, InHand, InDetector, PictureAt
  <2>2. Parts(i) /\ gtaskque[i] \in Seq(TasksOf(i))
    BY PartsAre DEF BalancedInv, Queued
  <2>3. Parts(i)'
    BY PopKeeps, PartsNext
  <2>4. t \in TasksOf(i) /\ t \in ToSet(gtaskque[i])
    BY <1>1, <1>3, <2>2, PopFront
  <2>5. PictureAt[t] = imgbuf[t.dbuffer] /\ imgbuf[t.dbuffer] \in S
    <3>1. PictureAt[t] = imgbuf[t.dbuffer]
      BY <2>4, TaskBuffer DEF PictureAt
    <3> QED
      BY <3>1, <2>2, <2>4 DEF Parts
  <2>6. /\ Contents(PictureAt, gtaskque[i]) =
             Join(<<PictureAt[t]>>, Contents(PictureAt, Tail(gtaskque[i])))
        /\ Contents(PictureAt, Tail(gtaskque[i])) \in Seq(S)
    <3>1. \A u \in ToSet(gtaskque[i]) : PictureAt[u] \in S
      BY <2>2 DEF Parts
    <3> QED
      BY <1>1, <1>3, <2>2, <3>1, ContentsTail
  <2>7. left = Contents(PictureAt, Tail(gtaskque[i]))
    BY <2>1, <2>3 DEF Parts
  <2>8. InQueue(i) = Join(one, left) /\ left \in Seq(S) /\ one \in Seq(S) /\ inDet \in Seq(S)
    BY <2>2, <2>5, <2>6, <2>7 DEF Parts
  <2>9. Infered(i) = Join(Join(inDet, <<>>), Join(one, left))
    BY <2>1, <2>2, <2>8 DEF Parts
  <2>10. Infered(i)' = Join(Join(inDet, one), left)
    BY <2>1, <2>3 DEF Parts
  <2> HIDE DEF one, inDet, left, S
  <2>11. /\ Join(inDet, <<>>) = inDet
         /\ Join(Join(inDet, one), left) = Join(inDet, Join(one, left))
    BY <2>8, JoinEmpty, JoinAssociative
  <2> QED
    BY <2>9, <2>10, <2>11
<1> QED
  BY <1>2, <1>3

(* A picture goes into the detector, which may report and forget its       *)
(* oldest ones.                                                            *)
LEMMA InsertLine ==
  ASSUME BalancedInv, NEW r \in Infers, InsertImage(r), NEW i \in Infers
  PROVE  \/ Infered(i)' = Infered(i)
         \/ \E front \in Seq(FramesOf(i)) : Infered(i) = Join(front, Infered(i)')
<1>1. /\ infer[r] = "insert" /\ TypeOK
      /\ infer' = [infer EXCEPT ![r] = "pop"]
      /\ frame' = [frame EXCEPT ![r] = Unfilled]
      /\ imgbuf' = imgbuf /\ gtaskque' = gtaskque
  BY DEF InsertImage, InferAt, BalancedInv, decodingVars, pipeVars, queVars
<1>2. CASE i # r
  <2>1. /\ gtaskque'[i] = gtaskque[i] /\ imginfoque_'[i] = imginfoque_[i]
        /\ InHand(i)' = InHand(i)
    BY <1>1, <1>2, LeftInDetector DEF TypeOK, InHand
  <2>2. \A c \in Channels : BuffersKept(c)
    BY <1>1 DEF BuffersKept
  <2> QED
    BY <2>1, <2>2, InferedKept
<1>3. CASE i = r
  <2> DEFINE S == FramesOf(i)
             list == Append(imginfoque_[i], Described(i))
             one == <<frame[i]>>
             inDet == InDetector(i)
             left == InDetector(i)'
             que == InQueue(i)
  <2>1. Parts(i) /\ imginfoque_[i] \in Seq(DescriptionsOf(i))
    BY PartsAre DEF BalancedInv
  <2>2. Parts(i)'
    BY InsertKeeps, PartsNext
  <2>3. /\ InHand(i) = one /\ InHand(i)' = <<>> /\ InQueue(i)' = que
    BY <1>1, <1>3 DEF TypeOK, InHand, InQueue
  <2>4. /\ Described(i) \in DescriptionsOf(i) /\ Described(i).image = frame[i]
        /\ frame[i] \in S
    BY <1>1, <1>3, DescribedType
  <2>5. /\ inDet \in Seq(S) /\ one \in Seq(S) /\ que \in Seq(S) /\ left \in Seq(S)
        /\ inDet = Contents(ImageOf, imginfoque_[i])
        /\ left = Contents(ImageOf, imginfoque_'[i])
        /\ Infered(i) = Join(Join(inDet, one), que)
        /\ Infered(i)' = Join(Join(left, <<>>), que)
    <3>1. ImageOf' = ImageOf
      BY DEF ImageOf
    <3> QED
      BY <2>1, <2>2, <2>3, <2>4, <3>1 DEF Parts
  <2>6. \A d \in DescriptionsOf(i) : ImageOf[d] = d.image /\ ImageOf[d] \in S
    BY <2>1, DetectorPart
  <2>a. Maps(ImageOf, DescriptionsOf(i), S)
    BY <2>6 DEF Maps
  <2>7. Contents(ImageOf, list) = Join(inDet, one)
    <3>2. ImageOf[Described(i)] = frame[i]
      BY <2>4, <2>6
    <3>3. Contents(ImageOf, list) =
            Join(Contents(ImageOf, imginfoque_[i]), <<ImageOf[Described(i)]>>)
      BY <2>1, <2>4, <2>a, ContentsPush
    <3> QED
      BY <3>2, <3>3, <2>5
  <2>8. Join(left, <<>>) = left
    BY <2>5, JoinEmpty
  <2>9. /\ list \in Seq(DescriptionsOf(i))
        /\ \/ imginfoque_'[i] = list
           \/ /\ nBatch[i] \in Nat /\ nBatch[i] <= Len(list)
              /\ imginfoque_'[i] = SubSeq(list, nBatch[i] + 1, Len(list))
    BY <1>3, LeftInDetector
  <2> HIDE DEF list, one, inDet, left, que
  <2>10. CASE imginfoque_'[i] = list
    BY <2>5, <2>7, <2>8, <2>10
  <2>11. CASE /\ nBatch[i] \in Nat /\ nBatch[i] <= Len(list)
              /\ imginfoque_'[i] = SubSeq(list, nBatch[i] + 1, Len(list))
    <3> DEFINE first == SubSeq(list, 1, nBatch[i])
               rest == SubSeq(list, nBatch[i] + 1, Len(list))
               front == Contents(ImageOf, first)
               after == Contents(ImageOf, rest)
    <3>1. /\ front \in Seq(S)
          /\ Contents(ImageOf, list) = Join(front, after)
      <4>1. /\ first \in Seq(DescriptionsOf(i)) /\ rest \in Seq(DescriptionsOf(i))
            /\ Join(first, rest) = list
        BY <2>9, <2>11, Parted
      <4> HIDE DEF first, rest
      <4>2. front \in Seq(S)
        BY <2>a, <4>1, ContentsType
      <4>3. Contents(ImageOf, Join(first, rest)) = Join(front, after)
        BY <2>a, <4>1, ContentsJoin
      <4> QED
        BY <4>1, <4>2, <4>3
    <3>2. after = left
      BY <2>5, <2>11
    <3> HIDE DEF front, after
    <3>3. Infered(i) = Join(Join(front, left), que)
      BY <2>5, <2>7, <3>1, <3>2
    <3>4. Join(Join(front, left), que) = Join(front, Join(left, que))
      BY <2>5, <3>1, JoinAssociative
    <3>5. Infered(i) = Join(front, Infered(i)')
      BY <2>5, <2>8, <3>3, <3>4
    <3> QED
      BY <3>1, <3>5
  <2> QED
    BY <2>9, <2>10, <2>11
<1> QED
  BY <1>2, <1>3

(* The pictures of one channel go through one of the two inference         *)
(* threads: this is the line they form.                                    *)
Carried(c) == IF scheduler = "push" /\ channel = c THEN <<imgbuf[srcframe]>> ELSE <<>>
ChannelLine(c) == Join(Join(Infered(Instance(c)), Carried(c)), Pending(c))
ChannelOrder == \A c \in Channels : Consecutive(c, ChannelLine(c), nFrameProcessed[c])

LineTyped(c) ==
  /\ Infered(Instance(c)) \in Seq(Frames)
  /\ Carried(c) \in Seq(Frames)
  /\ Pending(c) \in Seq(Frames)

LEMMA LineTypes == BalancedInv => \A c \in Channels : LineTyped(c)
<1> SUFFICES ASSUME BalancedInv, NEW c \in Channels PROVE LineTyped(c)
  OBVIOUS
<1>1. Infered(Instance(c)) \in Seq(Frames)
  <2>1. Parts(Instance(c))
    BY PartsAre, InstanceType
  <2>2. FramesOf(Instance(c)) \subseteq Frames
    BY DEF FramesOf
  <2> QED
    BY <2>1, <2>2, SeqMonotonic DEF Parts
<1>2. Carried(c) \in Seq(Frames)
  <2>1. scheduler = "push" => imgbuf[srcframe] \in Frames
    BY RouteIsInstance, PictureIsOf DEF BalancedInv, TypeOK
  <2> QED
    BY <2>1 DEF Carried
<1>3. Pending(c) \in Seq(Frames)
  <2>1. Pending(c) \in Seq(PicturesOf(c)) /\ PicturesOf(c) \subseteq Frames
    BY PendingType, PictureIsOf DEF BalancedInv
  <2> QED
    BY <2>1, SeqMonotonic
<1> QED
  BY <1>1, <1>2, <1>3 DEF LineTyped

LEMMA LineTypesNext == BalancedInv' => (\A c \in Channels : LineTyped(c))'
BY LineTypes, PTL

LEMMA ChannelOrderInit == Init => ChannelOrder
<1> SUFFICES ASSUME Init, NEW c \in Channels
             PROVE  Consecutive(c, ChannelLine(c), nFrameProcessed[c])
  BY DEF ChannelOrder
<1>1. Pending(c) = <<>>
  BY DecodingInitInv DEF Init
<1>2. Carried(c) = <<>>
  BY DEF Init, Carried
<1>3. Infered(Instance(c)) = <<>>
  <2>1. PICK i \in Infers : i = Instance(c)
    BY InstanceType
  <2>2. InDetector(i) = <<>> /\ InHand(i) = <<>> /\ InQueue(i) = <<>>
    BY DEF Init, InDetector, InHand, InQueue
  <2>3. Infered(i) = (InDetector(i) \o InHand(i)) \o InQueue(i)
    BY DEF Infered, InDetector, InHand, InQueue
  <2> QED
    BY <2>1, <2>2, <2>3
<1>4. ChannelLine(c) = <<>>
  BY <1>1, <1>2, <1>3 DEF ChannelLine, Join
<1> QED
  BY <1>4 DEF Consecutive

(* What steps do to the line of a channel, and why it stays in order.      *)
LEMMA LineGrows ==
  ASSUME NEW c \in Channels, NEW i \in Seq(Frames), NEW s \in Seq(Frames),
         NEW p \in Seq(Frames), NEW newest, NEW e \in PicturesOf(c),
         Consecutive(c, Join(Join(i, s), p), newest), e.frameno = FollowingNo(newest)
  PROVE  Consecutive(c, Join(Join(i, s), Join(p, <<e>>)), e.frameno)
<1> DEFINE front == Join(i, s)
           one == <<e>>
           line == Join(front, p)
<1>1. front \in Seq(Frames)
  BY JoinType
<1>2. e \in Frames /\ e.channel = c /\ one \in Seq(Frames)
  BY DEF PicturesOf, Frames
<1> HIDE DEF front, one
<1>3. line \in Seq(Frames)
  BY <1>1, JoinType
<1>4. Join(line, one) = Join(front, Join(p, one))
  BY <1>1, <1>2, JoinAssociative
<1>5. Consecutive(c, line, newest)
  BY DEF front
<1> HIDE DEF line
<1>6. Consecutive(c, Join(line, <<e>>), e.frameno)
  BY <1>2, <1>3, <1>5, AppendNext
<1> QED
  BY <1>4, <1>6 DEF one, front

LEMMA LineLoaded ==
  ASSUME NEW i \in Seq(Frames), NEW one \in Seq(Frames), NEW p \in Seq(Frames)
  PROVE  Join(Join(i, <<>>), Join(one, p)) = Join(Join(i, one), p)
<1>1. Join(i, <<>>) = i
  BY JoinEmpty
<1> QED
  BY <1>1, JoinAssociative

LEMMA LinePushed ==
  ASSUME NEW i \in Seq(Frames), NEW one \in Seq(Frames), NEW p \in Seq(Frames)
  PROVE  Join(Join(Join(i, one), <<>>), p) = Join(Join(i, one), p)
<1> DEFINE front == Join(i, one)
<1>1. front \in Seq(Frames)
  BY JoinType
<1> HIDE DEF front
<1>2. Join(front, <<>>) = front
  BY <1>1, JoinEmpty
<1> QED
  BY <1>2 DEF front

LEMMA LineForgets ==
  ASSUME NEW c, NEW front \in Seq(Frames), NEW i \in Seq(Frames), NEW s \in Seq(Frames),
         NEW p \in Seq(Frames), NEW newest,
         Consecutive(c, Join(Join(Join(front, i), s), p), newest)
  PROVE  Consecutive(c, Join(Join(i, s), p), newest)
<1>1. Join(Join(front, i), s) = Join(front, Join(i, s))
  BY JoinAssociative
<1> DEFINE is == Join(i, s)
<1>2. is \in Seq(Frames)
  BY JoinType
<1> HIDE DEF is
<1>3. Join(Join(front, is), p) = Join(front, Join(is, p))
  BY <1>2, JoinAssociative
<1> DEFINE rest == Join(is, p)
<1>4. rest \in Seq(Frames)
  BY <1>2, JoinType
<1>5. Consecutive(c, Join(front, rest), newest)
  BY <1>1, <1>3 DEF is
<1> HIDE DEF rest
<1>6. Consecutive(c, rest, newest)
  BY <1>4, <1>5, ForgetOldest
<1> QED
  BY <1>6 DEF rest, is

(* A step that changes nothing of a channel's line but its end.            *)
LEMMA LineKept ==
  ASSUME BalancedInv, ChannelOrder, NEW c \in Channels,
         Infered(Instance(c))' = Infered(Instance(c)), Carried(c)' = Carried(c), Grows(c)
  PROVE  Consecutive(c, ChannelLine(c)', nFrameProcessed'[c])
<1>1. /\ LineTyped(c) /\ Consecutive(c, ChannelLine(c), nFrameProcessed[c])
  BY LineTypes DEF ChannelOrder
<1>2. ChannelLine(c)' = Join(Join(Infered(Instance(c)), Carried(c)), Pending(c)')
  BY DEF ChannelLine
<1>3. CASE Pending(c)' = Pending(c) /\ nFrameProcessed'[c] = nFrameProcessed[c]
  BY <1>1, <1>2, <1>3 DEF ChannelLine
<1>4. CASE \E e \in PicturesOf(c) : /\ e.frameno = FollowingNo(nFrameProcessed[c])
                                    /\ nFrameProcessed'[c] = e.frameno
                                    /\ Pending(c)' = Join(Pending(c), <<e>>)
  <2>1. PICK e \in PicturesOf(c) : /\ e.frameno = FollowingNo(nFrameProcessed[c])
                                   /\ nFrameProcessed'[c] = e.frameno
                                   /\ Pending(c)' = Join(Pending(c), <<e>>)
    BY <1>4
  <2> DEFINE i == Infered(Instance(c))
             s == Carried(c)
             p == Pending(c)
             newest == nFrameProcessed[c]
  <2>2. /\ i \in Seq(Frames) /\ s \in Seq(Frames) /\ p \in Seq(Frames)
        /\ Consecutive(c, Join(Join(i, s), p), newest)
        /\ e.frameno = FollowingNo(newest)
    BY <1>1, <2>1 DEF LineTyped, ChannelLine
  <2>3. ChannelLine(c)' = Join(Join(i, s), Join(p, <<e>>))
    BY <1>2, <2>1
  <2> HIDE DEF i, s, p, newest
  <2>4. Consecutive(c, Join(Join(i, s), Join(p, <<e>>)), e.frameno)
    BY <2>2, LineGrows
  <2> QED
    BY <2>1, <2>3, <2>4
<1> QED
  BY <1>3, <1>4 DEF Grows

(* Outside the pipes.                                                      *)
LEMMA LineQuiet ==
  ASSUME BalancedInv, ChannelOrder, NEW c \in Channels,
         UNCHANGED <<imginfoque_, gtaskque, frame, imgbuf>>,
         \A i \in Infers : infer'[i] \in {"put", "insert"} <=> infer[i] \in {"put", "insert"},
         Pending(c)' = Pending(c), nFrameProcessed' = nFrameProcessed, Carried(c)' = Carried(c)
  PROVE  Consecutive(c, ChannelLine(c)', nFrameProcessed'[c])
<1>1. Infered(Instance(c))' = Infered(Instance(c))
  <2>1. Instance(c) \in Infers
    BY InstanceType
  <2>2. \A i \in Infers : Infered(i)' = Infered(i)
    BY DEF Infered
  <2> QED
    BY <2>1, <2>2
<1> QED
  BY <1>1, LineKept DEF Grows

LEMMA LoadInOrder ==
  ASSUME BalancedInv, ChannelOrder, NEW c \in Channels, LoadFrame
  PROVE  Consecutive(c, ChannelLine(c)', nFrameProcessed'[c])
<1>a. PICK k \in Channels : k = channel
  BY DEF BalancedInv, TypeOK
<1>b. PICK b \in {Head(outPipe[k])} : b = Head(outPipe[k])
  OBVIOUS
<1>1. /\ scheduler = "load" /\ scheduler' = "push" /\ channel' = k /\ channel = k
      /\ outPipe[k] # <<>> /\ outPipe' = [outPipe EXCEPT ![k] = Tail(outPipe[k])]
      /\ srcframe' = b /\ b = Head(outPipe[k])
      /\ UNCHANGED <<mainVars, inPipe, imgbuf, decVars>>
      /\ UNCHANGED <<imginfoque_, gtaskque, frame, infer, imgbuf, nFrameProcessed>>
  BY <1>a, <1>b DEF LoadFrame, SchedulerAt, queVars, inferVars, decVars
<1>2. DecodingInv
  BY DEF BalancedInv
<1>3. CASE c # k
  <2>1. Carried(c)' = Carried(c)
    BY <1>1, <1>3 DEF Carried
  <2>2. Pending(c)' = Pending(c)
    BY <1>1, <1>2, <1>3, TakeFront
  <2> QED
    BY <1>1, <2>1, <2>2, LineQuiet
<1>4. CASE c = k
  <2> DEFINE i == Infered(Instance(c))
             p == Pending(c)'
             one == <<imgbuf[b]>>
  <2>1. /\ Pending(c) = Join(one, p) /\ imgbuf[b] \in PicturesOf(c)
    BY <1>1, <1>2, <1>4, TakeFront
  <2>2. LineTyped(c) /\ LineTyped(c)' /\ Consecutive(c, ChannelLine(c), nFrameProcessed[c])
    BY LineTypes, LineTypesNext, LoadKeeps DEF ChannelOrder
  <2>3. Carried(c) = <<>> /\ Carried(c)' = one
    BY <1>1, <1>4 DEF Carried
  <2>4. Infered(Instance(c))' = i
    BY <1>1 DEF Infered, Instance
  <2>5. /\ i \in Seq(Frames) /\ p \in Seq(Frames) /\ one \in Seq(Frames)
    BY <2>2, <2>3 DEF LineTyped
  <2>6. /\ ChannelLine(c) = Join(Join(i, <<>>), Join(one, p))
        /\ ChannelLine(c)' = Join(Join(i, one), p)
    BY <2>1, <2>3, <2>4 DEF ChannelLine
  <2> HIDE DEF i, p, one
  <2>7. Join(Join(i, <<>>), Join(one, p)) = Join(Join(i, one), p)
    BY <2>5, LineLoaded
  <2> QED
    BY <1>1, <2>2, <2>6, <2>7
<1> QED
  BY <1>3, <1>4

LEMMA PushInOrder ==
  ASSUME BalancedInv, ChannelOrder, NEW c \in Channels, PushTask
  PROVE  Consecutive(c, ChannelLine(c)', nFrameProcessed'[c])
<1>1. /\ scheduler = "push" /\ scheduler' = "post" /\ channel' = channel
      /\ channel \in Channels
      /\ UNCHANGED <<pipeVars, decVars, nFrameProcessed>>
  BY DEF PushTask, SchedulerAt, decodingVars, decVars, BalancedInv, TypeOK
<1>2. Pending(c)' = Pending(c)
  BY <1>1 DEF Pending, Stored, Filling, Decoded, pipeVars, decVars
<1>3. /\ imgbuf[srcframe] \in PicturesOf(channel)
      /\ \A i \in Infers :
           Infered(i)' = IF i = Instance(channel)
                           THEN Join(Infered(i), <<imgbuf[srcframe]>>) ELSE Infered(i)
  BY PushLine
<1>4. Instance(c) \in Infers
  BY InstanceType
<1>5. LineTyped(c) /\ Consecutive(c, ChannelLine(c), nFrameProcessed[c])
  BY LineTypes DEF ChannelOrder
<1>6. CASE Instance(c) # Instance(channel)
  <2>1. Infered(Instance(c))' = Infered(Instance(c))
    BY <1>3, <1>4, <1>6
  <2>2. Carried(c)' = Carried(c)
    BY <1>1, <1>6 DEF Carried
  <2> QED
    BY <1>1, <1>2, <2>1, <2>2, LineKept DEF Grows
<1>7. CASE Instance(c) = Instance(channel)
  <2> DEFINE i == Infered(Instance(c))
             p == Pending(c)
             one == <<imgbuf[srcframe]>>
  <2>1. Infered(Instance(c))' = Join(i, one)
    BY <1>3, <1>4, <1>7
  <2>2. Carried(c)' = <<>>
    BY <1>1 DEF Carried
  <2>3. /\ i \in Seq(Frames) /\ p \in Seq(Frames)
    BY <1>5 DEF LineTyped
  <2>4. imgbuf[srcframe] \in Frames /\ imgbuf[srcframe].channel = channel
    BY <1>1, <1>3 DEF PicturesOf, Frames
  <2>5. one \in Seq(Frames)
    BY <2>4
  <2>6. ChannelLine(c)' = Join(Join(Join(i, one), <<>>), p)
    BY <1>2, <2>1, <2>2 DEF ChannelLine
  <2>7. Join(Join(Join(i, one), <<>>), p) = Join(Join(i, one), p)
    <3> HIDE DEF i, one, p
    <3> QED
      BY <2>3, <2>5, LinePushed
  <2>8. CASE c = channel
    <3>1. Carried(c) = one
      BY <1>1, <2>8 DEF Carried
    <3> QED
      BY <1>1, <1>5, <2>6, <2>7, <3>1 DEF ChannelLine
  <2>9. CASE c # channel
    <3>1. Carried(c) = <<>>
      BY <2>9 DEF Carried
    <3>2. Consecutive(c, Join(i, p), nFrameProcessed[c])
      <4>1. Join(i, <<>>) = i
        BY <2>3, JoinEmpty
      <4> QED
        BY <1>5, <3>1, <4>1 DEF ChannelLine
    <3>3. \A k \in DOMAIN one : one[k].channel # c
      BY <2>4, <2>9
    <3> DEFINE newest == nFrameProcessed[c]
    <3>4. Consecutive(c, Join(Join(i, one), p), newest)
      <4> HIDE DEF i, one, p, newest
      <4> QED
        BY <2>3, <2>5, <3>2, <3>3, InsertOthers DEF newest
    <3> QED
      BY <1>1, <2>6, <2>7, <3>4
  <2> QED
    BY <2>8, <2>9
<1> QED
  BY <1>6, <1>7

LEMMA InsertInOrder ==
  ASSUME BalancedInv, ChannelOrder, NEW c \in Channels, NEW r \in Infers, InsertImage(r)
  PROVE  Consecutive(c, ChannelLine(c)', nFrameProcessed'[c])
<1>1. UNCHANGED <<pipeVars, decVars, schedVars, imgbuf, nFrameProcessed>>
  BY DEF InsertImage, decodingVars, decVars, pipeVars
<1>2. Pending(c)' = Pending(c) /\ Carried(c)' = Carried(c)
  BY <1>1 DEF Pending, Stored, Filling, Decoded, Carried, pipeVars, decVars, schedVars
<1>3. PICK j \in Infers : j = Instance(c)
  BY InstanceType
<1>4. CASE Infered(j)' = Infered(j)
  <2>1. Infered(Instance(c))' = Infered(Instance(c))
    BY <1>3, <1>4 DEF Instance
  <2> QED
    BY <1>1, <1>2, <2>1, LineKept DEF Grows
<1>5. CASE \E front \in Seq(FramesOf(j)) : Infered(j) = Join(front, Infered(j)')
  <2>1. PICK front \in Seq(FramesOf(j)) : Infered(j) = Join(front, Infered(j)')
    BY <1>5
  <2>2. front \in Seq(Frames)
    <3>1. FramesOf(j) \subseteq Frames
      BY DEF FramesOf
    <3> QED
      BY <3>1, SeqMonotonic
  <2> DEFINE i == Infered(j)'
             s == Carried(c)
             p == Pending(c)
             newest == nFrameProcessed[c]
  <2>3. LineTyped(c) /\ LineTyped(c)' /\ Consecutive(c, ChannelLine(c), newest)
    BY LineTypes, LineTypesNext, InsertKeeps DEF ChannelOrder
  <2>4. Infered(Instance(c))' = i /\ Infered(Instance(c)) = Join(front, i)
    BY <1>3, <2>1 DEF Instance
  <2>5. i \in Seq(Frames) /\ s \in Seq(Frames) /\ p \in Seq(Frames)
    BY <2>3, <2>4 DEF LineTyped
  <2>6. /\ Consecutive(c, Join(Join(Join(front, i), s), p), newest)
        /\ ChannelLine(c)' = Join(Join(i, s), p)
    BY <1>2, <2>3, <2>4 DEF ChannelLine
  <2> HIDE DEF i, s, p, newest
  <2>7. Consecutive(c, Join(Join(i, s), p), newest)
    BY <2>2, <2>5, <2>6, LineForgets
  <2> QED
    BY <1>1, <2>6, <2>7 DEF newest
<1> QED
  BY <1>4, <1>5, InsertLine

LEMMA ChannelOrderNext == BalancedInv /\ ChannelOrder /\ [Next]_vars => ChannelOrder'
<1> SUFFICES ASSUME BalancedInv, ChannelOrder, [Next]_vars, NEW c \in Channels
             PROVE  Consecutive(c, ChannelLine(c)', nFrameProcessed'[c])
  BY DEF ChannelOrder, Consecutive, Adjacent, FollowingNo
<1>1. DecodingInv /\ TypeOK /\ Instance(c) \in Infers
  BY InstanceType DEF BalancedInv
<1>2. ASSUME NEW d \in Channels, Decoder(d)
      PROVE  Consecutive(c, ChannelLine(c)', nFrameProcessed'[c])
  <2>1. /\ DecoderStep(d) /\ UNCHANGED <<scheduler, channel, srcframe>>
        /\ UNCHANGED <<gtaskque, infer, frame, imginfoque_>>
    BY <1>2 DEF Decoder, schedVars, queVars, inferVars
  <2>2. \A k \in Channels : Grows(k) /\ BuffersKept(k)
    BY <1>1, <2>1, DecoderKeeps
  <2>3. Infered(Instance(c))' = Infered(Instance(c))
    <3>1. PICK i \in Infers : i = Instance(c)
      BY <1>1
    <3>2. Infered(i)' = Infered(i)
      BY <2>1, <2>2, InferedKept DEF InHand
    <3> QED
      BY <3>1, <3>2 DEF Instance
  <2>4. Carried(c)' = Carried(c)
    <3>1. CASE scheduler = "push" /\ channel = c
      <4>1. Lent(Instance(c), NextTask) /\ NextTask.dbuffer = srcframe /\ NextTask.dpipe = c
        BY <3>1 DEF BalancedInv, Scheduling, NextTask
      <4>2. srcframe \in Own(c) /\ srcframe \notin Held(c)
        BY <4>1 DEF Lent, TasksOf
      <4>3. imgbuf'[srcframe] = imgbuf[srcframe]
        BY <2>2, <4>2 DEF BuffersKept, Held
      <4> QED
        BY <2>1, <4>3 DEF Carried
    <3>2. CASE ~(scheduler = "push" /\ channel = c)
      BY <2>1, <3>2 DEF Carried
    <3> QED
      BY <3>1, <3>2
  <2> QED
    BY <2>2, <2>3, <2>4, LineKept
<1>3. ASSUME UNCHANGED <<pipeVars, decVars, gtaskque, frame, imginfoque_>>,
             \A i \in Infers : infer'[i] \in {"put", "insert"} <=> infer[i] \in {"put", "insert"},
             \/ UNCHANGED <<scheduler, channel, srcframe>>
             \/ scheduler # "push" /\ scheduler' # "push"
      PROVE  Consecutive(c, ChannelLine(c)', nFrameProcessed'[c])
  <2>1. /\ Pending(c)' = Pending(c)
        /\ UNCHANGED <<imginfoque_, gtaskque, frame, imgbuf, nFrameProcessed>>
    BY <1>3 DEF Pending, Stored, Filling, Decoded, pipeVars, decVars
  <2>2. Carried(c)' = Carried(c)
    BY <1>3, <2>1 DEF Carried
  <2> QED
    BY <1>3, <2>1, <2>2, LineQuiet
<1>4. CASE ScheduleLoop \/ AwaitTask \/ LoadNothing \/ PostInfer
  <2>1. /\ UNCHANGED <<pipeVars, decVars, gtaskque, frame, imginfoque_, infer>>
        /\ scheduler # "push" /\ scheduler' # "push"
    BY <1>4 DEF ScheduleLoop, AwaitTask, LoadNothing, PostInfer, NextPipe, SchedulerAt,
       decodingVars, queVars, inferVars
  <2> QED
    BY <1>3, <2>1
<1>5. CASE LoadFrame
  BY <1>5, LoadInOrder
<1>6. CASE PushTask
  BY <1>6, PushInOrder
<1>7. ASSUME NEW r \in Infers, InferStep(r)
      PROVE  Consecutive(c, ChannelLine(c)', nFrameProcessed'[c])
  <2>1. CASE InferLoop(r) \/ AwaitInfer(r) \/ QueueEmpty(r)
    <3>1. /\ UNCHANGED <<pipeVars, decVars, schedVars, gtaskque, frame, imginfoque_>>
          /\ \A i \in Infers :
               infer'[i] \in {"put", "insert"} <=> infer[i] \in {"put", "insert"}
      BY <1>1, <2>1 DEF InferLoop, AwaitInfer, QueueEmpty, InferAt, decodingVars, queVars,
         TypeOK
    <3> QED
      BY <1>3, <3>1 DEF schedVars
  <2>2. CASE PopTask(r)
    <3>1. Infered(Instance(c))' = Infered(Instance(c))
      <4>1. PICK i \in Infers : i = Instance(c)
        BY <1>1
      <4>2. Infered(i)' = Infered(i)
        BY <2>2, PopLine
      <4> QED
        BY <4>1, <4>2 DEF Instance
    <3>2. UNCHANGED <<pipeVars, decVars, schedVars>>
      BY <2>2 DEF PopTask, decodingVars
    <3>3. /\ Pending(c)' = Pending(c) /\ Carried(c)' = Carried(c)
          /\ nFrameProcessed' = nFrameProcessed
      BY <3>2 DEF Pending, Stored, Filling, Decoded, Carried, pipeVars, decVars, schedVars
    <3> QED
      BY <3>1, <3>3, LineKept DEF Grows
  <2>3. CASE PutFrame(r)
    <3>1. /\ infer[r] = "put" /\ infer' = [infer EXCEPT ![r] = "insert"]
          /\ inPipe' = [inPipe EXCEPT ![task[r].dpipe] = Cons(task[r].dbuffer, @)]
          /\ UNCHANGED <<mainVars, outPipe, imgbuf, decVars, schedVars, queVars, task,
                         frame, imginfoque_>>
      BY <2>3 DEF PutFrame, InferAt
    <3>2. /\ Pending(c)' = Pending(c) /\ Carried(c)' = Carried(c)
          /\ UNCHANGED <<imginfoque_, gtaskque, frame, imgbuf, nFrameProcessed>>
      BY <3>1 DEF Pending, Stored, Filling, Decoded, Carried, decVars, schedVars, queVars
    <3>3. \A i \in Infers :
            infer'[i] \in {"put", "insert"} <=> infer[i] \in {"put", "insert"}
      BY <1>1, <3>1 DEF TypeOK
    <3> QED
      BY <3>2, <3>3, LineQuiet
  <2>4. CASE InsertImage(r)
    BY <2>4, InsertInOrder
  <2> QED
    BY <1>7, <2>1, <2>2, <2>3, <2>4 DEF InferStep
<1>8. CASE CreateThreads
  <2>1. /\ UNCHANGED <<pipeVars, decVars, gtaskque, frame, imginfoque_>>
        /\ scheduler = "none" /\ scheduler' = "loop"
        /\ \A i \in Infers : infer[i] = "none" /\ infer'[i] = "loop"
    BY <1>8 DEF CreateThreads, queVars, BalancedInv, Created
  <2> QED
    BY <1>3, <2>1
<1>9. CASE Interrupt \/ PostAll \/ JoinAll
  BY <1>3, <1>9 DEF Interrupt, PostAll, JoinAll, schedVars, queVars, inferVars
<1>10. CASE UNCHANGED vars
  BY <1>3, <1>10 DEF vars, decodingVars, schedVars, queVars, inferVars
<1> QED
  BY <1>2, <1>4, <1>5, <1>6, <1>7, <1>8, <1>9, <1>10 DEF Next, SchedulerStep

(* Both threads together: the pictures of the other thread, and those that *)
(* the scheduler carries for another channel, are of other channels.       *)
LEMMA OrderOfBoth == BalancedInv /\ ChannelOrder => FramesInOrder
<1> SUFFICES ASSUME BalancedInv, ChannelOrder, NEW c \in Channels
             PROVE  Consecutive(c, Line(c), nFrameProcessed[c])
  BY DEF FramesInOrder
<1> DEFINE i == Infered(Instance(c))
           s == Carried(c)
           p == Pending(c)
           j == Infered(3 - Instance(c))
           all == Scheduled
           newest == nFrameProcessed[c]
<1>1. /\ i \in Seq(Frames) /\ s \in Seq(Frames) /\ p \in Seq(Frames)
      /\ Consecutive(c, Join(Join(i, s), p), newest)
  BY LineTypes DEF LineTyped, ChannelOrder, ChannelLine
<1>2. j \in Seq(Frames) /\ \A k \in DOMAIN j : j[k].channel # c
  <2>1. PICK o \in Infers : o = 3 - Instance(c) /\ o # Instance(c)
    BY DEF Instance, Infers
  <2>2. Infered(o) \in Seq(FramesOf(o))
    BY PartsAre DEF Parts
  <2>3. FramesOf(o) \subseteq Frames /\ \A f \in FramesOf(o) : f.channel # c
    BY <2>1 DEF FramesOf
  <2>4. j \in Seq(FramesOf(o))
    BY <2>1, <2>2
  <2> HIDE DEF j
  <2>5. j \in Seq(Frames)
    BY <2>3, <2>4, SeqMonotonic
  <2>6. \A k \in DOMAIN j : j[k] \in FramesOf(o)
    BY <2>4, LenProperties, ElementOfSeq
  <2> QED
    BY <2>3, <2>5, <2>6
<1>3. \/ all = s
      \/ s = <<>> /\ all \in Seq(Frames) /\ \A k \in DOMAIN all : all[k].channel # c
  <2>1. CASE scheduler = "push" /\ channel # c
    <3>1. /\ imgbuf[srcframe] \in PicturesOf(channel) /\ channel \in Channels
      BY <2>1, RouteIsInstance DEF BalancedInv, TypeOK
    <3>2. imgbuf[srcframe] \in Frames /\ imgbuf[srcframe].channel # c
      BY <2>1, <3>1 DEF PicturesOf, Frames
    <3>3. s = <<>> /\ all = <<imgbuf[srcframe]>>
      BY <2>1 DEF Carried, Scheduled
    <3> QED
      BY <3>2, <3>3
  <2>2. CASE ~(scheduler = "push" /\ channel # c)
    BY <2>2 DEF Carried, Scheduled
  <2> QED
    BY <2>1, <2>2
<1>4. Line(c) = IF Instance(c) = 1 THEN Join(Join(Join(i, j), all), p)
                                   ELSE Join(Join(Join(j, i), all), p)
  <2>1. Line(c) = Join(Join(Join(Infered(1), Infered(2)), all), p)
    BY DEF Line, Join
  <2>2. CASE Instance(c) = 1
    <3>1. i = Infered(1) /\ j = Infered(2)
      <4>1. 3 - Instance(c) = 2
        BY <2>2
      <4> QED
        BY <2>2, <4>1
    <3> HIDE DEF i, j
    <3> QED
      BY <2>1, <2>2, <3>1
  <2>3. CASE Instance(c) = 2
    <3>1. i = Infered(2) /\ j = Infered(1)
      <4>1. 3 - Instance(c) = 1
        BY <2>3
      <4> QED
        BY <2>3, <4>1
    <3> HIDE DEF i, j
    <3> QED
      BY <2>1, <2>3, <3>1
  <2> QED
    BY <2>2, <2>3 DEF Instance
<1> HIDE DEF i, j, s, p, all, newest
<1>5. Consecutive(c, Join(Join(i, all), p), newest) /\ all \in Seq(Frames)
  <2>1. CASE all = s
    BY <1>1, <2>1
  <2>2. CASE s = <<>> /\ all \in Seq(Frames) /\ \A k \in DOMAIN all : all[k].channel # c
    <3>1. Consecutive(c, Join(i, p), newest)
      <4>1. Join(i, <<>>) = i
        BY <1>1, JoinEmpty
      <4> QED
        BY <1>1, <2>2, <4>1
    <3> QED
      BY <1>1, <2>2, <3>1, InsertOthers
  <2> QED
    BY <1>3, <2>1, <2>2
<1> DEFINE rest == Join(all, p)
<1>6. /\ rest \in Seq(Frames)
      /\ Join(Join(i, all), p) = Join(i, rest)
      /\ Join(<<>>, Join(i, rest)) = Join(i, rest)
  <2>1. rest \in Seq(Frames)
    BY <1>1, <1>5, JoinType
  <2>2. Join(i, rest) \in Seq(Frames)
    <3> HIDE DEF rest
    <3> QED
      BY <1>1, <2>1, JoinType
  <2>3. Join(Join(i, all), p) = Join(i, rest)
    BY <1>1, <1>5, JoinAssociative
  <2>4. Join(<<>>, Join(i, rest)) = Join(i, rest)
    <3> HIDE DEF rest
    <3> QED
      BY <2>2, JoinEmpty
  <2> QED
    BY <2>1, <2>3, <2>4
<1>7. /\ Join(Join(Join(i, j), all), p) = Join(Join(i, j), rest)
      /\ Join(Join(Join(j, i), all), p) = Join(j, Join(i, rest))
  <2> DEFINE ij == Join(i, j)
             ji == Join(j, i)
  <2>1. ij \in Seq(Frames) /\ ji \in Seq(Frames)
    BY <1>1, <1>2, JoinType
  <2>2. Join(ji, rest) = Join(j, Join(i, rest))
    <3> HIDE DEF rest
    <3> QED
      BY <1>1, <1>2, <1>6, JoinAssociative
  <2> HIDE DEF ij, ji
  <2>3. Join(Join(ij, all), p) = Join(ij, rest) /\ Join(Join(ji, all), p) = Join(ji, rest)
    BY <1>1, <1>5, <2>1, JoinAssociative
  <2> QED
    BY <2>2, <2>3 DEF ij, ji
<1> HIDE DEF rest
<1>8. Consecutive(c, Join(Join(i, j), rest), newest)
  BY <1>1, <1>2, <1>5, <1>6, InsertOthers
<1>9. Consecutive(c, Join(j, Join(i, rest)), newest)
  <2> DEFINE ir == Join(i, rest)
             none == <<>>
  <2>1. ir \in Seq(Frames) /\ none \in Seq(Frames)
    BY <1>1, <1>6, JoinType
  <2>2. Consecutive(c, Join(none, ir), newest)
    BY <1>5, <1>6
  <2> HIDE DEF ir, none
  <2>3. Consecutive(c, Join(Join(none, j), ir), newest)
    BY <1>2, <2>1, <2>2, InsertOthers
  <2>4. Join(none, j) = j
    BY <1>2, JoinEmpty DEF none
  <2> QED
    BY <2>3, <2>4 DEF ir
<1> QED
  BY <1>4, <1>7, <1>8, <1>9 DEF newest

-----------------------------------------------------------------------------
(* The contract of every pipe.                                             *)

\* The scheduler, a queue or an inference thread has the buffer.
OnLoan(b) ==
  \/ scheduler = "push" /\ srcframe = b
  \/ \E i \in Infers : \/ \E t \in ToSet(gtaskque[i]) : t.dbuffer = b
                       \/ infer[i] = "put" /\ task[i].dbuffer = b

LEMMA LoanedIs ==
  ASSUME NEW c \in Channels
  PROVE  Loaned(c) = {b \in Own(c) : OnLoan(b)}
BY DEF Loaned, OnLoan, ToSet

LEMMA LoanedIsNext ==
  ASSUME NEW c \in Channels
  PROVE  Loaned(c)' = {b \in Own(c) : OnLoan(b)'}
BY DEF Loaned, OnLoan, ToSet

LEMMA PoolsInit == Init => \A c \in Channels : Pool(c)!PoolInit
<1> SUFFICES ASSUME Init, NEW c \in Channels PROVE Pool(c)!PoolInit
  OBVIOUS
<1>1. DecodingInv
  BY DecodingInitInv DEF Init
<1>2. ToSet(inPipe[c]) \subseteq Own(c)
  BY <1>1 DEF DecodingInv, Owned, ToSet
<1>3. outPipe[c] = <<>> /\ decframe[c] = NoBuffer
  BY DEF Init, DecodingInit
<1>4. [p \in {c} |-> decframe[p]] = [p \in {c} |-> NoBuffer]
  BY <1>3
<1>5. scheduler = "none" /\ \A i \in Infers : infer[i] = "none" /\ DOMAIN gtaskque[i] = {}
  BY DEF Init
<1>6. Loaned(c) = {}
  BY <1>5 DEF Loaned
<1> QED
  BY <1>2, <1>3, <1>4, <1>6 DEF Pool!PoolInit

(* A buffer moves from the pipe to the scheduler, ...                      *)
LEMMA LoadLends ==
  ASSUME BalancedInv, LoadFrame, NEW b
  PROVE  OnLoan(b)' <=> OnLoan(b) \/ b = Head(outPipe[channel])
<1>1. /\ scheduler = "load" /\ scheduler' = "push"
      /\ srcframe' = Head(outPipe[channel])
      /\ gtaskque' = gtaskque /\ infer' = infer /\ task' = task
  BY DEF LoadFrame, SchedulerAt, queVars, inferVars
<1>2. \A i \in Infers : ToSet(gtaskque[i])' = ToSet(gtaskque[i])
  BY <1>1 DEF ToSet
<1> QED
  BY <1>1, <1>2 DEF OnLoan

(* ... on to a queue, ...                                                  *)
LEMMA PushLends ==
  ASSUME BalancedInv, PushTask, NEW b
  PROVE  OnLoan(b)' <=> OnLoan(b)
<1>1. /\ scheduler = "push" /\ scheduler' = "post"
      /\ gtaskque' = [gtaskque EXCEPT ![Route] = Append(gtaskque[Route], NextTask)]
      /\ infer' = infer /\ task' = task
  BY DEF PushTask, SchedulerAt, NextTask, inferVars
<1>2. PICK r \in Infers, t \in Tasks : r = Route /\ t = NextTask
  BY <1>1, RouteIsInstance, TaskBuffer
<1>3. /\ gtaskque'[r] = Append(gtaskque[r], t)
      /\ \A i \in Infers \ {r} : gtaskque'[i] = gtaskque[i]
      /\ gtaskque[r] \in Seq(Tasks)
  BY <1>1, <1>2 DEF BalancedInv, TypeOK
<1>4. ToSet(gtaskque'[r]) = ToSet(gtaskque[r]) \cup {t}
  BY <1>3, AppendNew
<1>5. /\ ToSet(gtaskque[r])' = ToSet(gtaskque[r]) \cup {t}
      /\ \A i \in Infers \ {r} : ToSet(gtaskque[i])' = ToSet(gtaskque[i])
  BY <1>3, <1>4 DEF ToSet
<1>6. t.dbuffer = srcframe
  BY <1>2 DEF NextTask
<1> HIDE DEF NextTask
<1> QED
  BY <1>1, <1>5, <1>6 DEF OnLoan

(* ... on to an inference thread, ...                                      *)
LEMMA PopLends ==
  ASSUME BalancedInv, NEW r \in Infers, PopTask(r), NEW b
  PROVE  OnLoan(b)' <=> OnLoan(b)
<1>1. PICK t \in {Head(gtaskque[r])} : t = Head(gtaskque[r])
  OBVIOUS
<1>2. /\ gtaskque[r] # <<>> /\ infer[r] = "pop" /\ infer'[r] = "put" /\ task'[r] = t
      /\ gtaskque'[r] = Tail(gtaskque[r])
      /\ \A i \in Infers \ {r} : /\ infer'[i] = infer[i] /\ task'[i] = task[i]
                                 /\ gtaskque'[i] = gtaskque[i]
      /\ scheduler' = scheduler /\ srcframe' = srcframe
  BY <1>1 DEF PopTask, InferAt, schedVars, BalancedInv, TypeOK
<1>3. /\ t \in ToSet(gtaskque[r])
      /\ ToSet(Tail(gtaskque[r])) = ToSet(gtaskque[r]) \ {t}
  <2>1. gtaskque[r] \in Seq(TasksOf(r)) /\ IsInjective(gtaskque[r])
    BY DEF BalancedInv, Queued
  <2> QED
    BY <1>1, <1>2, <2>1, PopFront
<1>4. ToSet(gtaskque'[r]) = ToSet(gtaskque[r]) \ {t}
  BY <1>2, <1>3
<1>5. /\ ToSet(gtaskque[r])' = ToSet(gtaskque[r]) \ {t}
      /\ \A i \in Infers \ {r} : ToSet(gtaskque[i])' = ToSet(gtaskque[i])
  BY <1>2, <1>4 DEF ToSet
<1> QED
  BY <1>2, <1>3, <1>5 DEF OnLoan

(* ... and back: nobody else has it.                                       *)
LEMMA PutReturns ==
  ASSUME BalancedInv, NEW r \in Infers, PutFrame(r), NEW b
  PROVE  /\ OnLoan(b)' <=> OnLoan(b) /\ b # task[r].dbuffer
         /\ OnLoan(task[r].dbuffer)
<1>1. PICK t \in {task[r]} : t = task[r]
  OBVIOUS
<1>2. /\ infer[r] = "put" /\ infer'[r] = "insert" /\ task' = task /\ gtaskque' = gtaskque
      /\ \A i \in Infers \ {r} : infer'[i] = infer[i]
      /\ scheduler' = scheduler /\ srcframe' = srcframe
  BY DEF PutFrame, InferAt, schedVars, queVars, BalancedInv, TypeOK
<1>3. t \in TasksOf(r) /\ t \notin ToSet(gtaskque[r])
  BY <1>1, <1>2 DEF BalancedInv, Working
<1>4. \A i \in Infers : ToSet(gtaskque[i])' = ToSet(gtaskque[i])
  BY <1>2 DEF ToSet
<1>5. ASSUME NEW i \in Infers, NEW u \in ToSet(gtaskque[i]) PROVE u.dbuffer # t.dbuffer
  <2>1. u \in TasksOf(i)
    BY <1>5 DEF BalancedInv, Queued, Lent
  <2> QED
    BY <1>3, <1>5, <2>1, TaskIsBuffer, TaskBuffer
<1>6. ASSUME NEW i \in Infers \ {r}, infer[i] = "put" PROVE task[i].dbuffer # t.dbuffer
  <2>1. task[i] \in TasksOf(i)
    BY <1>6 DEF BalancedInv, Working
  <2> QED
    BY <1>3, <2>1, TaskIsBuffer, TaskBuffer
<1>7. scheduler = "push" => srcframe # t.dbuffer
  <2> SUFFICES ASSUME scheduler = "push" PROVE srcframe # t.dbuffer
    OBVIOUS
  <2>0. PICK i \in Infers : i = Instance(channel)
    BY InstanceType DEF BalancedInv, TypeOK
  <2>1. PICK u \in TasksOf(i) : i = Instance(channel) /\ u = NextTask
    BY <2>0 DEF BalancedInv, Scheduling, Lent
  <2>2. u.dbuffer = srcframe
    BY <2>1 DEF NextTask
  <2>3. infer[i] = "put" => task[i] # u
    BY <2>1 DEF BalancedInv, Scheduling
  <2>4. u # t
    BY <1>1, <1>2, <1>3, <2>1, <2>3, TaskBuffer
  <2> QED
    BY <1>3, <2>2, <2>4, TaskIsBuffer
<1>8. OnLoan(b)' <=> OnLoan(b) /\ b # t.dbuffer
  BY <1>1, <1>2, <1>4, <1>5, <1>6, <1>7 DEF OnLoan
<1> QED
  BY <1>1, <1>2, <1>8 DEF OnLoan

(* Other steps leave every loan as it is.                                  *)
LEMMA LoansKept ==
  ASSUME gtaskque' = gtaskque,
         \/ UNCHANGED <<scheduler, srcframe>>
         \/ scheduler # "push" /\ scheduler' # "push",
         \A i \in Infers : \/ infer'[i] # "put" /\ infer[i] # "put"
                           \/ infer'[i] = infer[i] /\ task'[i] = task[i],
         NEW b
  PROVE  OnLoan(b)' <=> OnLoan(b)
<1>1. \A i \in Infers : ToSet(gtaskque[i])' = ToSet(gtaskque[i])
  BY DEF ToSet
<1> QED
  BY <1>1 DEF OnLoan

LEMMA PoolsStep ==
  BalancedInv /\ [Next]_vars =>
    \A c \in Channels : [Pool(c)!PoolNext]_(Pool(c)!poolVars)
<1> SUFFICES ASSUME BalancedInv, [Next]_vars, NEW c \in Channels
             PROVE  [Pool(c)!PoolNext]_(Pool(c)!poolVars)
  OBVIOUS
<1>1. /\ DecodingInv /\ DecodingTypeOK /\ Owned(c) /\ channel \in Channels
  BY DEF BalancedInv, DecodingInv, TypeOK
<1>2. ASSUME inPipe'[c] = inPipe[c], outPipe'[c] = outPipe[c],
             decframe'[c] = decframe[c], Loaned(c)' = Loaned(c)
      PROVE  UNCHANGED Pool(c)!poolVars
  <2>1. ToSet(inPipe[c])' = ToSet(inPipe[c])
    BY <1>2 DEF ToSet
  <2>2. [p \in {c} |-> decframe[p]]' = [p \in {c} |-> decframe[p]]
    BY <1>2
  <2> QED
    BY <1>2, <2>1, <2>2 DEF Pool!poolVars
<1>3. ASSUME \A b \in Own(c) : OnLoan(b)' <=> OnLoan(b)
      PROVE  Loaned(c)' = Loaned(c)
  BY <1>3, LoanedIs, LoanedIsNext
<1>4. ASSUME NEW d \in Channels, Decoder(d)
      PROVE  [Pool(c)!PoolNext]_(Pool(c)!poolVars)
  <2>1. DecoderStep(d) /\ Loaned(c)' = Loaned(c)
    <3>1. DecoderStep(d) /\ UNCHANGED <<scheduler, srcframe, gtaskque, infer, task>>
      BY <1>4 DEF Decoder, schedVars, queVars, inferVars
    <3>2. \A b : OnLoan(b)' <=> OnLoan(b)
      BY <3>1, LoansKept
    <3> QED
      BY <1>3, <3>1, <3>2
  <2>2. CASE /\ inPipe'[c] = inPipe[c] /\ outPipe'[c] = outPipe[c]
             /\ decframe'[c] = decframe[c]
    BY <1>2, <2>1, <2>2
  <2>3. ASSUME NEW b \in ToSet(inPipe[c]),
               decframe[c] = NoBuffer, decframe'[c] = b,
               ToSet(inPipe'[c]) = ToSet(inPipe[c]) \ {b}, outPipe'[c] = outPipe[c]
        PROVE  Pool(c)!PoolNext
    <3>1. ToSet(inPipe[c])' = ToSet(inPipe[c]) \ {b}
      BY <2>3 DEF ToSet
    <3>2. [p \in {c} |-> decframe[p]]' = [[p \in {c} |-> decframe[p]] EXCEPT ![c] = b]
      BY <2>3
    <3>3. Pool(c)!Acquire(c)
      BY <2>1, <2>3, <3>1, <3>2 DEF Pool!Acquire
    <3> QED
      BY <3>3 DEF Pool!PoolNext
  <2>4. ASSUME decframe[c] # NoBuffer, decframe'[c] = NoBuffer,
               outPipe'[c] = Append(outPipe[c], decframe[c]), inPipe'[c] = inPipe[c]
        PROVE  Pool(c)!PoolNext
    <3>1. ToSet(inPipe[c])' = ToSet(inPipe[c])
      BY <2>4 DEF ToSet
    <3>2. [p \in {c} |-> decframe[p]]' =
            [[p \in {c} |-> decframe[p]] EXCEPT ![c] = NoBuffer]
      BY <2>4
    <3>3. Pool(c)!Publish(c)
      BY <2>1, <2>4, <3>1, <3>2 DEF Pool!Publish
    <3> QED
      BY <3>3 DEF Pool!PoolNext
  <2> QED
    BY <1>1, <2>1, <2>2, <2>3, <2>4, DecoderMoves
<1>5. CASE LoadFrame
  <2>1. /\ outPipe[channel] # <<>>
        /\ outPipe' = [outPipe EXCEPT ![channel] = Tail(outPipe[channel])]
        /\ inPipe' = inPipe /\ decframe' = decframe
    BY <1>5 DEF LoadFrame, decVars
  <2>2. PICK h \in {Head(outPipe[channel])} : h = Head(outPipe[channel])
    OBVIOUS
  <2>3. h \in Own(channel)
    BY <1>1, <2>1, <2>2, PopFront DEF DecodingInv, Owned
  <2>4. Loaned(c)' = {b \in Own(c) : OnLoan(b) \/ b = h}
    BY <1>5, <2>2, LoadLends, LoanedIsNext
  <2>5. CASE channel = c
    <3>1. /\ Loaned(c)' = Loaned(c) \cup {Head(outPipe[c])}
          /\ outPipe'[c] = Tail(outPipe[c]) /\ outPipe[c] # <<>>
      BY <1>1, <2>1, <2>2, <2>3, <2>4, <2>5, LoanedIs DEF DecodingTypeOK
    <3>2. ToSet(inPipe[c])' = ToSet(inPipe[c])
      BY <2>1 DEF ToSet
    <3>3. [p \in {c} |-> decframe[p]]' = [p \in {c} |-> decframe[p]]
      BY <2>1
    <3>4. Pool(c)!Deliver
      BY <3>1, <3>2, <3>3 DEF Pool!Deliver
    <3> QED
      BY <3>4 DEF Pool!PoolNext
  <2>6. CASE channel # c
    <3>1. outPipe'[c] = outPipe[c]
      BY <1>1, <2>1, <2>6 DEF DecodingTypeOK
    <3>2. h \notin Own(c)
      BY <1>1, <2>3, <2>6, OwnDisjoint
    <3>3. Loaned(c)' = Loaned(c)
      BY <2>4, <3>2, LoanedIs
    <3> QED
      BY <1>2, <2>1, <3>1, <3>3
  <2> QED
    BY <2>5, <2>6
<1>6. ASSUME UNCHANGED <<inPipe, outPipe, decframe>>,
             \A b : OnLoan(b)' <=> OnLoan(b)
      PROVE  UNCHANGED Pool(c)!poolVars
  BY <1>2, <1>3, <1>6
<1>7. CASE PushTask
  <2>1. UNCHANGED <<inPipe, outPipe, decframe>>
    BY <1>7 DEF PushTask, decodingVars, pipeVars, decVars
  <2> QED
    BY <1>6, <1>7, <2>1, PushLends
<1>8. ASSUME NEW r \in Infers, PopTask(r) PROVE UNCHANGED Pool(c)!poolVars
  <2>1. UNCHANGED <<inPipe, outPipe, decframe>>
    BY <1>8 DEF PopTask, decodingVars, pipeVars, decVars
  <2> QED
    BY <1>6, <1>8, <2>1, PopLends
<1>9. ASSUME NEW r \in Infers, PutFrame(r)
      PROVE  [Pool(c)!PoolNext]_(Pool(c)!poolVars)
  <2>1. /\ inPipe' = [inPipe EXCEPT ![task[r].dpipe] = Cons(task[r].dbuffer, @)]
        /\ outPipe' = outPipe /\ decframe' = decframe
        /\ task[r] \in TasksOf(r)
    BY <1>9 DEF PutFrame, InferAt, decVars, BalancedInv, Working
  <2>a. PICK d \in Channels : d = task[r].dpipe
    BY <2>1, TaskBuffer
  <2>2. PICK h \in Own(d) : d = task[r].dpipe /\ h = task[r].dbuffer
    BY <2>1, <2>a, TaskBuffer
  <2>3. Loaned(c)' = {b \in Own(c) : OnLoan(b) /\ b # h} /\ OnLoan(h)
    BY <1>9, <2>2, PutReturns, LoanedIsNext
  <2>4. CASE d = c
    <3>1. /\ Loaned(c)' = Loaned(c) \ {h} /\ h \in Loaned(c)
          /\ inPipe'[c] = Cons(h, inPipe[c]) /\ inPipe[c] \in Seq(Own(c))
      BY <1>1, <2>1, <2>2, <2>3, <2>4, LoanedIs DEF Owned, DecodingTypeOK
    <3>2. ToSet(inPipe'[c]) = ToSet(inPipe[c]) \cup {h}
      BY <2>2, <2>4, <3>1, PushFront
    <3>3. ToSet(inPipe[c])' = ToSet(inPipe[c]) \cup {h}
      BY <3>2 DEF ToSet
    <3>4. [p \in {c} |-> decframe[p]]' = [p \in {c} |-> decframe[p]]
      BY <2>1
    <3>5. Pool(c)!GiveBack(h)
      BY <2>1, <3>1, <3>3, <3>4 DEF Pool!GiveBack
    <3> QED
      BY <2>2, <2>4, <3>5 DEF Pool!PoolNext
  <2>5. CASE d # c
    <3>1. inPipe'[c] = inPipe[c] /\ h \notin Own(c)
      BY <1>1, <2>1, <2>2, <2>5, OwnDisjoint DEF DecodingTypeOK
    <3>2. Loaned(c)' = Loaned(c)
      BY <2>3, <3>1, LoanedIs
    <3> QED
      BY <1>2, <2>1, <3>1, <3>2
  <2> QED
    BY <2>4, <2>5
\* The others have no buffer before or after.
<1>10. ASSUME UNCHANGED <<inPipe, outPipe, decframe, gtaskque>>,
              \/ UNCHANGED <<scheduler, srcframe>>
              \/ scheduler # "push" /\ scheduler' # "push",
              \A i \in Infers : \/ infer'[i] # "put" /\ infer[i] # "put"
                                \/ infer'[i] = infer[i] /\ task'[i] = task[i]
       PROVE  UNCHANGED Pool(c)!poolVars
  BY <1>6, <1>10, LoansKept
<1>11. CASE ScheduleLoop \/ AwaitTask \/ LoadNothing \/ PostInfer
  BY <1>10, <1>11 DEF ScheduleLoop, AwaitTask, LoadNothing, PostInfer, SchedulerAt, NextPipe,
     decodingVars, pipeVars, decVars, queVars, inferVars
<1>12. ASSUME NEW r \in Infers,
              InferLoop(r) \/ AwaitInfer(r) \/ QueueEmpty(r) \/ InsertImage(r)
       PROVE  UNCHANGED Pool(c)!poolVars
  <2>1. infer \in [Infers -> {"none", "loop", "semwait", "pop", "put", "insert", "done"}]
    BY DEF BalancedInv, TypeOK
  <2>2. task \in [Infers -> Tasks \cup {NoTask}]
    BY DEF BalancedInv, TypeOK
  <2>3. /\ UNCHANGED <<inPipe, outPipe, decframe, gtaskque, scheduler, srcframe>>
        /\ infer'[r] # "put" /\ infer[r] # "put"
        /\ \A i \in Infers \ {r} : infer'[i] = infer[i] /\ task'[i] = task[i]
    BY <1>12, <2>1, <2>2 DEF InferLoop, AwaitInfer, QueueEmpty, InsertImage, InferAt,
       decodingVars, pipeVars, decVars, schedVars, queVars
  <2> QED
    BY <1>10, <2>3
<1>13. CASE CreateThreads
  BY <1>10, <1>13 DEF CreateThreads, BalancedInv, Created, pipeVars, decVars, queVars
<1>14. CASE Interrupt \/ PostAll \/ JoinAll
  BY <1>10, <1>14 DEF Interrupt, PostAll, JoinAll, schedVars, pipeVars, decVars, queVars,
     inferVars
<1>15. CASE UNCHANGED vars
  BY <1>10, <1>15 DEF vars, decodingVars, pipeVars, decVars, schedVars, queVars, inferVars
<1> QED
  BY <1>4, <1>5, <1>7, <1>8, <1>9, <1>11, <1>12, <1>13, <1>14, <1>15
     DEF Next, SchedulerStep, InferStep

-----------------------------------------------------------------------------
(* The results.                                                            *)

(* Every variable has its type, for any number of channels, buffers and    *)
(* images per batch, whatever the decoders meet and whenever Ctrl-C comes. *)
THEOREM BalancedTypes == Spec => []TypeOK
<1>1. BalancedInv => TypeOK
  BY DEF BalancedInv
<1> QED
  BY BalancedInit, BalancedNext, <1>1, PTL DEF Spec

(* The pictures of a channel keep their order between the decoder and the  *)
(* detectors although two threads and their queues share the work.         *)
THEOREM BothKeepOrder == Spec => []FramesInOrder
BY BalancedInit, BalancedNext, ChannelOrderInit, ChannelOrderNext, OrderOfBoth, PTL DEF Spec

(* The scheduler of the balanced build never sleeps over stored frames, up *)
(* to those that came before it was created: one scan per token is enough. *)
THEOREM NoFrameLeft == Spec => []NoFrameForgotten
<1>1. BalancedInv /\ TokenBound => NoFrameForgotten
  BY DEF BalancedInv, Created, TokenBound, Explained, NoFrameForgotten
<1> QED
  BY BalancedInit, BalancedNext, ScanInit, ScanNext, TokenInit, TokenNext, <1>1, PTL DEF Spec

(* An inference thread that waits has nothing queued that it has not been  *)
(* told of: emptying the queue for one token loses no wake-up.             *)
THEOREM NoTaskLeft == Spec => []NoTaskForgotten
<1>1. TaskTold => NoTaskForgotten
  BY DEF TaskTold, NoTaskForgotten
<1> QED
  BY BalancedInit, BalancedNext, TaskToldInit, TaskToldNext, <1>1, PTL DEF Spec

(* Decoders, scheduler and inference threads use every pipe as a pool of   *)
(* exclusively owned buffers.                                              *)
THEOREM BalancedPools == Spec => PoolsUsed
BY BalancedInit, BalancedNext, PoolsInit, PoolsStep, PTL DEF Spec, PoolsUsed
=============================================================================

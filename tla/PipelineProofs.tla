--------------------------- MODULE PipelineProofs ---------------------------
(***************************************************************************)
(* The safety properties of the default build (Pipeline), for any number   *)
(* of channels and of buffers, whatever the decoders, the scheduler, the   *)
(* display and the main thread do in turn.                                 *)
(***************************************************************************)
EXTENDS Pipeline, DecodingProofs

-----------------------------------------------------------------------------
(* The inductive invariant.                                                *)

\* What the detector was told of a picture of a channel.
Told == [image : Frames, inputid : Channels, frameno : FrameNos]

SchedulerTypes ==
  /\ scheduler \in {"none", "loop", "semwait", "load", "put", "insert", "show",
                    "postshow", "cache", "done"}
  /\ channel \in Channels
  /\ srcframe \in Buffers \cup {NoBuffer}
  /\ frame \in Frames \cup {Unfilled}
  /\ imginfoque_ \in Seq(Told)
  /\ objects \in Seq(Told)

ShowTypes ==
  /\ gresultque \in Seq(Seq(Told))
  /\ g_semtshow \in 0..SEM_VALUE_MAX
  /\ display \in {"loop", "semwait", "draw", "done"}

(* The scheduler holds a picture of the pipe it visits; its buffer is the  *)
(* pipe's, and until PutFrame nobody else's.                               *)
Loading ==
  /\ scheduler \in {"put", "insert"} =>
       /\ srcframe \in Own(channel) /\ imgbuf[srcframe] # Unfilled
       /\ frame \in PicturesOf(channel)
  /\ scheduler = "put" => srcframe \notin Held(channel)

\* Nothing is scheduled before the scheduler is created.
Created == scheduler = "none" <=> mainPc = "creating"

\* The pictures the detector was given, with the one about to be.
Given == Join(Inserted, IF scheduler \in {"put", "insert"} THEN <<frame>> ELSE <<>>)

\* The channel after channel c.
Successor(c) == IF c < FLAGS_c THEN c + 1 ELSE 1

InTurn(pictures) ==
  \A i \in 1..(Len(pictures) - 1) :
    pictures[i + 1].channel = Successor(pictures[i].channel)

(* The scheduler's channel and that of the last picture it passed on.      *)
Turn ==
  /\ InTurn(Given)
  /\ Inserted # <<>> =>
       IF scheduler \in {"show", "postshow", "cache"}
         THEN channel = Inserted[Len(Inserted)].channel
         ELSE channel = Successor(Inserted[Len(Inserted)].channel)

(* The batches that may wait for the display: one pass over the pipes adds *)
(* more than two only once the program is being stopped.                   *)
CacheBound ==
  /\ scheduler \in {"none", "semwait", "load", "put", "insert", "show"} =>
       Len(gresultque) <= IF grunning THEN 1 ELSE channel
  /\ scheduler \in {"postshow", "cache"} =>
       Len(gresultque) <= IF grunning THEN 2 ELSE channel + 1
  /\ scheduler \in {"loop", "done"} =>
       Len(gresultque) <= IF grunning THEN 1 ELSE FLAGS_c + 1

PipeInv == DecodingInv /\ SchedulerTypes /\ Loading /\ Created

-----------------------------------------------------------------------------
(* Lists of descriptions and their pictures.                               *)

LEMMA ImagesType ==
  ASSUME NEW q \in Seq(Told)
  PROVE  /\ Images(q) \in Seq(Frames) /\ Len(Images(q)) = Len(q)
         /\ \A i \in 1..Len(q) : Images(q)[i] = q[i].image
<1>1. Len(q) \in Nat /\ DOMAIN q = 1..Len(q) /\ \A i \in 1..Len(q) : q[i] \in Told
  BY LenProperties, ElementOfSeq
<1>2. \A i \in 1..Len(q) : Images(q)[i] = q[i].image
  BY <1>1 DEF Images
<1>3. Images(q) \in [1..Len(q) -> Frames]
  BY <1>1 DEF Images, Told
<1> QED
  BY <1>1, <1>2, <1>3, FunctionIsList

LEMMA ImagesAppend ==
  ASSUME NEW q \in Seq(Told), NEW e \in Told
  PROVE  Images(Append(q, e)) = Join(Images(q), <<e.image>>)
<1> DEFINE a == Append(q, e)
           old == Images(q)
           new == Images(a)
           one == <<e.image>>
           app == Join(old, one)
<1>1. /\ Len(q) \in Nat /\ a \in Seq(Told) /\ Len(a) = Len(q) + 1
      /\ \A i \in 1..Len(q) : a[i] = q[i]
      /\ a[Len(q) + 1] = e
  BY AppendProperties, LenProperties
<1>2. /\ old \in Seq(Frames) /\ Len(old) = Len(q)
      /\ \A i \in 1..Len(q) : old[i] = q[i].image
  BY ImagesType
<1>3. /\ new \in Seq(Frames) /\ Len(new) = Len(a)
      /\ \A i \in 1..Len(a) : new[i] = a[i].image
  <2> HIDE DEF a
  <2> QED
    BY <1>1, ImagesType
<1>4. one \in Seq(Frames) /\ Len(one) = 1 /\ one[1] = e.image
  BY DEF Told
<1> HIDE DEF a, old, new, one
<1>5. /\ app \in Seq(Frames) /\ Len(app) = Len(q) + 1
      /\ \A i \in 1..Len(q) : app[i] = old[i]
      /\ app[Len(q) + 1] = one[1]
  <2>1. old \in Seq(Frames) /\ one \in Seq(Frames)
    BY <1>2, <1>4
  <2>2. /\ app \in Seq(Frames) /\ Len(app) = Len(old) + Len(one)
        /\ \A i \in 1..Len(old) : app[i] = old[i]
    BY <2>1, JoinAt
  <2>3. \A i \in 1..Len(one) : app[Len(old) + i] = one[i]
    BY <2>1, JoinAt
  <2> QED
    BY <2>2, <2>3, <1>1, <1>2, <1>4
<1> HIDE DEF app
<1>6. ASSUME NEW i \in 1..(Len(q) + 1) PROVE new[i] = app[i]
  <2>1. CASE i \in 1..Len(q)
    BY <2>1, <1>1, <1>2, <1>3, <1>5
  <2>2. CASE i = Len(q) + 1
    BY <2>2, <1>1, <1>3, <1>4, <1>5
  <2> QED
    BY <2>1, <2>2, <1>1
<1>7. new = app
  BY <1>1, <1>3, <1>5, <1>6, SeqEqual
<1> QED
  BY <1>7 DEF new, app, old, one, a

LEMMA ImagesJoin ==
  ASSUME NEW p \in Seq(Told), NEW q \in Seq(Told)
  PROVE  Images(Join(p, q)) = Join(Images(p), Images(q))
<1> DEFINE j == Join(p, q)
           ip == Images(p)
           iq == Images(q)
           new == Images(j)
           app == Join(ip, iq)
<1>1. /\ Len(p) \in Nat /\ Len(q) \in Nat
      /\ j \in Seq(Told) /\ Len(j) = Len(p) + Len(q)
  BY JoinAt
<1>2. /\ \A i \in 1..Len(p) : j[i] = p[i]
      /\ \A i \in (Len(p) + 1)..(Len(p) + Len(q)) : i - Len(p) \in 1..Len(q) /\ j[i] = q[i - Len(p)]
  BY JoinAt, ZenonT(60)
<1>3. /\ ip \in Seq(Frames) /\ Len(ip) = Len(p)
      /\ \A i \in 1..Len(p) : ip[i] = p[i].image
  BY ImagesType
<1>4. /\ iq \in Seq(Frames) /\ Len(iq) = Len(q)
      /\ \A i \in 1..Len(q) : iq[i] = q[i].image
  BY ImagesType
<1>5. /\ new \in Seq(Frames) /\ Len(new) = Len(j)
      /\ \A i \in 1..Len(j) : new[i] = j[i].image
  <2> HIDE DEF j
  <2> QED
    BY <1>1, ImagesType
<1> HIDE DEF ip, iq, new, j
<1>6. /\ app \in Seq(Frames) /\ Len(app) = Len(ip) + Len(iq)
      /\ \A i \in 1..Len(ip) : app[i] = ip[i]
  <2>1. ip \in Seq(Frames) /\ iq \in Seq(Frames)
    BY <1>3, <1>4
  <2> QED
    BY <2>1, JoinAt
<1>7. \A i \in (Len(ip) + 1)..(Len(ip) + Len(iq)) : app[i] = iq[i - Len(ip)]
  <2>1. ip \in Seq(Frames) /\ iq \in Seq(Frames)
    BY <1>3, <1>4
  <2> QED
    BY <2>1, JoinAt
<1> HIDE DEF app
<1>8. ASSUME NEW i \in 1..(Len(p) + Len(q)) PROVE new[i] = app[i]
  <2>1. CASE i \in 1..Len(p)
    BY <2>1, <1>1, <1>2, <1>3, <1>5, <1>6
  <2>2. CASE i \in (Len(p) + 1)..(Len(p) + Len(q))
    BY <2>2, <1>1, <1>2, <1>3, <1>4, <1>5, <1>7
  <2> QED
    BY <2>1, <2>2, <1>1
<1>9. new = app
  BY <1>1, <1>3, <1>4, <1>5, <1>6, <1>8, SeqEqual
<1> QED
  BY <1>9 DEF new, app, ip, iq, j

LEMMA InsertedIs ==
  ASSUME SchedulerTypes
  PROVE  /\ Inserted = Join(Images(objects), Images(imginfoque_))
         /\ Inserted \in Seq(Frames)
<1>1. Inserted = Join(Images(objects), Images(imginfoque_))
  BY DEF Inserted, Join
<1>2. Images(objects) \in Seq(Frames) /\ Images(imginfoque_) \in Seq(Frames)
  BY ImagesType DEF SchedulerTypes
<1> QED
  BY <1>1, <1>2, JoinType

(* A description that completes two batches makes the detector report the  *)
(* first: what it has reported and still has is what it had, and that.     *)
LEMMA BatchesJoin ==
  ASSUME NEW q \in Seq(Told), NEW n \in Nat, Len(q) = 2 * n
  PROVE  /\ SubSeq(q, 1, n) \in Seq(Told)
         /\ SubSeq(q, n + 1, Len(q)) \in Seq(Told)
         /\ Join(SubSeq(q, 1, n), SubSeq(q, n + 1, Len(q))) = q
<1>1. Len(q) \in Nat /\ \A i \in 1..Len(q) : q[i] \in Told
  BY LenProperties, ElementOfSeq
<1> DEFINE front == SubSeq(q, 1, n)
           rest == SubSeq(q, n + 1, Len(q))
           all == Join(front, rest)
<1>2. /\ front \in Seq(Told) /\ Len(front) = n
      /\ \A i \in 1..n : front[i] = q[i]
  BY <1>1
<1>3. /\ rest \in Seq(Told) /\ Len(rest) = n
      /\ \A i \in 1..n : rest[i] = q[n + i]
  BY <1>1
<1> HIDE DEF front, rest
<1>4. /\ all \in Seq(Told) /\ Len(all) = Len(front) + Len(rest)
      /\ \A i \in 1..Len(front) : all[i] = front[i]
  <2>1. front \in Seq(Told) /\ rest \in Seq(Told)
    BY <1>2, <1>3
  <2> QED
    BY <2>1, JoinAt
<1>5. \A i \in (Len(front) + 1)..(Len(front) + Len(rest)) : all[i] = rest[i - Len(front)]
  <2>1. front \in Seq(Told) /\ rest \in Seq(Told)
    BY <1>2, <1>3
  <2> QED
    BY <2>1, JoinAt
<1> HIDE DEF all
<1>6. ASSUME NEW i \in 1..Len(q) PROVE all[i] = q[i]
  <2>1. CASE i \in 1..n
    BY <2>1, <1>2, <1>4
  <2>2. CASE i \in (n + 1)..(n + n)
    <3>1. i - n \in 1..n /\ n + (i - n) = i
      BY <2>2
    <3> QED
      BY <2>2, <3>1, <1>2, <1>3, <1>5
  <2> QED
    BY <2>1, <2>2, <1>1
<1>7. all = q
  BY <1>1, <1>2, <1>3, <1>4, <1>6, SeqEqual
<1> QED
  BY <1>2, <1>3, <1>7 DEF all, front, rest

-----------------------------------------------------------------------------
(* Types and buffers.                                                      *)

LEMMA PipeInit == Init => PipeInv
<1> SUFFICES ASSUME Init PROVE PipeInv
  OBVIOUS
<1>1. DecodingInv
  BY DecodingInitInv DEF Init
<1>2. mainPc = "creating"
  BY DEF Init, DecodingInit
<1>3. 1 \in Channels
  BY DecodingAssumption DEF Channels
<1>4. SchedulerTypes
  BY <1>3 DEF Init, SchedulerTypes
<1> QED
  BY <1>1, <1>2, <1>4 DEF Init, PipeInv, Loading, Created

(* A picture that lies in a buffer of the channel, or was copied from it.  *)
LEMMA PictureOfBuffer ==
  ASSUME DecodingInv, NEW c \in Channels, NEW b \in Own(c), imgbuf[b] # Unfilled
  PROVE  /\ imgbuf[b] \in Frames /\ imgbuf[b] \in PicturesOf(c)
         /\ imgbuf[b].channel = c /\ imgbuf[b].frameno \in FrameNos
<1>1. imgbuf[b] \in Frames /\ imgbuf[b].channel = c
  BY OwnBuffers, NotUnfilled DEF DecodingInv, DecodingTypeOK, Labelled
<1> QED
  BY <1>1 DEF Frames, PicturesOf

LEMMA DescribedType ==
  ASSUME PipeInv, scheduler = "insert"
  PROVE  /\ Described \in Told /\ Described.image = frame
         /\ Described.inputid = channel /\ frame.channel = channel
<1>1. /\ channel \in Channels /\ srcframe \in Own(channel)
      /\ imgbuf[srcframe] # Unfilled
      /\ frame \in Frames /\ frame.channel = channel
  BY DEF PipeInv, SchedulerTypes, Loading, PicturesOf, Frames
<1>2. imgbuf[srcframe].channel = channel /\ imgbuf[srcframe].frameno \in FrameNos
  BY <1>1, PictureOfBuffer DEF PipeInv
<1> QED
  BY <1>1, <1>2 DEF Described, Told

(* The batch that is reported and the images that stay.                    *)
LEMMA BatchReported ==
  ASSUME PipeInv, InsertImageGet
  PROVE  /\ objects' \in Seq(Told) /\ imginfoque_' \in Seq(Told)
         /\ Join(objects', imginfoque_') = Append(imginfoque_, Described)
<1> DEFINE que == Append(imginfoque_, Described)
<1>1. scheduler = "insert" /\ Len(imginfoque_) + 1 = 2 * FLAGS_batch
      /\ objects' = SubSeq(que, 1, FLAGS_batch)
      /\ imginfoque_' = SubSeq(que, FLAGS_batch + 1, Len(que))
  BY DEF InsertImageGet
<1>2. que \in Seq(Told) /\ Len(que) = 2 * FLAGS_batch
  BY <1>1, DescribedType, AppendProperties DEF PipeInv, SchedulerTypes
<1>3. FLAGS_batch \in Nat
  BY PipelineAssumption
<1> HIDE DEF que
<1> QED
  BY <1>1, <1>2, <1>3, BatchesJoin DEF que

LEMMA NextPipeTypes ==
  ASSUME PipeInv, NextPipe
  PROVE  /\ channel' \in Channels /\ channel' = Successor(channel)
         /\ scheduler' \in {"load", "loop"} /\ (scheduler' = "loop" => channel' = 1)
         /\ srcframe' = NoBuffer /\ frame' = Unfilled
BY DecodingAssumption DEF NextPipe, PipeInv, SchedulerTypes, Channels, Successor

(* Steps that leave pipes and decoders alone, and the scheduler outside    *)
(* put and insert.                                                         *)
LEMMA PipeOther ==
  ASSUME PipeInv, UNCHANGED <<pipeVars, decVars>>,
         grunning' \in BOOLEAN,
         mainPc' \in {"creating", "pause", "posting", "joining", "terminated"},
         early' \in 0..StartupWindow,
         gNewtaskAvaiable' \in 0..SEM_VALUE_MAX,
         SchedulerTypes', Created',
         \/ scheduler' \notin {"put", "insert"}
         \/ UNCHANGED <<scheduler, channel, srcframe, frame>>
  PROVE  PipeInv'
<1>1. DecodingInv' /\ \A c \in Channels : Held(c)' = Held(c)
  BY PipesUntouched DEF PipeInv
<1>2. Loading'
  BY <1>1 DEF PipeInv, Loading, SchedulerTypes, pipeVars
<1> QED
  BY <1>1, <1>2 DEF PipeInv

LEMMA PipeNext == PipeInv /\ [Next]_vars => PipeInv'
<1> SUFFICES ASSUME PipeInv, [Next]_vars PROVE PipeInv'
  OBVIOUS
<1> USE DEF PipeInv
<1>1. /\ DecodingInv /\ SchedulerTypes /\ Loading /\ Created
      /\ grunning \in BOOLEAN
      /\ mainPc \in {"creating", "pause", "posting", "joining", "terminated"}
      /\ early \in 0..StartupWindow
      /\ gNewtaskAvaiable \in 0..SEM_VALUE_MAX
      /\ SEM_VALUE_MAX \in Nat /\ StartupWindow \in Nat
  BY DecodingAssumption DEF DecodingInv, DecodingTypeOK
<1>2. ASSUME NEW d \in Channels, Decoder(d) PROVE PipeInv'
  <2>1. DecoderStep(d) /\ UNCHANGED <<scheduler, channel, srcframe, frame, imginfoque_, objects>>
    BY <1>2 DEF Decoder, schedVars
  <2>2. /\ DecodingInv'
        /\ \A c \in Channels : Held(c)' = Held(c) /\ BuffersKept(c)
    BY <1>1, <2>1, DecoderKeeps
  <2>3. SchedulerTypes'
    BY <1>1, <2>1 DEF SchedulerTypes
  <2>4. Loading'
    BY <1>1, <2>1, <2>2 DEF Loading, SchedulerTypes, BuffersKept
  <2>5. UNCHANGED mainPc
    BY <2>1 DEF DecoderStep, DecoderExit, Decode, VppFails, Fill, StoreFrame, Announce, mainVars
  <2> QED
    BY <1>1, <2>1, <2>2, <2>3, <2>4, <2>5 DEF Created
<1>3. CASE ScheduleLoop
  BY <1>1, <1>3, PipeOther DEF ScheduleLoop, SchedulerAt, SchedulerTypes, Created,
       decodingVars, mainVars
<1>4. CASE AwaitTask
  <2>1. gNewtaskAvaiable' \in 0..SEM_VALUE_MAX
    BY <1>1, <1>4 DEF AwaitTask
  <2> QED
    BY <1>1, <1>4, <2>1, PipeOther DEF AwaitTask, SchedulerAt, SchedulerTypes, Created
<1>5. CASE LoadFrame
  <2> DEFINE b == Head(outPipe[channel])
  <2>1. /\ scheduler = "load" /\ scheduler' = "put" /\ outPipe[channel] # <<>>
        /\ outPipe' = [outPipe EXCEPT ![channel] = Tail(outPipe[channel])]
        /\ srcframe' = b /\ frame' = imgbuf[b] /\ channel \in Channels
        /\ UNCHANGED <<mainVars, inPipe, imgbuf, decVars, channel, imginfoque_, objects>>
    BY <1>1, <1>5 DEF LoadFrame, SchedulerAt, SchedulerTypes
  <2>2. /\ DecodingInv' /\ b \in Own(channel) /\ b \in ToSet(outPipe[channel])
        /\ imgbuf[b] \in PicturesOf(channel)
        /\ b \notin Held(channel)'
    BY <1>1, <2>1, TakeFront
  <2>3. imgbuf[b] \in Frames /\ b \in Buffers /\ imgbuf[b] # Unfilled
    BY <2>1, <2>2, OwnBuffers DEF PicturesOf, Frames, Unfilled, Channels
  <2> HIDE DEF b
  <2>4. SchedulerTypes'
    BY <1>1, <2>1, <2>3 DEF SchedulerTypes
  <2>5. Created'
    BY <1>1, <2>1 DEF Created, mainVars
  <2>6. Loading'
    BY <2>1, <2>2, <2>3 DEF Loading
  <2> QED
    BY <2>2, <2>4, <2>5, <2>6
<1>6. CASE PutFrame
  <2>1. /\ scheduler = "put" /\ scheduler' = "insert" /\ channel \in Channels
        /\ srcframe \in Own(channel) /\ srcframe \notin Held(channel)
        /\ inPipe' = [inPipe EXCEPT ![channel] = Cons(srcframe, inPipe[channel])]
        /\ UNCHANGED <<mainVars, outPipe, imgbuf, decVars, channel, srcframe, frame,
                       imginfoque_, objects>>
    BY <1>1, <1>6 DEF PutFrame, SchedulerAt, SchedulerTypes, Loading
  <2>2. DecodingInv'
    BY <1>1, <2>1, GiveBackBuffer
  <2>3. SchedulerTypes' /\ Created' /\ Loading'
    BY <1>1, <2>1 DEF SchedulerTypes, Created, mainVars, Loading
  <2> QED
    BY <2>2, <2>3
<1>7. CASE InsertImage
  <2>1. imginfoque_' \in Seq(Told)
    BY <1>1, <1>7, DescribedType, AppendProperties DEF InsertImage, SchedulerTypes
  <2>2. SchedulerTypes' /\ Created'
    BY <1>1, <1>7, <2>1, NextPipeTypes
    DEF InsertImage, SchedulerTypes, Created, decodingVars, mainVars
  <2> QED
    BY <1>1, <1>7, <2>2, PipeOther, NextPipeTypes DEF InsertImage, decodingVars, mainVars
<1>8. CASE InsertImageGet
  <2>1. objects' \in Seq(Told) /\ imginfoque_' \in Seq(Told)
    BY <1>8, BatchReported
  <2>2. /\ SchedulerTypes' /\ scheduler' \in {"load", "loop", "show"}
        /\ scheduler = "insert"
    BY <1>1, <1>8, <2>1, NextPipeTypes DEF InsertImageGet, SchedulerTypes
  <2>3. Created'
    BY <1>1, <1>8, <2>2 DEF InsertImageGet, Created, decodingVars, mainVars
  <2> QED
    BY <1>1, <1>8, <2>2, <2>3, PipeOther DEF InsertImageGet, decodingVars, mainVars
<1>9. CASE Show \/ AnnounceShow
  BY <1>1, <1>9, PipeOther DEF Show, AnnounceShow, SchedulerAt, SchedulerTypes, Created,
       decodingVars, mainVars
<1>10. CASE CacheWait
  <2>1. SchedulerTypes' /\ Created' /\ scheduler' \in {"load", "loop"}
    BY <1>1, <1>10, NextPipeTypes DEF CacheWait, SchedulerTypes, Created, decodingVars, mainVars
  <2> QED
    BY <1>1, <1>10, <2>1, PipeOther DEF CacheWait, decodingVars, mainVars
<1>11. CASE DisplayStep
  <2>1. UNCHANGED <<decodingVars, schedVars>>
    BY <1>11 DEF DisplayStep, DisplayLoop, AwaitShow, Draw
  <2> QED
    BY <1>1, <2>1, PipeOther DEF decodingVars, mainVars, schedVars, SchedulerTypes, Created
<1>12. CASE CreateScheduler
  BY <1>1, <1>12, PipeOther DEF CreateScheduler, SchedulerTypes, Created
<1>13. CASE Interrupt
  BY <1>1, <1>13, PipeOther DEF Interrupt, schedVars, SchedulerTypes, Created
<1>14. CASE PostAll
  <2>1. gNewtaskAvaiable' \in 0..SEM_VALUE_MAX
    BY <1>1, <1>14 DEF PostAll, Posted
  <2> QED
    BY <1>1, <1>14, <2>1, PipeOther DEF PostAll, schedVars, SchedulerTypes, Created
<1>15. CASE JoinAll
  BY <1>1, <1>15, PipeOther DEF JoinAll, schedVars, SchedulerTypes, Created
<1>16. CASE UNCHANGED vars
  <2>1. UNCHANGED <<pipeVars, decVars, mainVars, schedVars>>
    BY <1>16 DEF vars, decodingVars
  <2> QED
    BY <1>1, <2>1, PipeOther DEF mainVars, schedVars, SchedulerTypes, Created
<1> QED
  BY <1>2, <1>3, <1>4, <1>5, <1>6, <1>7, <1>8, <1>9, <1>10, <1>11, <1>12, <1>13, <1>14,
     <1>15, <1>16 DEF Next, SchedulerStep

-----------------------------------------------------------------------------
(* The order of pictures.                                                  *)

LEMMA LineParts ==
  ASSUME PipeInv, NEW c \in Channels
  PROVE  /\ Line(c) = Join(Join(Inserted, Carried(c)), Pending(c))
         /\ Inserted \in Seq(Frames)
         /\ Carried(c) \in Seq(Frames)
         /\ Pending(c) \in Seq(Frames)
<1>1. Line(c) = Join(Join(Inserted, Carried(c)), Pending(c))
  BY DEF Line, Join
<1>2. Inserted \in Seq(Frames)
  BY InsertedIs DEF PipeInv
<1>3. Carried(c) \in Seq(Frames)
  <2>1. scheduler \in {"put", "insert"} => frame \in Frames
    BY DEF PipeInv, SchedulerTypes, Loading, PicturesOf, Frames
  <2> QED
    BY <2>1 DEF Carried
<1>4. Pending(c) \in Seq(Frames)
  <2>1. Pending(c) \in Seq(PicturesOf(c))
    BY PendingType DEF PipeInv
  <2>2. PicturesOf(c) \subseteq Frames
    BY DEF PicturesOf, Frames
  <2> QED
    BY <2>1, <2>2, SeqMonotonic
<1> QED
  BY <1>1, <1>2, <1>3, <1>4

LEMMA OrderInit == Init => FramesInOrder
<1> SUFFICES ASSUME Init, NEW c \in Channels
             PROVE  Consecutive(c, Line(c), nFrameProcessed[c])
  BY DEF FramesInOrder
<1>1. Pending(c) = <<>>
  BY DecodingInitInv DEF Init
<1>2. Carried(c) = <<>> /\ Inserted = <<>>
  <2>1. Images(<<>>) = <<>>
    BY DEF Images
  <2> QED
    BY <2>1 DEF Init, Carried, Inserted
<1>3. Line(c) = <<>>
  BY <1>1, <1>2 DEF Line
<1>4. DOMAIN Line(c) = {}
  BY <1>3
<1> QED
  BY <1>4 DEF Consecutive

(* The picture that is given to the detector.                              *)
LEMMA InsertedGrows ==
  ASSUME PipeInv, InsertImage
  PROVE  Inserted' = Join(Inserted, <<frame>>)
<1>1. /\ scheduler = "insert" /\ imginfoque_' = Append(imginfoque_, Described)
      /\ objects' = objects
  BY DEF InsertImage
<1>2. objects \in Seq(Told) /\ imginfoque_ \in Seq(Told) /\ Described \in Told
      /\ Described.image = frame /\ frame \in Frames
  BY <1>1, DescribedType DEF PipeInv, SchedulerTypes, Loading, PicturesOf, Frames
<1>3. Inserted' = Join(Images(objects), Images(Append(imginfoque_, Described)))
  <2>1. Inserted' = Join(Images(objects'), Images(imginfoque_'))
    BY DEF Inserted, Join
  <2> QED
    BY <2>1, <1>1
<1> DEFINE io == Images(objects)
           iq == Images(imginfoque_)
           one == <<frame>>
<1>4. /\ io \in Seq(Frames) /\ iq \in Seq(Frames) /\ one \in Seq(Frames)
      /\ Images(Append(imginfoque_, Described)) = Join(iq, one)
      /\ Inserted = Join(io, iq)
  <2>1. Images(Append(imginfoque_, Described)) = Join(iq, <<Described.image>>)
    BY <1>2, ImagesAppend
  <2>2. Inserted = Join(io, iq)
    BY InsertedIs DEF PipeInv
  <2> QED
    BY <2>1, <2>2, <1>2, ImagesType
<1> HIDE DEF io, iq, one
<1>5. Join(io, Join(iq, one)) = Join(Join(io, iq), one)
  BY <1>4, JoinAssociative
<1> QED
  BY <1>3, <1>4, <1>5 DEF io, iq, one

(* The same when a batch is reported: what was reported before is gone.    *)
LEMMA InsertedMoves ==
  ASSUME PipeInv, InsertImageGet
  PROVE  /\ Inserted' = Join(Images(imginfoque_), <<frame>>)
         /\ Images(imginfoque_) \in Seq(Frames)
         /\ Images(objects) \in Seq(Frames)
<1>1. /\ scheduler = "insert"
      /\ objects' \in Seq(Told) /\ imginfoque_' \in Seq(Told)
      /\ Join(objects', imginfoque_') = Append(imginfoque_, Described)
  BY BatchReported DEF InsertImageGet
<1>2. objects \in Seq(Told) /\ imginfoque_ \in Seq(Told) /\ Described \in Told
      /\ Described.image = frame
  BY <1>1, DescribedType DEF PipeInv, SchedulerTypes
<1>3. Inserted' = Images(Join(objects', imginfoque_'))
  <2>1. Inserted' = Join(Images(objects'), Images(imginfoque_'))
    BY DEF Inserted, Join
  <2> QED
    BY <2>1, <1>1, ImagesJoin
<1>4. Images(Append(imginfoque_, Described)) = Join(Images(imginfoque_), <<Described.image>>)
  BY <1>2, ImagesAppend
<1> QED
  BY <1>1, <1>2, <1>3, <1>4, ImagesType

LEMMA LineSame ==
  ASSUME NEW c \in Channels, Consecutive(c, Line(c), nFrameProcessed[c]),
         UNCHANGED <<Inserted, Carried(c), Pending(c), nFrameProcessed[c]>>
  PROVE  Consecutive(c, Line(c), nFrameProcessed[c])'
<1>1. Line(c)' = Line(c)
  BY DEF Line
<1> QED
  BY <1>1 DEF Consecutive, Adjacent, FollowingNo

LEMMA OrderNext == PipeInv /\ FramesInOrder /\ [Next]_vars => FramesInOrder'
<1> SUFFICES ASSUME PipeInv, FramesInOrder, [Next]_vars, NEW c \in Channels
             PROVE  Consecutive(c, Line(c), nFrameProcessed[c])'
  BY DEF FramesInOrder
<1> DEFINE In == Inserted
           Ca == Carried(c)
           Pe == Pending(c)
           newest == nFrameProcessed[c]
<1>1. /\ Consecutive(c, Line(c), newest)
      /\ Line(c) = Join(Join(In, Ca), Pe)
      /\ In \in Seq(Frames) /\ Ca \in Seq(Frames) /\ Pe \in Seq(Frames)
      /\ Line(c)' = Join(Join(In', Ca'), Pe')
      /\ DecodingInv /\ SchedulerTypes /\ Loading /\ channel \in Channels
  <2>1. Line(c)' = Join(Join(In', Ca'), Pe')
    BY DEF Line, Join
  <2> QED
    BY <2>1, LineParts DEF FramesInOrder, PipeInv, SchedulerTypes
<1>2. ASSUME NEW list, Line(c)' = list, Consecutive(c, list, newest')
      PROVE  Consecutive(c, Line(c), newest)'
  BY <1>2 DEF Consecutive, Adjacent, FollowingNo
<1>3. ASSUME UNCHANGED <<In, Ca, Pe, newest>>
      PROVE  Consecutive(c, Line(c), newest)'
  BY <1>1, <1>3, LineSame
<1>4. ASSUME NEW d \in Channels, Decoder(d)
      PROVE  Consecutive(c, Line(c), newest)'
  <2>1. UNCHANGED <<In, Ca>> /\ Grows(c)
    BY <1>1, <1>4, DecoderKeeps DEF Decoder, schedVars, Inserted, Carried
  <2>2. CASE UNCHANGED <<Pe, newest>>
    BY <1>3, <2>1, <2>2
  <2>3. CASE ~UNCHANGED <<Pe, newest>>
    <3>1. PICK e \in PicturesOf(c) :
            /\ e.frameno = FollowingNo(newest)
            /\ newest' = e.frameno
            /\ Pe' = Join(Pe, <<e>>)
      BY <2>1, <2>3 DEF Grows
    <3> DEFINE front == Join(In, Ca)
               one == <<e>>
    <3>2. e \in Frames /\ e.channel = c /\ one \in Seq(Frames)
      BY DEF PicturesOf, Frames
    <3>3. front \in Seq(Frames)
      BY <1>1, JoinType
    <3>4. Line(c) = Join(front, Pe) /\ Line(c)' = Join(front, Join(Pe, one))
      BY <1>1, <2>1, <3>1
    <3>5. Consecutive(c, Join(Join(front, Pe), one), e.frameno)
      <4>1. Join(front, Pe) \in Seq(Frames)
        <5> HIDE DEF front, Pe
        <5> QED
          BY <1>1, <3>3, JoinType
      <4>2. Consecutive(c, Join(front, Pe), newest)
        BY <1>1, <3>4
      <4> DEFINE line == Join(front, Pe)
      <4> HIDE DEF line, newest
      <4> QED
        BY <3>1, <3>2, <4>1, <4>2, AppendNext DEF line
    <3> HIDE DEF front, one, Pe, newest
    <3>6. Join(Join(front, Pe), one) = Join(front, Join(Pe, one))
      BY <1>1, <3>2, <3>3, JoinAssociative
    <3> QED
      BY <1>2, <3>1, <3>4, <3>5, <3>6
  <2> QED
    BY <2>2, <2>3
<1>5. Pe' \in Seq(Frames)
  <2>1. Pending(c)' \in Seq(PicturesOf(c))
    BY PipeNext, PendingTypesNext DEF PipeInv
  <2>2. PicturesOf(c) \subseteq Frames
    BY DEF PicturesOf, Frames
  <2> QED
    BY <2>1, <2>2, SeqMonotonic
<1>6. CASE LoadFrame
  <2> DEFINE b == Head(outPipe[channel])
             one == <<imgbuf[b]>>
  <2>1. /\ scheduler = "load" /\ scheduler' = "put" /\ outPipe[channel] # <<>>
        /\ outPipe' = [outPipe EXCEPT ![channel] = Tail(outPipe[channel])]
        /\ frame' = imgbuf[b] /\ channel' = channel
        /\ UNCHANGED <<mainVars, inPipe, imgbuf, decVars, imginfoque_, objects>>
    BY <1>6 DEF LoadFrame, SchedulerAt
  <2>2. /\ imgbuf[b] \in PicturesOf(channel)
        /\ Pending(channel) = Join(one, Pending(channel)')
        /\ \A d \in Channels \ {channel} : Pending(d)' = Pending(d)
    <3>1. /\ imgbuf[b] \in PicturesOf(channel)
          /\ \A d \in Channels \ {channel} : Pending(d)' = Pending(d)
      BY <1>1, <2>1, TakeFront
    <3>2. PICK k \in Channels : k = channel /\ channel' = k
      BY <1>1, <2>1
    <3>3. Pending(k) = Join(<<imgbuf[Head(outPipe[k])]>>, Pending(k)')
      BY <1>1, <2>1, <3>2, TakeFront
    <3> QED
      BY <3>1, <3>2, <3>3
  <2>3. UNCHANGED <<In, newest>> /\ Ca = <<>>
    BY <2>1 DEF Inserted, Carried, decVars
  <2>4. CASE channel # c
    <3>1. UNCHANGED <<Ca, Pe>>
      BY <2>1, <2>2, <2>4 DEF Carried
    <3> QED
      BY <1>3, <2>3, <3>1
  <2>5. CASE channel = c
    <3>1. Ca' = one /\ Pe = Join(one, Pe')
      BY <2>1, <2>2, <2>5 DEF Carried
    <3>2. one \in Seq(Frames) /\ Pe' \in Seq(Frames)
      <4>1. imgbuf[b] \in Frames
        BY <1>1, <2>2 DEF PicturesOf, Frames
      <4> QED
        BY <1>5, <4>1
    <3>3. Line(c) = Join(Join(In, <<>>), Join(one, Pe')) /\ Line(c)' = Join(Join(In, one), Pe')
      BY <1>1, <2>3, <3>1
    <3> DEFINE rest == Pe'
    <3> HIDE DEF In, one, rest
    <3>4. /\ Join(In, <<>>) = In
          /\ Join(In, Join(one, rest)) = Join(Join(In, one), rest)
      BY <1>1, <3>2, JoinEmpty, JoinAssociative DEF rest
    <3>5. Line(c)' = Line(c)
      BY <3>3, <3>4 DEF rest
    <3> QED
      BY <1>1, <1>2, <2>3, <3>5
  <2> QED
    BY <2>4, <2>5
<1>7. CASE PutFrame
  <2>1. /\ scheduler = "put" /\ scheduler' = "insert"
        /\ srcframe \in Own(channel) /\ srcframe \notin Held(channel)
        /\ inPipe' = [inPipe EXCEPT ![channel] = Cons(srcframe, inPipe[channel])]
        /\ UNCHANGED <<mainVars, outPipe, imgbuf, decVars, channel, frame,
                       imginfoque_, objects>>
    BY <1>1, <1>7 DEF PutFrame, SchedulerAt, Loading
  <2>2. UNCHANGED Pe
    BY <1>1, <2>1, GiveBackBuffer
  <2>3. UNCHANGED <<In, Ca, newest>>
    BY <2>1 DEF Inserted, Carried, decVars
  <2> QED
    BY <1>3, <2>2, <2>3
<1>8. CASE InsertImage
  <2> DEFINE one == <<frame>>
  <2>1. /\ scheduler = "insert" /\ scheduler' \in {"load", "loop"}
        /\ UNCHANGED <<decodingVars, objects>>
    BY <1>8, NextPipeTypes DEF InsertImage
  <2>2. frame \in Frames /\ frame.channel = channel /\ one \in Seq(Frames)
    BY <1>1, <2>1 DEF Loading, PicturesOf, Frames
  <2>3. In' = Join(In, one) /\ Ca' = <<>>
    BY <1>8, <2>1, InsertedGrows DEF Carried
  <2>4. UNCHANGED <<Pe, newest>>
    BY <2>1 DEF decodingVars, pipeVars, decVars, Pending, Stored, Filling, Decoded
  <2>5. /\ Line(c) = Join(Join(In, Ca), Pe)
        /\ Line(c)' = Join(Join(Join(In, one), <<>>), Pe)
    BY <1>1, <2>3, <2>4
  <2>6. Join(In, one) \in Seq(Frames)
    <3> HIDE DEF In, one
    <3> QED
      BY <1>1, <2>2, JoinType
  <2>7. CASE channel = c
    <3>1. Ca = one
      BY <2>1, <2>7 DEF Carried
    <3>2. Line(c)' = Line(c)
      <4> DEFINE front == Join(In, one)
      <4>1. Line(c) = Join(front, Pe) /\ Line(c)' = Join(Join(front, <<>>), Pe) /\ front \in Seq(Frames)
        BY <2>5, <2>6, <3>1
      <4> HIDE DEF front
      <4> QED
        BY <4>1, JoinEmpty
    <3> QED
      BY <1>1, <1>2, <2>4, <3>2
  <2>8. CASE channel # c
    <3>1. Ca = <<>>
      BY <2>8 DEF Carried
    <3> DEFINE front == Join(In, one)
    <3>2. Line(c)' = Join(front, Pe) /\ Line(c) = Join(In, Pe)
      <4>1. /\ Line(c) = Join(Join(In, <<>>), Pe) /\ Line(c)' = Join(Join(front, <<>>), Pe)
            /\ front \in Seq(Frames)
        BY <2>5, <2>6, <3>1
      <4> HIDE DEF front, In
      <4> QED
        BY <1>1, <4>1, JoinEmpty
    <3>3. \A i \in DOMAIN one : one[i].channel # c
      BY <2>2, <2>8
    <3>4. Consecutive(c, Join(front, Pe), newest)
      <4> HIDE DEF In, one, Pe, newest
      <4> QED
        BY <1>1, <2>2, <3>2, <3>3, InsertOthers
    <3> QED
      BY <1>2, <2>4, <3>2, <3>4
  <2> QED
    BY <2>7, <2>8
<1>9. CASE InsertImageGet
  <2> DEFINE one == <<frame>>
             io == Images(objects)
             iq == Images(imginfoque_)
  <2>1. /\ scheduler = "insert" /\ scheduler' \in {"load", "loop", "show"}
        /\ UNCHANGED decodingVars
    BY <1>9, NextPipeTypes DEF InsertImageGet
  <2>2. frame \in Frames /\ frame.channel = channel /\ one \in Seq(Frames)
    BY <1>1, <2>1 DEF Loading, PicturesOf, Frames
  <2>3. /\ In' = Join(iq, one) /\ Ca' = <<>> /\ In = Join(io, iq)
        /\ io \in Seq(Frames) /\ iq \in Seq(Frames)
    BY <1>1, <1>9, <2>1, InsertedMoves, InsertedIs DEF Carried
  <2>4. UNCHANGED <<Pe, newest>>
    BY <2>1 DEF decodingVars, pipeVars, decVars, Pending, Stored, Filling, Decoded
  <2>5. /\ Line(c) = Join(Join(Join(io, iq), Ca), Pe)
        /\ Line(c)' = Join(Join(Join(iq, one), <<>>), Pe)
    BY <1>1, <2>3, <2>4
  <2> DEFINE new == Join(iq, one)
  <2>6. new \in Seq(Frames) /\ Line(c)' = Join(new, Pe)
    <3>1. new \in Seq(Frames)
      <4> HIDE DEF iq, one
      <4> QED
        BY <2>2, <2>3, JoinType
    <3>2. Line(c)' = Join(Join(new, <<>>), Pe)
      BY <2>5
    <3> HIDE DEF new
    <3> QED
      BY <3>1, <3>2, JoinEmpty
  <2> HIDE DEF io, iq, one, Pe, newest
  <2>7. CASE channel = c
    <3>1. Ca = one
      BY <2>1, <2>7 DEF Carried, one
    <3>2. Line(c) = Join(io, Join(new, Pe))
      <4>1. Line(c) = Join(Join(Join(io, iq), one), Pe)
        BY <2>5, <3>1
      <4>2. Join(Join(io, iq), one) = Join(io, new)
        BY <2>2, <2>3, JoinAssociative
      <4> HIDE DEF new
      <4>3. Join(Join(io, new), Pe) = Join(io, Join(new, Pe))
        BY <1>1, <2>3, <2>6, JoinAssociative
      <4> QED
        BY <4>1, <4>2, <4>3
    <3>3. Consecutive(c, Join(new, Pe), newest)
      <4> DEFINE line == Join(new, Pe)
      <4> HIDE DEF new
      <4>1. line \in Seq(Frames)
        BY <1>1, <2>6, JoinType
      <4>2. Consecutive(c, Join(io, line), newest)
        BY <1>1, <3>2
      <4> HIDE DEF line
      <4> QED
        BY <2>3, <4>1, <4>2, ForgetOldest DEF line
    <3> QED
      BY <1>2, <2>4, <2>6, <3>3 DEF newest
  <2>8. CASE channel # c
    <3>1. Ca = <<>>
      BY <2>8 DEF Carried
    <3>2. Line(c) = Join(io, Join(iq, Pe))
      <4> DEFINE front == Join(io, iq)
      <4>1. Line(c) = Join(Join(front, <<>>), Pe)
        BY <2>5, <3>1
      <4>2. front \in Seq(Frames)
        BY <2>3, JoinType
      <4>3. Join(front, Pe) = Join(io, Join(iq, Pe))
        BY <1>1, <2>3, JoinAssociative
      <4> HIDE DEF front
      <4> QED
        BY <4>1, <4>2, <4>3, JoinEmpty
    <3>3. Consecutive(c, Join(iq, Pe), newest)
      <4> DEFINE line == Join(iq, Pe)
      <4>1. line \in Seq(Frames)
        BY <1>1, <2>3, JoinType
      <4>2. Consecutive(c, Join(io, line), newest)
        BY <1>1, <3>2
      <4> HIDE DEF line
      <4> QED
        BY <2>3, <4>1, <4>2, ForgetOldest DEF line
    <3>4. \A i \in DOMAIN one : one[i].channel # c
      BY <2>2, <2>8 DEF one
    <3>5. Consecutive(c, Join(new, Pe), newest)
      BY <1>1, <2>2, <2>3, <3>3, <3>4, InsertOthers
    <3> QED
      BY <1>2, <2>4, <2>6, <3>5 DEF newest
  <2> QED
    BY <2>7, <2>8
<1>10. ASSUME UNCHANGED <<pipeVars, decVars, imginfoque_, objects>>,
              scheduler \notin {"put", "insert"}, scheduler' \notin {"put", "insert"}
       PROVE  Consecutive(c, Line(c), newest)'
  BY <1>3, <1>10 DEF pipeVars, decVars, Pending, Stored, Filling, Decoded, Inserted, Carried
<1>11. CASE ScheduleLoop \/ AwaitTask
  BY <1>10, <1>11 DEF ScheduleLoop, AwaitTask, SchedulerAt, decodingVars
<1>12. CASE Show \/ AnnounceShow
  BY <1>10, <1>12 DEF Show, AnnounceShow, SchedulerAt, decodingVars
<1>13. CASE CacheWait
  BY <1>10, <1>13, NextPipeTypes DEF CacheWait, decodingVars
<1>14. CASE CreateScheduler
  <2>1. Created
    BY DEF PipeInv
  <2> QED
    BY <1>10, <1>14, <2>1 DEF CreateScheduler, Created
<1>15. ASSUME UNCHANGED <<pipeVars, decVars, schedVars>>
       PROVE  Consecutive(c, Line(c), newest)'
  BY <1>3, <1>15 DEF schedVars, pipeVars, decVars, Pending, Stored, Filling, Decoded,
                     Inserted, Carried
<1>16. CASE DisplayStep
  BY <1>15, <1>16 DEF DisplayStep, DisplayLoop, AwaitShow, Draw, decodingVars
<1>17. CASE Interrupt \/ PostAll \/ JoinAll
  BY <1>15, <1>17 DEF Interrupt, PostAll, JoinAll
<1>18. CASE UNCHANGED vars
  BY <1>15, <1>18 DEF vars, decodingVars
<1> QED
  BY <1>4, <1>6, <1>7, <1>8, <1>9, <1>11, <1>12, <1>13, <1>14, <1>16, <1>17, <1>18
  DEF Next, SchedulerStep

-----------------------------------------------------------------------------
(* The turn of the channels.                                               *)

LEMMA InTurnAppend ==
  ASSUME NEW s \in Seq(Frames), NEW e \in Frames, InTurn(s),
         s # <<>> => e.channel = Successor(s[Len(s)].channel)
  PROVE  /\ InTurn(Join(s, <<e>>))
         /\ Join(s, <<e>>) # <<>>
         /\ Join(s, <<e>>)[Len(Join(s, <<e>>))] = e
<1> DEFINE t == Join(s, <<e>>)
<1>1. /\ Len(s) \in Nat /\ Len(t) = Len(s) + 1
      /\ \A i \in 1..Len(s) : t[i] = s[i]
      /\ t[Len(s) + 1] = e
  BY DEF Join
<1>2. s = <<>> \/ Len(s) > 0
  BY EmptySeq
<1> HIDE DEF t
<1>3. ASSUME NEW i \in 1..(Len(t) - 1)
      PROVE  t[i + 1].channel = Successor(t[i].channel)
  <2>1. CASE i < Len(s)
    <3>1. i \in 1..(Len(s) - 1) /\ i \in 1..Len(s) /\ i + 1 \in 1..Len(s)
      BY <2>1, <1>1
    <3> QED
      BY <3>1, <1>1 DEF InTurn
  <2>2. CASE i = Len(s)
    <3>1. s # <<>> /\ i \in 1..Len(s)
      BY <2>2, <1>1
    <3> QED
      BY <3>1, <2>2, <1>1
  <2> QED
    BY <2>1, <2>2, <1>1
<1>4. t # <<>> /\ t[Len(t)] = e
  BY <1>1
<1> QED
  BY <1>3, <1>4 DEF InTurn, t

LEMMA InTurnForget ==
  ASSUME NEW s \in Seq(Frames), NEW t \in Seq(Frames), InTurn(Join(s, t))
  PROVE  InTurn(t)
<1> DEFINE all == Join(s, t)
<1>1. /\ Len(s) \in Nat /\ Len(t) \in Nat /\ Len(all) = Len(s) + Len(t)
      /\ \A i \in 1..Len(t) : all[Len(s) + i] = t[i]
  BY JoinAt
<1>2. InTurn(all)
  OBVIOUS
<1> HIDE DEF all
<1>3. ASSUME NEW i \in 1..(Len(t) - 1)
      PROVE  t[i + 1].channel = Successor(t[i].channel)
  <2>1. /\ Len(s) + i \in 1..(Len(all) - 1)
        /\ i \in 1..Len(t) /\ i + 1 \in 1..Len(t) /\ (Len(s) + i) + 1 = Len(s) + (i + 1)
    BY <1>1
  <2>2. all[Len(s) + i] = t[i] /\ all[Len(s) + (i + 1)] = t[i + 1]
    BY <2>1, <1>1
  <2> QED
    BY <2>1, <2>2, <1>2 DEF InTurn
<1> QED
  BY <1>3 DEF InTurn

LEMMA TurnInit == Init => Turn
<1> SUFFICES ASSUME Init PROVE Turn
  OBVIOUS
<1>1. Inserted = <<>>
  <2>1. Images(<<>>) = <<>>
    BY DEF Images
  <2> QED
    BY <2>1 DEF Init, Inserted
<1>2. Given = <<>>
  BY <1>1 DEF Init, Given, Join
<1> QED
  BY <1>1, <1>2 DEF Turn, InTurn

LEMMA TurnNext == PipeInv /\ Turn /\ [Next]_vars => Turn'
<1> SUFFICES ASSUME PipeInv, Turn, [Next]_vars PROVE Turn'
  OBVIOUS
<1> DEFINE Newest(s) == s[Len(s)]
           In == Inserted
           one == <<frame>>
<1>1. /\ DecodingInv /\ SchedulerTypes /\ Loading
      /\ In \in Seq(Frames)
      /\ channel \in Channels
  BY InsertedIs DEF PipeInv, SchedulerTypes
<1>2. /\ InTurn(Given)
      /\ In # <<>> =>
           IF scheduler \in {"show", "postshow", "cache"}
             THEN channel = Newest(In).channel
             ELSE channel = Successor(Newest(In).channel)
  BY DEF Turn
<1>3. scheduler \notin {"put", "insert"} => Given = In
  <2> HIDE DEF In
  <2>1. Join(In, <<>>) = In
    BY <1>1, JoinEmpty
  <2> QED
    BY <2>1 DEF Given, In
<1>4. scheduler \in {"put", "insert"} =>
        Given = Join(In, one) /\ frame \in Frames /\ frame.channel = channel
  BY <1>1 DEF Given, Loading, PicturesOf, Frames
<1>5. ASSUME UNCHANGED <<imginfoque_, objects, channel>>,
             scheduler \notin {"put", "insert", "show", "postshow", "cache"},
             scheduler' \notin {"put", "insert", "show", "postshow", "cache"}
      PROVE  Turn'
  BY <1>5, <1>2 DEF Turn, Given, Inserted
<1>6. ASSUME UNCHANGED <<imginfoque_, objects, channel, scheduler, frame>>
      PROVE  Turn'
  BY <1>6, <1>2 DEF Turn, Given, Inserted
<1>7. ASSUME NEW d \in Channels, Decoder(d) PROVE Turn'
  BY <1>6, <1>7 DEF Decoder, schedVars
<1>8. CASE ScheduleLoop \/ AwaitTask
  BY <1>5, <1>8 DEF ScheduleLoop, AwaitTask, SchedulerAt
<1>9. CASE LoadFrame
  <2> DEFINE b == Head(outPipe[channel])
             e == imgbuf[b]
  <2>1. /\ scheduler = "load" /\ scheduler' = "put" /\ outPipe[channel] # <<>>
        /\ outPipe' = [outPipe EXCEPT ![channel] = Tail(outPipe[channel])]
        /\ frame' = e
        /\ UNCHANGED <<mainVars, inPipe, imgbuf, decVars, channel, imginfoque_, objects>>
    BY <1>9 DEF LoadFrame, SchedulerAt
  <2>2. e \in Frames /\ e.channel = channel
    <3>1. imgbuf[b] \in PicturesOf(channel)
      BY <1>1, <2>1, TakeFront
    <3> QED
      BY <3>1, <1>1 DEF PicturesOf, Frames
  <2>3. In' = In /\ Given' = Join(In, <<e>>)
    BY <2>1 DEF Given, Inserted
  <2> HIDE DEF e, In
  <2>4. InTurn(In) /\ (In # <<>> => e.channel = Successor(Newest(In).channel))
    BY <1>2, <1>3, <2>1, <2>2
  <2>5. InTurn(Join(In, <<e>>))
    BY <1>1, <2>2, <2>4, InTurnAppend
  <2> QED
    BY <1>2, <2>1, <2>3, <2>5 DEF Turn, In, InTurn
<1>10. CASE PutFrame
  <2>1. /\ scheduler = "put" /\ scheduler' = "insert"
        /\ UNCHANGED <<channel, frame, imginfoque_, objects>>
    BY <1>10 DEF PutFrame, SchedulerAt
  <2> QED
    BY <1>2, <2>1 DEF Turn, Given, Inserted
<1>11. scheduler = "insert" =>
         /\ InTurn(Join(In, one)) /\ Join(In, one) # <<>>
         /\ Newest(Join(In, one)) = frame
  <2> HIDE DEF In
  <2>1. ASSUME scheduler = "insert"
        PROVE  /\ frame \in Frames /\ In \in Seq(Frames)
               /\ Given = Join(In, one)
               /\ In # <<>> => frame.channel = Successor(In[Len(In)].channel)
    BY <2>1, <1>1, <1>2, <1>4
  <2>2. ASSUME scheduler = "insert" PROVE InTurn(In)
    <3>1. InTurn(Join(In, one)) /\ one \in Seq(Frames) /\ Len(one) = 1
      BY <1>2, <2>1, <2>2
    <3>2. /\ Len(Join(In, one)) = Len(In) + 1 /\ Len(In) \in Nat
          /\ \A i \in 1..Len(In) : Join(In, one)[i] = In[i]
      <4>1. In \in Seq(Frames) /\ one \in Seq(Frames)
        BY <1>1, <3>1
      <4> HIDE DEF one
      <4>2. /\ Len(Join(In, one)) = Len(In) + Len(one) /\ Len(In) \in Nat
            /\ \A i \in 1..Len(In) : Join(In, one)[i] = In[i]
        BY <4>1, JoinAt
      <4> QED
        BY <3>1, <4>2
    <3>3. ASSUME NEW i \in 1..(Len(In) - 1)
          PROVE  In[i + 1].channel = Successor(In[i].channel)
      <4>1. /\ i \in 1..(Len(Join(In, one)) - 1)
            /\ i \in 1..Len(In) /\ i + 1 \in 1..Len(In)
        BY <3>2
      <4> HIDE DEF one
      <4> QED
        BY <3>1, <3>2, <4>1 DEF InTurn
    <3> QED
      BY <3>3 DEF InTurn
  <2> QED
    BY <2>1, <2>2, InTurnAppend
<1>12. CASE InsertImage
  <2>1. /\ scheduler = "insert" /\ scheduler' \in {"load", "loop"}
        /\ channel' = Successor(channel)
    BY <1>12, NextPipeTypes DEF InsertImage
  <2>2. In' = Join(In, one)
    BY <1>12, InsertedGrows
  <2>3. Given' = In'
    <3>1. Join(In, one) \in Seq(Frames)
      <4>1. one \in Seq(Frames)
        BY <1>4, <2>1
      <4> HIDE DEF In, one
      <4> QED
        BY <4>1, <1>1, JoinType
    <3> DEFINE new == In'
    <3>2. new \in Seq(Frames) /\ Given' = Join(new, <<>>)
      BY <3>1, <2>1, <2>2 DEF Given
    <3> HIDE DEF new
    <3> QED
      BY <3>2, JoinEmpty DEF new
  <2> QED
    BY <1>4, <1>11, <2>1, <2>2, <2>3 DEF Turn, InTurn, Successor
<1>13. CASE InsertImageGet
  <2> DEFINE iq == Images(imginfoque_)
             io == Images(objects)
             new == Join(iq, one)
  <2>1. /\ scheduler = "insert" /\ scheduler' \in {"load", "loop", "show"}
        /\ IF scheduler' = "show" THEN channel' = channel
                                  ELSE channel' = Successor(channel)
    BY <1>13, NextPipeTypes DEF InsertImageGet
  <2>2. /\ In' = new /\ In = Join(io, iq)
        /\ iq \in Seq(Frames) /\ io \in Seq(Frames) /\ one \in Seq(Frames)
    BY <1>1, <1>4, <1>13, <2>1, InsertedMoves, InsertedIs
  <2>3. Join(Join(io, iq), one) = Join(io, new) /\ new \in Seq(Frames)
    <3> HIDE DEF io, iq, one
    <3> QED
      BY <2>2, JoinAssociative, JoinType
  <2>4. InTurn(new)
    <3>1. InTurn(Join(io, new))
      BY <1>11, <2>1, <2>2, <2>3
    <3> HIDE DEF io, new
    <3> QED
      BY <2>2, <2>3, <3>1, InTurnForget
  <2>5. new # <<>> /\ Newest(new) = frame
    <3> HIDE DEF iq
    <3>1. /\ Len(new) = Len(iq) + 1 /\ Len(iq) \in Nat
          /\ new[Len(iq) + 1] = frame
      BY <2>2 DEF Join
    <3> QED
      BY <3>1
  <2>6. Given' = In'
    <3> DEFINE after == In'
    <3>1. after \in Seq(Frames) /\ Given' = Join(after, <<>>)
      BY <2>1, <2>2, <2>3 DEF Given
    <3> HIDE DEF after
    <3> QED
      BY <3>1, JoinEmpty DEF after
  <2> HIDE DEF new
  <2> QED
    BY <1>4, <2>1, <2>2, <2>4, <2>5, <2>6 DEF Turn, InTurn, Successor
<1>14. CASE Show \/ AnnounceShow
  <2>1. /\ scheduler \in {"show", "postshow"} /\ scheduler' \in {"postshow", "cache"}
        /\ UNCHANGED <<channel, imginfoque_, objects>>
    BY <1>14 DEF Show, AnnounceShow, SchedulerAt
  <2> QED
    BY <1>2, <2>1 DEF Turn, Given, Inserted
<1>15. CASE CacheWait
  <2>1. /\ scheduler = "cache" /\ scheduler' \in {"load", "loop"}
        /\ channel' = Successor(channel)
        /\ UNCHANGED <<imginfoque_, objects>>
    BY <1>15, NextPipeTypes DEF CacheWait
  <2> QED
    BY <1>2, <2>1 DEF Turn, Given, Inserted, Successor
<1>16. CASE CreateScheduler
  <2>1. Created
    BY DEF PipeInv
  <2> QED
    BY <1>5, <1>16, <2>1 DEF CreateScheduler, Created
<1>17. CASE DisplayStep
  BY <1>6, <1>17 DEF DisplayStep, DisplayLoop, AwaitShow, Draw, schedVars
<1>18. CASE Interrupt \/ PostAll \/ JoinAll
  BY <1>6, <1>18 DEF Interrupt, PostAll, JoinAll, schedVars
<1>19. CASE UNCHANGED vars
  BY <1>6, <1>19 DEF vars, schedVars
<1> QED
  BY <1>7, <1>8, <1>9, <1>10, <1>12, <1>13, <1>14, <1>15, <1>16, <1>17, <1>18, <1>19
  DEF Next, SchedulerStep

-----------------------------------------------------------------------------
(* The display's batches and their tokens.                                 *)

ShowOnly == ShowTypes /\ CacheBound /\ ShowTokens

LEMMA ShowInit == Init => ShowOnly
<1> SUFFICES ASSUME Init PROVE ShowOnly
  OBVIOUS
<1>1. /\ gresultque = <<>> /\ g_semtshow = 0 /\ scheduler = "none" /\ channel = 1
      /\ display = IF FLAGS_show THEN "loop" ELSE "done"
  BY DEF Init
<1>2. Len(gresultque) = 0 /\ SEM_VALUE_MAX \in Nat
  BY <1>1, DecodingAssumption
<1> QED
  BY <1>1, <1>2 DEF ShowOnly, ShowTypes, CacheBound, ShowTokens, One

\* Steps that leave the display's queue, its token and its thread alone.
LEMMA ShowOther ==
  ASSUME PipeInv, ShowOnly, UNCHANGED showVars,
         UNCHANGED <<grunning, mainPc, channel>>,
         \/ UNCHANGED scheduler
         \/ /\ {scheduler, scheduler'} \subseteq
                 {"none", "semwait", "load", "put", "insert", "show"}
         \/ {scheduler, scheduler'} \subseteq {"loop", "done"}
  PROVE  ShowOnly'
<1>1. ShowTypes'
  BY DEF ShowOnly, ShowTypes, showVars
<1>2. CacheBound'
  BY DEF ShowOnly, CacheBound, showVars
<1>3. ShowTokens'
  BY DEF ShowOnly, ShowTokens, showVars, One
<1> QED
  BY <1>1, <1>2, <1>3 DEF ShowOnly

LEMMA ShowNext == PipeInv /\ ShowOnly /\ [Next]_vars => ShowOnly'
<1> SUFFICES ASSUME PipeInv, ShowOnly, [Next]_vars PROVE ShowOnly'
  OBVIOUS
<1>1. /\ channel \in 1..FLAGS_c /\ FLAGS_c \in Nat \ {0}
      /\ SEM_VALUE_MAX \in Nat /\ FLAGS_c < SEM_VALUE_MAX
      /\ grunning \in BOOLEAN
      /\ objects \in Seq(Told)
      /\ scheduler \in {"none", "loop", "semwait", "load", "put", "insert", "show",
                        "postshow", "cache", "done"}
  BY DecodingAssumption, PipelineAssumption
  DEF PipeInv, SchedulerTypes, Channels, DecodingInv, DecodingTypeOK
<1>2. ShowTypes /\ CacheBound /\ ShowTokens /\ Created
  BY DEF ShowOnly, PipeInv
<1>3. /\ gresultque \in Seq(Seq(Told)) /\ Len(gresultque) \in Nat
      /\ g_semtshow \in 0..SEM_VALUE_MAX
      /\ display \in {"loop", "semwait", "draw", "done"}
  BY <1>2, LenProperties DEF ShowTypes
<1>4. ASSUME NEW d \in Channels, Decoder(d) PROVE ShowOnly'
  BY <1>4, ShowOther DEF Decoder, DecoderStep, DecoderExit, Decode, VppFails, Fill,
     StoreFrame, Announce, mainVars, schedVars
<1>5. CASE ScheduleLoop
  <2>1. /\ scheduler = "loop" /\ scheduler' = (IF grunning THEN "semwait" ELSE "done")
        /\ UNCHANGED <<showVars, grunning, mainPc, channel>>
    BY <1>5 DEF ScheduleLoop, SchedulerAt, decodingVars, mainVars
  <2>2. ShowTypes' /\ CacheBound'
    BY <1>1, <1>2, <1>3, <2>1 DEF ShowTypes, CacheBound, showVars
  <2>3. ShowTokens'
    BY <1>2, <2>1 DEF ShowTokens, showVars, One
  <2> QED
    BY <2>2, <2>3 DEF ShowOnly
<1>6. CASE AwaitTask
  BY <1>6, ShowOther DEF AwaitTask, SchedulerAt
<1>7. CASE LoadFrame
  BY <1>7, ShowOther DEF LoadFrame, SchedulerAt, mainVars
<1>8. CASE PutFrame
  BY <1>8, ShowOther DEF PutFrame, SchedulerAt, mainVars
\* The end of the visit to a pipe.
<1>9. ASSUME NextPipe, UNCHANGED <<decodingVars, showVars>>,
             scheduler \in {"insert", "cache"}, scheduler = "cache" => ~CacheFull
      PROVE  ShowOnly'
  <2>1. /\ IF channel < FLAGS_c THEN scheduler' = "load" /\ channel' = channel + 1
                                ELSE scheduler' = "loop" /\ channel' = 1
        /\ UNCHANGED <<grunning, mainPc, gresultque, g_semtshow, display>>
        /\ scheduler = "cache" => (Len(gresultque) <= 1 \/ ~grunning)
    BY <1>9, <1>3 DEF NextPipe, decodingVars, mainVars, showVars, CacheFull
  <2>2. ShowTypes' /\ CacheBound'
    BY <1>1, <1>2, <1>3, <1>9, <2>1 DEF ShowTypes, CacheBound
  <2>3. ShowTokens'
    BY <1>2, <1>9, <2>1 DEF ShowTokens, One
  <2> QED
    BY <2>2, <2>3 DEF ShowOnly
<1>10. CASE InsertImage
  BY <1>9, <1>10 DEF InsertImage
<1>11. CASE InsertImageGet
  <2>1. UNCHANGED <<decodingVars, showVars>> /\ scheduler = "insert"
    BY <1>11 DEF InsertImageGet
  <2>2. CASE NextPipe
    BY <1>9, <2>1, <2>2
  <2>3. CASE scheduler' = "show" /\ UNCHANGED channel
    BY <2>1, <2>3, ShowOther DEF decodingVars, mainVars
  <2> QED
    BY <1>11, <2>2, <2>3 DEF InsertImageGet
<1>12. CASE Show
  <2>1. /\ scheduler = "show" /\ scheduler' = "postshow"
        /\ gresultque' = Append(gresultque, objects)
        /\ UNCHANGED <<grunning, mainPc, channel, g_semtshow, display>>
    BY <1>12 DEF Show, SchedulerAt, decodingVars, mainVars
  <2>2. gresultque' \in Seq(Seq(Told)) /\ Len(gresultque') = Len(gresultque) + 1
    BY <1>1, <1>3, <2>1, AppendProperties
  <2>3. ShowTypes' /\ CacheBound'
    BY <1>1, <1>2, <1>3, <2>1, <2>2 DEF ShowTypes, CacheBound
  <2>4. ShowTokens'
    BY <1>2, <1>3, <2>1, <2>2 DEF ShowTokens, One
  <2> QED
    BY <2>3, <2>4 DEF ShowOnly
<1>13. CASE AnnounceShow
  <2>1. /\ scheduler = "postshow" /\ scheduler' = "cache"
        /\ g_semtshow' = IF g_semtshow < SEM_VALUE_MAX THEN g_semtshow + 1 ELSE g_semtshow
        /\ UNCHANGED <<grunning, mainPc, channel, gresultque, display>>
    BY <1>13 DEF AnnounceShow, SchedulerAt, decodingVars, mainVars, Posted
  <2>2. ShowTypes' /\ CacheBound'
    BY <1>1, <1>2, <1>3, <2>1 DEF ShowTypes, CacheBound
  \* The queue is far shorter than the semaphore's limit.
  <2>3. Len(gresultque) <= FLAGS_c + 1
    BY <1>1, <1>2, <1>3, <2>1 DEF CacheBound
  <2>4. ShowTokens'
    BY <1>1, <1>2, <1>3, <2>1, <2>3 DEF ShowTokens, One
  <2> QED
    BY <2>2, <2>4 DEF ShowOnly
<1>14. CASE CacheWait
  BY <1>9, <1>14 DEF CacheWait
<1>15. CASE DisplayLoop
  <2>1. /\ display = "loop" /\ display' \in {"semwait", "done"}
        /\ UNCHANGED <<grunning, mainPc, channel, scheduler, gresultque, g_semtshow>>
    BY <1>15 DEF DisplayLoop, decodingVars, mainVars, schedVars
  <2> QED
    BY <1>2, <2>1 DEF ShowOnly, ShowTypes, CacheBound, ShowTokens, One
<1>16. CASE AwaitShow
  <2>1. /\ display = "semwait" /\ display' = "draw"
        /\ g_semtshow > 0 /\ g_semtshow' = g_semtshow - 1
        /\ UNCHANGED <<grunning, mainPc, channel, scheduler, gresultque>>
    BY <1>16 DEF AwaitShow, decodingVars, mainVars, schedVars
  <2>2. ShowTypes' /\ CacheBound'
    BY <1>1, <1>2, <1>3, <2>1 DEF ShowTypes, CacheBound
  <2>3. ShowTokens'
    BY <1>2, <1>3, <2>1 DEF ShowTokens, One
  <2> QED
    BY <2>2, <2>3 DEF ShowOnly
<1>17. CASE Draw
  <2>1. /\ display = "draw" /\ display' = "loop"
        /\ gresultque' = IF gresultque = <<>> THEN <<>> ELSE Tail(gresultque)
        /\ UNCHANGED <<grunning, mainPc, channel, scheduler, g_semtshow>>
    BY <1>17 DEF Draw, decodingVars, mainVars, schedVars
  <2>2. /\ gresultque' \in Seq(Seq(Told))
        /\ Len(gresultque') = IF gresultque = <<>> THEN 0 ELSE Len(gresultque) - 1
        /\ gresultque = <<>> <=> Len(gresultque) = 0
    BY <1>3, <2>1, EmptySeq, HeadTailProperties
  <2>3. ShowTypes' /\ CacheBound'
    BY <1>1, <1>2, <1>3, <2>1, <2>2 DEF ShowTypes, CacheBound
  \* The token it took was that of a batch.
  <2>4. ShowTokens'
    BY <1>2, <1>3, <2>1, <2>2 DEF ShowTokens, One
  <2> QED
    BY <2>3, <2>4 DEF ShowOnly
<1>18. CASE CreateScheduler
  <2>1. /\ scheduler = "none" /\ scheduler' = "loop" /\ mainPc' = "pause"
        /\ mainPc = "creating" /\ UNCHANGED <<grunning, channel, showVars>>
    BY <1>2, <1>18 DEF CreateScheduler, Created
  <2>2. ShowTypes' /\ CacheBound'
    BY <1>1, <1>2, <1>3, <2>1 DEF ShowTypes, CacheBound, showVars
  <2>3. ShowTokens'
    BY <1>2, <2>1 DEF ShowTokens, One, showVars
  <2> QED
    BY <2>2, <2>3 DEF ShowOnly
<1>19. CASE Interrupt
  <2>1. /\ grunning' = FALSE /\ mainPc = "pause" /\ mainPc' \in {"pause", "posting"}
        /\ UNCHANGED <<scheduler, channel, gresultque, g_semtshow, display>>
    BY <1>19 DEF Interrupt, schedVars, showVars
  <2>2. ShowTypes' /\ CacheBound'
    BY <1>1, <1>2, <1>3, <2>1 DEF ShowTypes, CacheBound
  <2>3. ShowTokens'
    BY <1>2, <2>1 DEF ShowTokens, One
  <2> QED
    BY <2>2, <2>3 DEF ShowOnly
<1>20. CASE PostAll
  <2>1. /\ mainPc' = "joining"
        /\ g_semtshow' = IF g_semtshow < SEM_VALUE_MAX THEN g_semtshow + 1 ELSE g_semtshow
        /\ UNCHANGED <<grunning, scheduler, channel, gresultque, display>>
    BY <1>20 DEF PostAll, schedVars, Posted
  <2>2. ShowTypes' /\ CacheBound'
    BY <1>1, <1>2, <1>3, <2>1 DEF ShowTypes, CacheBound
  <2> QED
    BY <2>1, <2>2 DEF ShowOnly, ShowTokens
<1>21. CASE JoinAll
  <2>1. /\ mainPc' = "terminated"
        /\ UNCHANGED <<grunning, scheduler, channel, showVars>>
    BY <1>21 DEF JoinAll, schedVars
  <2> QED
    BY <1>2, <2>1 DEF ShowOnly, ShowTypes, CacheBound, ShowTokens, showVars
<1>22. CASE UNCHANGED vars
  BY <1>22, ShowOther DEF vars, decodingVars, mainVars, schedVars
<1> QED
  BY <1>4, <1>5, <1>6, <1>7, <1>8, <1>10, <1>11, <1>12, <1>13, <1>14, <1>15, <1>16, <1>17,
     <1>18, <1>19, <1>20, <1>21, <1>22 DEF Next, SchedulerStep, DisplayStep

-----------------------------------------------------------------------------
(* The channel the detector was told.                                      *)

LEMMA ChannelInit == Init => ChannelRight
BY DEF Init, ChannelRight

LEMMA ChannelNext == PipeInv /\ ChannelRight /\ [Next]_vars => ChannelRight'
<1> SUFFICES ASSUME PipeInv, ChannelRight, [Next]_vars PROVE ChannelRight'
  OBVIOUS
<1> DEFINE que == Append(imginfoque_, Described)
           Right(q) == \A i \in DOMAIN q : q[i].inputid = q[i].image.channel
<1>1. imginfoque_ \in Seq(Told) /\ Len(imginfoque_) \in Nat
  BY LenProperties DEF PipeInv, SchedulerTypes
<1>2. ASSUME scheduler = "insert"
      PROVE  que \in Seq(Told) /\ Len(que) = Len(imginfoque_) + 1 /\ Right(que)
  <2>1. /\ Described \in Told
        /\ Described.inputid = Described.image.channel
    BY <1>2, DescribedType
  <2>2. /\ que \in Seq(Told) /\ Len(que) = Len(imginfoque_) + 1
        /\ \A i \in 1..Len(imginfoque_) : que[i] = imginfoque_[i]
        /\ que[Len(imginfoque_) + 1] = Described
    BY <1>1, <2>1, AppendProperties
  <2>3. DOMAIN que = 1..(Len(imginfoque_) + 1) /\ DOMAIN imginfoque_ = 1..Len(imginfoque_)
    BY <1>1, <2>2, LenProperties
  <2> HIDE DEF que
  <2> QED
    BY <1>1, <2>1, <2>2, <2>3 DEF ChannelRight
<1>3. CASE UNCHANGED imginfoque_
  BY <1>3 DEF ChannelRight
<1>4. CASE InsertImage
  BY <1>2, <1>4 DEF InsertImage, ChannelRight
<1>5. CASE InsertImageGet
  <2>1. /\ scheduler = "insert" /\ Len(que) = 2 * FLAGS_batch
        /\ imginfoque_' = SubSeq(que, FLAGS_batch + 1, Len(que))
    BY <1>2, <1>5 DEF InsertImageGet
  <2>2. que \in Seq(Told) /\ Right(que) /\ FLAGS_batch \in Nat
    BY <1>2, <2>1, PipelineAssumption
  <2> HIDE DEF que
  <2>3. ASSUME NEW i \in DOMAIN imginfoque_'
        PROVE  /\ i + FLAGS_batch \in DOMAIN que
               /\ imginfoque_'[i] = que[i + FLAGS_batch]
    <3> DEFINE rest == SubSeq(que, FLAGS_batch + 1, Len(que))
    <3>1. /\ Len(rest) = FLAGS_batch
          /\ \A k \in 1..FLAGS_batch : rest[k] = que[FLAGS_batch + k]
          /\ rest \in Seq(Told)
      <4>1. Len(que) = 2 * FLAGS_batch /\ que \in Seq(Told) /\ FLAGS_batch \in Nat
        BY <2>1, <2>2
      <4>2. \A k \in 1..Len(que) : que[k] \in Told
        BY <4>1, ElementOfSeq
      <4> DEFINE first == FLAGS_batch + 1
                 last == Len(que)
      <4>3. /\ first \in Int /\ last \in Int
            /\ \A k \in first..last : que[k] \in Told
        BY <4>1, <4>2
      <4>4. /\ rest \in Seq(Told)
            /\ Len(rest) = IF first =< last THEN last - first + 1 ELSE 0
            /\ \A k \in 1..(last - first + 1) : rest[k] = que[first + k - 1]
        <5> HIDE DEF first, last
        <5>1. rest = SubSeq(que, first, last)
          BY DEF first, last
        <5> HIDE DEF rest
        <5> QED
          BY <4>3, <5>1, SubSeqProperties
      <4> HIDE DEF rest
      <4>5. /\ FLAGS_batch >= 1
            /\ last - first + 1 = FLAGS_batch
            /\ \A k \in Int : first + k - 1 = FLAGS_batch + k
        BY <4>1, PipelineAssumption
      <4> QED
        BY <4>1, <4>4, <4>5
    <3>2. DOMAIN rest = 1..FLAGS_batch /\ DOMAIN que = 1..(2 * FLAGS_batch)
      BY <2>1, <2>2, <3>1, LenProperties
    <3>3. imginfoque_' = rest
      BY <2>1
    <3> HIDE DEF rest
    <3> QED
      BY <2>2, <2>3, <3>1, <3>2, <3>3
  <2> QED
    BY <2>2, <2>3 DEF ChannelRight
<1>6. CASE \E d \in Channels : Decoder(d)
  BY <1>3, <1>6 DEF Decoder, schedVars
<1>7. CASE ScheduleLoop \/ AwaitTask \/ LoadFrame \/ PutFrame
  BY <1>3, <1>7 DEF ScheduleLoop, AwaitTask, LoadFrame, PutFrame
<1>8. CASE Show \/ AnnounceShow \/ CacheWait
  BY <1>3, <1>8 DEF Show, AnnounceShow, CacheWait
<1>9. CASE DisplayStep
  BY <1>3, <1>9 DEF DisplayStep, DisplayLoop, AwaitShow, Draw, schedVars
<1>10. CASE CreateScheduler \/ Interrupt \/ PostAll \/ JoinAll
  BY <1>3, <1>10 DEF CreateScheduler, Interrupt, PostAll, JoinAll, schedVars
<1>11. CASE UNCHANGED vars
  BY <1>3, <1>11 DEF vars, schedVars
<1> QED
  BY <1>4, <1>5, <1>6, <1>7, <1>8, <1>9, <1>10, <1>11 DEF Next, SchedulerStep

-----------------------------------------------------------------------------
(* The theorems.                                                           *)

(* The types of what the threads share, and where each thread can be: the  *)
(* detector is only told of channels that exist, and no buffer number runs *)
(* out of the pipes.                                                       *)
THEOREM PipelineTypes == Spec => []TypeOK
<1>1. PipeInv /\ ShowOnly => TypeOK
  <2> SUFFICES ASSUME PipeInv, ShowOnly PROVE TypeOK
    OBVIOUS
  <2>1. DecodingTypeOK /\ SchedulerTypes /\ ShowTypes
    BY DEF PipeInv, ShowOnly, DecodingInv
  <2>2. Told \subseteq Descriptions
    BY DEF Told, Descriptions, Channels
  <2>3. Seq(Told) \subseteq Seq(Descriptions)
    BY <2>2, SeqMonotonic
  <2>4. Seq(Seq(Told)) \subseteq Seq(Seq(Descriptions))
    BY <2>3, SeqMonotonic
  <2> QED
    BY <2>1, <2>3, <2>4 DEF TypeOK, SchedulerTypes, ShowTypes
<1> QED
  BY PipeInit, PipeNext, ShowInit, ShowNext, <1>1, PTL DEF Spec

(* From the last reported batch back to the decoder no frame of a channel  *)
(* is lost, doubled, overtaken, or overwritten in its buffer, for any      *)
(* number of channels, buffers and images per batch.                       *)
THEOREM FramesKeepOrder == Spec => []FramesInOrder
BY PipeInit, PipeNext, OrderInit, OrderNext, PTL DEF Spec

(* Blocking in Load on one pipe after the other gives the detector one     *)
(* picture of every channel in turn, whatever the decoders do.             *)
THEOREM ChannelsTakeTurns == Spec => []ChannelsInTurn
<1>1. PipeInv /\ Turn => ChannelsInTurn
  <2> SUFFICES ASSUME PipeInv, Turn PROVE ChannelsInTurn
    OBVIOUS
  <2> DEFINE tip == IF scheduler \in {"put", "insert"} THEN <<frame>> ELSE <<>>
             given == Join(Inserted, tip)
  <2>1. Inserted \in Seq(Frames) /\ tip \in Seq(Frames)
    <3>1. scheduler \in {"put", "insert"} => frame \in Frames
      BY DEF PipeInv, SchedulerTypes, Loading, PicturesOf, Frames
    <3> QED
      BY <3>1, InsertedIs DEF PipeInv
  <2>2. InTurn(given) /\ Given = given
    BY DEF Turn, Given
  <2>3. given \in Seq(Frames)
    <3> HIDE DEF tip
    <3> QED
      BY <2>1, JoinType
  <2> HIDE DEF given
  <2>4. ASSUME NEW i \in 1..(Len(given) - 1)
        PROVE  given[i + 1].channel = (given[i].channel % FLAGS_c) + 1
    <3>1. given[i].channel \in 1..FLAGS_c /\ FLAGS_c \in Nat
      <4>1. i \in 1..Len(given)
        BY <2>3
      <4>2. given[i] \in Frames
        BY <2>3, <4>1
      <4> QED
        BY <4>2, DecodingAssumption DEF Frames, Channels
    <3>2. \A k \in 1..FLAGS_c : (k % FLAGS_c) + 1 = Successor(k)
      BY <3>1 DEF Successor
    <3> QED
      BY <2>2, <3>1, <3>2 DEF InTurn
  <2> QED
    BY <2>4 DEF ChannelsInTurn, given, Join
<1> QED
  BY PipeInit, PipeNext, TurnInit, TurnNext, <1>1, PTL DEF Spec

(* srcframe is read after Put: the number may by then be another frame's,  *)
(* but the channel is always that of the picture.                          *)
THEOREM ChannelStaysRight == Spec => []ChannelRight
BY PipeInit, PipeNext, ChannelInit, ChannelNext, PTL DEF Spec

(* Until Ctrl-C has been handled, as many tokens as batches: g_semtshow,   *)
(* far from its limit because the scheduler waits for the display, counts  *)
(* what gresultque holds.                                                  *)
THEOREM TokensMatch == Spec => []ShowTokens
<1>1. ShowOnly => ShowTokens
  BY DEF ShowOnly
<1> QED
  BY PipeInit, PipeNext, ShowInit, ShowNext, <1>1, PTL DEF Spec

-----------------------------------------------------------------------------
(* The contract of every pipe.                                             *)

LEMMA PoolsInit == Init => \A c \in Channels : Pool(c)!PoolInit
<1> SUFFICES ASSUME Init, NEW c \in Channels PROVE Pool(c)!PoolInit
  OBVIOUS
<1>1. DecodingInv
  BY DecodingInitInv DEF Init
<1>2. ToSet(inPipe[c]) \subseteq Own(c)
  BY <1>1 DEF DecodingInv, Owned, ToSet
<1>3. outPipe[c] = <<>> /\ decframe[c] = NoBuffer /\ scheduler = "none"
  BY DEF Init, DecodingInit
<1>4. [p \in {c} |-> decframe[p]] = [p \in {c} |-> NoBuffer]
  BY <1>3
<1> QED
  BY <1>2, <1>3, <1>4 DEF Pool!PoolInit

\* The buffer of pipe c that the scheduler has loaded and not put back.
Loaned(c) == IF scheduler = "put" /\ channel = c THEN {srcframe} ELSE {}

LEMMA PoolsStep ==
  PipeInv /\ [Next]_vars => \A c \in Channels : [Pool(c)!PoolNext]_(Pool(c)!poolVars)
<1> SUFFICES ASSUME PipeInv, [Next]_vars, NEW c \in Channels
             PROVE  [Pool(c)!PoolNext]_(Pool(c)!poolVars)
  OBVIOUS
<1>1. /\ DecodingInv /\ DecodingTypeOK /\ Owned(c) /\ SchedulerTypes /\ Loading
  BY DEF PipeInv, DecodingInv
<1>2. ASSUME inPipe'[c] = inPipe[c], outPipe'[c] = outPipe[c],
             decframe'[c] = decframe[c], Loaned(c)' = Loaned(c)
      PROVE  UNCHANGED Pool(c)!poolVars
  <2>1. ToSet(inPipe[c])' = ToSet(inPipe[c])
    BY <1>2 DEF ToSet
  <2>2. [p \in {c} |-> decframe[p]]' = [p \in {c} |-> decframe[p]]
    BY <1>2
  <2> QED
    BY <1>2, <2>1, <2>2 DEF Pool!poolVars, Loaned
<1>3. ASSUME NEW d \in Channels, Decoder(d)
      PROVE  [Pool(c)!PoolNext]_(Pool(c)!poolVars)
  <2>1. DecoderStep(d) /\ Loaned(c)' = Loaned(c)
    BY <1>3 DEF Decoder, schedVars, Loaned
  <2>2. CASE /\ inPipe'[c] = inPipe[c] /\ outPipe'[c] = outPipe[c]
             /\ decframe'[c] = decframe[c]
    BY <1>2, <2>1, <2>2
  <2>3. ASSUME NEW b \in ToSet(inPipe[c]),
               decframe[c] = NoBuffer, decframe'[c] = b,
               ToSet(inPipe'[c]) = ToSet(inPipe[c]) \ {b}, outPipe'[c] = outPipe[c]
        PROVE  Pool(c)!PoolNext
    <3>1. ToSet(inPipe[c])' = ToSet(inPipe[c]) \ {b}
      BY <2>3 DEF ToSet
    <3>2. [p \in {c} |-> decframe[p]]' = [[p \in {c} |-> decframe[p]] EXCEPT ![c] = b]
      BY <2>3
    <3>3. Pool(c)!Acquire(c)
      BY <2>1, <2>3, <3>1, <3>2 DEF Pool!Acquire, Loaned
    <3> QED
      BY <3>3 DEF Pool!PoolNext
  <2>4. ASSUME decframe[c] # NoBuffer, decframe'[c] = NoBuffer,
               outPipe'[c] = Append(outPipe[c], decframe[c]), inPipe'[c] = inPipe[c]
        PROVE  Pool(c)!PoolNext
    <3>1. ToSet(inPipe[c])' = ToSet(inPipe[c])
      BY <2>4 DEF ToSet
    <3>2. [p \in {c} |-> decframe[p]]' =
            [[p \in {c} |-> decframe[p]] EXCEPT ![c] = NoBuffer]
      BY <2>4
    <3>3. Pool(c)!Publish(c)
      BY <2>1, <2>4, <3>1, <3>2 DEF Pool!Publish, Loaned
    <3> QED
      BY <3>3 DEF Pool!PoolNext
  <2> QED
    BY <1>1, <2>1, <2>2, <2>3, <2>4, DecoderMoves
<1>4. CASE LoadFrame
  <2>1. /\ scheduler = "load" /\ scheduler' = "put" /\ outPipe[channel] # <<>>
        /\ srcframe' = Head(outPipe[channel])
        /\ outPipe' = [outPipe EXCEPT ![channel] = Tail(outPipe[channel])]
        /\ inPipe' = inPipe /\ decframe' = decframe /\ channel' = channel
    BY <1>4 DEF LoadFrame, SchedulerAt, decVars
  <2>2. CASE channel = c
    <3>1. /\ Loaned(c) = {} /\ Loaned(c)' = {Head(outPipe[c])}
          /\ outPipe'[c] = Tail(outPipe[c]) /\ outPipe[c] # <<>>
      BY <1>1, <2>1, <2>2 DEF Loaned, DecodingTypeOK
    <3>2. ToSet(inPipe[c])' = ToSet(inPipe[c])
      BY <2>1 DEF ToSet
    <3>3. [p \in {c} |-> decframe[p]]' = [p \in {c} |-> decframe[p]]
      BY <2>1
    <3>4. Pool(c)!Deliver
      BY <3>1, <3>2, <3>3 DEF Pool!Deliver, Loaned
    <3> QED
      BY <3>4 DEF Pool!PoolNext
  <2>3. CASE channel # c
    <3>1. outPipe'[c] = outPipe[c] /\ Loaned(c)' = Loaned(c)
      BY <1>1, <2>1, <2>3 DEF Loaned, DecodingTypeOK
    <3> QED
      BY <1>2, <2>1, <3>1
  <2> QED
    BY <2>2, <2>3
<1>5. CASE PutFrame
  <2>1. /\ scheduler = "put" /\ scheduler' = "insert"
        /\ inPipe' = [inPipe EXCEPT ![channel] = Cons(srcframe, inPipe[channel])]
        /\ UNCHANGED <<outPipe, decframe, channel, srcframe>>
    BY <1>5 DEF PutFrame, SchedulerAt, decVars
  <2>2. CASE channel = c
    <3>1. /\ srcframe \in Own(c) /\ Loaned(c) = {srcframe} /\ Loaned(c)' = {}
          /\ inPipe'[c] = Cons(srcframe, inPipe[c]) /\ inPipe[c] \in Seq(Own(c))
      BY <1>1, <2>1, <2>2 DEF Loaned, Loading, Owned, DecodingTypeOK
    <3>2. ToSet(inPipe'[c]) = ToSet(inPipe[c]) \cup {srcframe}
      BY <3>1, PushFront
    <3>3. ToSet(inPipe[c])' = ToSet(inPipe[c]) \cup {srcframe}
      BY <3>2 DEF ToSet
    <3>4. [p \in {c} |-> decframe[p]]' = [p \in {c} |-> decframe[p]]
      BY <2>1
    <3>5. Pool(c)!GiveBack(srcframe)
      BY <2>1, <3>1, <3>3, <3>4 DEF Pool!GiveBack, Loaned
    <3> QED
      BY <3>1, <3>5 DEF Pool!PoolNext
  <2>3. CASE channel # c
    <3>1. inPipe'[c] = inPipe[c] /\ Loaned(c)' = Loaned(c)
      BY <1>1, <2>1, <2>3 DEF Loaned, DecodingTypeOK
    <3> QED
      BY <1>2, <2>1, <3>1
  <2> QED
    BY <2>2, <2>3
\* Elsewhere the scheduler has no buffer.
<1>6. ASSUME UNCHANGED <<inPipe, outPipe, decframe>>,
             \/ UNCHANGED <<scheduler, channel, srcframe>>
             \/ scheduler # "put" /\ scheduler' # "put"
      PROVE  UNCHANGED Pool(c)!poolVars
  BY <1>2, <1>6 DEF Loaned
<1>7. CASE ScheduleLoop \/ AwaitTask
  BY <1>6, <1>7 DEF ScheduleLoop, AwaitTask, SchedulerAt, decodingVars, pipeVars, decVars
<1>8. CASE InsertImage \/ InsertImageGet \/ CacheWait
  BY <1>6, <1>8 DEF InsertImage, InsertImageGet, CacheWait, NextPipe, decodingVars,
     pipeVars, decVars
<1>9. CASE Show \/ AnnounceShow
  BY <1>6, <1>9 DEF Show, AnnounceShow, SchedulerAt, decodingVars, pipeVars, decVars
<1>10. CASE DisplayStep
  BY <1>6, <1>10 DEF DisplayStep, DisplayLoop, AwaitShow, Draw, schedVars, decodingVars,
     pipeVars, decVars
<1>11. CASE CreateScheduler
  BY <1>6, <1>11 DEF CreateScheduler, PipeInv, Created, pipeVars, decVars
<1>12. CASE Interrupt \/ PostAll \/ JoinAll
  BY <1>6, <1>12 DEF Interrupt, PostAll, JoinAll, schedVars, pipeVars, decVars
<1>13. CASE UNCHANGED vars
  BY <1>6, <1>13 DEF vars, schedVars, decodingVars, pipeVars, decVars
<1> QED
  BY <1>3, <1>4, <1>5, <1>7, <1>8, <1>9, <1>10, <1>11, <1>12, <1>13 DEF Next, SchedulerStep

(* The four threads' steps are, seen from each pipe, those of a pool of    *)
(* exclusively owned buffers: the contract that DualPipe implements is     *)
(* kept by its callers, through startup and shutdown, on every channel.    *)
THEOREM PoolsKeepContract == Spec => PoolsUsed
BY PipeInit, PipeNext, PoolsInit, PoolsStep, PTL DEF Spec, PoolsUsed
=============================================================================

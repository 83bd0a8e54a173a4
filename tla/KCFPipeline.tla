----------------------------- MODULE KCFPipeline -----------------------------
(***************************************************************************)
(* main.cpp built with TEST_KCF_TRACK_WITH_GPU (and without ENABLE_WORK-   *)
(* LOAD_BALANCE): every decoded frame goes to the tracking thread of its   *)
(* channel, every KeyInterval-th one also to the detector, and the tracker *)
(* waits at such a key frame for the boxes found in it.                    *)
(*                                                                         *)
(* The pipes are used by their contract (BufferPool); since nobody reads a *)
(* buffer that was given back but the scheduler, for the two numbers of    *)
(* Pipeline, only the number of idle buffers is kept.  The detector is in  *)
(* synchronous mode (SetMode(false)).  Threads have been created, and      *)
(* nobody presses Ctrl-C: see Pipeline for both.  The display queue, to    *)
(* which a tracker adds every frame without ever waiting, is left out.     *)
(*                                                                         *)
(* Bound: frames are counted modulo FrameCycle.                            *)
(***************************************************************************)
EXTENDS Integers, SequencesExt

CONSTANTS FLAGS_c,       \* number of channels
          FLAGS_batch,   \* images per batch of the detector
          KeyInterval,   \* distance of key frames (6)
          NumBuffers,    \* buffers of each dpipe (100)
          NumKCFBuffers, \* buffers of each dKCFpipe (20)
          NumSurfaces,   \* surfaces a channel decodes into
          FrameCycle,    \* frames are counted modulo this
          SEM_VALUE_MAX  \* where a semaphore stops counting

ASSUME KCFAssumption ==
  /\ FLAGS_c \in Nat \ {0}
  /\ FLAGS_batch \in Nat \ {0}
  /\ KeyInterval \in Nat \ {0}
  /\ NumBuffers \in Nat \ {0}
  /\ NumKCFBuffers \in Nat \ {0}
  /\ NumSurfaces \in Nat \ {0}
  /\ FrameCycle \in Nat \ {0}
  /\ FrameCycle % KeyInterval = 0
  /\ SEM_VALUE_MAX \in Nat \ {0}

Channels == 1..FLAGS_c
Surfaces == 1..NumSurfaces
FrameNos == 0..(FrameCycle - 1)

\* A picture is named by its channel and number; a surface or buffer nothing
\* was written to has number 0 of channel 0.
Pictures  == [channel : Channels, frameno : FrameNos]
NoPicture == [channel |-> 0, frameno |-> 0]
IsKey(n)  == n % KeyInterval = 0

\* What the decoder writes to a buffer of dKCFpipe.
Tracks  == [bROIRrefresh : BOOLEAN, pmfxSurface : Surfaces]
NoTrack == [bROIRrefresh |-> FALSE, pmfxSurface |-> 0]

VARIABLES
  \* decoding threads, per channel
  decoder,      \* where it is
  nFrame,       \* number of the frame it decodes, or decodes next
  nIndexVPP_In, \* the surface with the frame
  Locked,       \* per surface: lock count
  surface,      \* per surface: the picture in it
  \* pipe to the tracker, per channel
  kcfIdle,      \* number of idle buffers
  kcfOut,       \* stored buffers, oldest first
  gNewTrackTaskAvaiable, \* semaphore
  \* pipe to the scheduler, per channel
  idle,         \* number of idle buffers
  out,          \* pictures in stored buffers, oldest first
  gNewtaskAvaiable,      \* semaphore of the scheduler
  \* scheduler
  scheduler,    \* where it is
  channel,      \* the channel whose pipe it visits
  frame,        \* the picture it copied
  imginfoque_,  \* the batch being filled, oldest first
  objects,      \* results to be delivered, oldest first
  \* results, per channel
  gDetectResultque,      \* results for the tracker, oldest first
  gDetectResultAvaiable, \* semaphore
  \* trackers, per channel
  tracker,      \* where it is
  srcframe,     \* the buffer it works on
  targets,      \* where its targets come from: the picture with the boxes,
                \* and the picture KCFTracker::init was given
  skiptrack     \* no target was found

decVars   == <<decoder, nFrame, nIndexVPP_In, Locked, surface>>
kcfVars   == <<kcfIdle, kcfOut, gNewTrackTaskAvaiable>>
pipeVars  == <<idle, out, gNewtaskAvaiable>>
schedVars == <<scheduler, channel, frame, imginfoque_, objects>>
resVars   == <<gDetectResultque, gDetectResultAvaiable>>
trackVars == <<tracker, srcframe, targets, skiptrack>>
vars == <<decVars, kcfVars, pipeVars, schedVars, resVars, trackVars>>

PerChannel(x) == [c \in Channels |-> x]

Init ==
  /\ decoder = PerChannel("decode")
  /\ nFrame = PerChannel(0)
  /\ nIndexVPP_In = PerChannel(0)
  /\ Locked = PerChannel([s \in Surfaces |-> 0])
  /\ surface = PerChannel([s \in Surfaces |-> NoPicture])
  /\ kcfIdle = PerChannel(NumKCFBuffers)
  /\ kcfOut = PerChannel(<<>>)
  /\ gNewTrackTaskAvaiable = PerChannel(0)
  /\ idle = PerChannel(NumBuffers)
  /\ out = PerChannel(<<>>)
  /\ gNewtaskAvaiable = 0
  /\ scheduler = "semwait"
  /\ channel = 1
  /\ frame = NoPicture
  /\ imginfoque_ = <<>>
  /\ objects = <<>>
  /\ gDetectResultque = PerChannel(<<>>)
  /\ gDetectResultAvaiable = PerChannel(0)
  /\ tracker = PerChannel("semwait")
  /\ srcframe = PerChannel(NoTrack)
  /\ targets = PerChannel([boxes |-> NoPicture, template |-> NoPicture])
  /\ skiptrack = PerChannel(FALSE)

Posted(sem) == IF sem < SEM_VALUE_MAX THEN sem + 1 ELSE sem

-----------------------------------------------------------------------------
(* Decoding thread.                                                        *)
DecoderAt(c, here, there) ==
  /\ decoder[c] = here
  /\ decoder' = [decoder EXCEPT ![c] = there]

FreeSurfaces(c) == {s \in Surfaces : Locked[c][s] = 0}

(* GetFreeSurfaceIndex, polled while all are locked, and DecodeFrameAsync. *)
Decode(c) ==
  /\ FreeSurfaces(c) # {}
  /\ DecoderAt(c, "decode", "kcfget")
  /\ LET s == Min(FreeSurfaces(c)) IN
       /\ nIndexVPP_In' = [nIndexVPP_In EXCEPT ![c] = s]
       /\ surface' = [surface EXCEPT ![c][s] =
                        [channel |-> c, frameno |-> nFrame[c]]]
  /\ UNCHANGED <<nFrame, Locked, kcfVars, pipeVars, schedVars, resVars, trackVars>>

\* Faulty: the surface is not locked.
GetUnlocked(c) ==
  /\ kcfIdle[c] > 0
  /\ DecoderAt(c, "kcfget", "kcfstore")
  /\ kcfIdle' = [kcfIdle EXCEPT ![c] = @ - 1]
  /\ UNCHANGED <<nFrame, nIndexVPP_In, Locked, surface, kcfOut,
                 gNewTrackTaskAvaiable, pipeVars, schedVars, resVars, trackVars>>

(* dKCFpipe->Get, polled while it is empty; the surface is locked.         *)
GetTrack(c) ==
  /\ kcfIdle[c] > 0
  /\ DecoderAt(c, "kcfget", "kcfstore")
  /\ kcfIdle' = [kcfIdle EXCEPT ![c] = @ - 1]
  /\ Locked' = [Locked EXCEPT ![c][nIndexVPP_In[c]] = @ + 1]
  /\ UNCHANGED <<nFrame, nIndexVPP_In, surface, kcfOut, gNewTrackTaskAvaiable,
                 pipeVars, schedVars, resVars, trackVars>>

StoreTrack(c) ==
  /\ DecoderAt(c, "kcfstore", "kcfpost")
  /\ kcfOut' = [kcfOut EXCEPT ![c] =
                  Append(@, [bROIRrefresh |-> IsKey(nFrame[c]),
                             pmfxSurface |-> nIndexVPP_In[c]])]
  /\ UNCHANGED <<nFrame, nIndexVPP_In, Locked, surface, kcfIdle,
                 gNewTrackTaskAvaiable, pipeVars, schedVars, resVars, trackVars>>

NextFrame(c) == nFrame' = [nFrame EXCEPT ![c] = (@ + 1) % FrameCycle]

(* sem_post(&gNewTrackTaskAvaiable); only key frames go to the detector.   *)
AnnounceTrack(c) ==
  /\ IF IsKey(nFrame[c])
       THEN DecoderAt(c, "kcfpost", "get") /\ UNCHANGED nFrame
       ELSE DecoderAt(c, "kcfpost", "decode") /\ NextFrame(c)
  /\ gNewTrackTaskAvaiable' = [gNewTrackTaskAvaiable EXCEPT ![c] = Posted(@)]
  /\ UNCHANGED <<nIndexVPP_In, Locked, surface, kcfIdle, kcfOut, pipeVars,
                 schedVars, resVars, trackVars>>

(* dpipe->Get, polled while it is empty.                                   *)
GetFrame(c) ==
  /\ idle[c] > 0
  /\ DecoderAt(c, "get", "store")
  /\ idle' = [idle EXCEPT ![c] = @ - 1]
  /\ UNCHANGED <<nFrame, nIndexVPP_In, Locked, surface, kcfVars, out,
                 gNewtaskAvaiable, schedVars, resVars, trackVars>>

(* The buffer holds a copy of the surface, made by VPP.                    *)
StoreFrame(c) ==
  /\ DecoderAt(c, "store", "post")
  /\ out' = [out EXCEPT ![c] = Append(@, surface[c][nIndexVPP_In[c]])]
  /\ UNCHANGED <<nFrame, nIndexVPP_In, Locked, surface, kcfVars, idle,
                 gNewtaskAvaiable, schedVars, resVars, trackVars>>

Announce(c) ==
  /\ DecoderAt(c, "post", "decode")
  /\ gNewtaskAvaiable' = Posted(gNewtaskAvaiable)
  /\ NextFrame(c)
  /\ UNCHANGED <<nIndexVPP_In, Locked, surface, kcfVars, idle, out, schedVars,
                 resVars, trackVars>>

-----------------------------------------------------------------------------
(* Scheduler.                                                              *)
NextPipe ==
  /\ frame' = NoPicture
  /\ IF channel < FLAGS_c
       THEN scheduler' = "load" /\ channel' = channel + 1
       ELSE scheduler' = "semwait" /\ channel' = 1

AwaitTask ==
  /\ scheduler = "semwait"
  /\ gNewtaskAvaiable > 0
  /\ scheduler' = "load"
  /\ gNewtaskAvaiable' = gNewtaskAvaiable - 1
  /\ UNCHANGED <<decVars, kcfVars, idle, out, channel, frame, imginfoque_,
                 objects, resVars, trackVars>>

(* Load(NULL), which blocks while the pipe is empty, and createMat.        *)
LoadFrame ==
  /\ scheduler = "load"
  /\ out[channel] # <<>>
  /\ scheduler' = "put"
  /\ frame' = Head(out[channel])
  /\ out' = [out EXCEPT ![channel] = Tail(@)]
  /\ UNCHANGED <<decVars, kcfVars, idle, gNewtaskAvaiable, channel,
                 imginfoque_, objects, resVars, trackVars>>

PutFrame ==
  /\ scheduler = "put"
  /\ scheduler' = "insert"
  /\ idle' = [idle EXCEPT ![channel] = @ + 1]
  /\ UNCHANGED <<decVars, kcfVars, out, gNewtaskAvaiable, channel, frame,
                 imginfoque_, objects, resVars, trackVars>>

(* INSERTIMG_INSERTED, or, for a full batch, its results.                  *)
InsertImage ==
  /\ scheduler = "insert"
  /\ IF Len(imginfoque_) + 1 < FLAGS_batch
       THEN /\ imginfoque_' = Append(imginfoque_, frame)
            /\ NextPipe
            /\ UNCHANGED objects
       ELSE /\ imginfoque_' = <<>>
            /\ objects' = Append(imginfoque_, frame)
            /\ scheduler' = "result"
            /\ frame' = NoPicture
            /\ UNCHANGED channel
  /\ UNCHANGED <<decVars, kcfVars, pipeVars, resVars, trackVars>>

\* InsertImage was not told a channelid: its default is the first channel.
ResultChannel == 1

\* Faulty: a result without boxes is not pushed.
PushSome ==
  /\ scheduler = "result"
  /\ scheduler' = "postresult"
  /\ \/ gDetectResultque' =
          [gDetectResultque EXCEPT ![ResultChannel] = Append(@, Head(objects))]
     \/ UNCHANGED gDetectResultque
  /\ UNCHANGED <<decVars, kcfVars, pipeVars, channel, frame, imginfoque_,
                 objects, gDetectResultAvaiable, trackVars>>

PushResult ==
  /\ scheduler = "result"
  /\ scheduler' = "postresult"
  /\ gDetectResultque' =
       [gDetectResultque EXCEPT ![ResultChannel] = Append(@, Head(objects))]
  /\ UNCHANGED <<decVars, kcfVars, pipeVars, channel, frame, imginfoque_,
                 objects, gDetectResultAvaiable, trackVars>>

\* Faulty: one post for the whole batch.
PostBatch ==
  /\ scheduler = "postresult"
  /\ gDetectResultAvaiable' =
       IF Len(objects) = 1
         THEN [gDetectResultAvaiable EXCEPT ![ResultChannel] = Posted(@)]
         ELSE gDetectResultAvaiable
  /\ objects' = Tail(objects)
  /\ IF Len(objects) = 1 THEN NextPipe
                         ELSE scheduler' = "result" /\ UNCHANGED <<channel, frame>>
  /\ UNCHANGED <<decVars, kcfVars, pipeVars, imginfoque_, gDetectResultque,
                 trackVars>>

PostResult ==
  /\ scheduler = "postresult"
  /\ gDetectResultAvaiable' =
       [gDetectResultAvaiable EXCEPT ![ResultChannel] = Posted(@)]
  /\ objects' = Tail(objects)
  /\ IF Len(objects) = 1 THEN NextPipe
                         ELSE scheduler' = "result" /\ UNCHANGED <<channel, frame>>
  /\ UNCHANGED <<decVars, kcfVars, pipeVars, imginfoque_, gDetectResultque,
                 trackVars>>

-----------------------------------------------------------------------------
(* Tracking thread.  Its inner loop never ends, because Load(NULL) never   *)
(* returns NULL: of all its tokens it uses one.                            *)
TrackerAt(c, here, there) ==
  /\ tracker[c] = here
  /\ tracker' = [tracker EXCEPT ![c] = there]

AwaitTrack(c) ==
  /\ gNewTrackTaskAvaiable[c] > 0
  /\ TrackerAt(c, "semwait", "load")
  /\ gNewTrackTaskAvaiable' = [gNewTrackTaskAvaiable EXCEPT ![c] = @ - 1]
  /\ UNCHANGED <<decVars, kcfIdle, kcfOut, pipeVars, schedVars, resVars,
                 srcframe, targets, skiptrack>>

LoadTrack(c) ==
  /\ kcfOut[c] # <<>>
  /\ TrackerAt(c, "load", IF Head(kcfOut[c]).bROIRrefresh THEN "await" ELSE "update")
  /\ srcframe' = [srcframe EXCEPT ![c] = Head(kcfOut[c])]
  /\ kcfOut' = [kcfOut EXCEPT ![c] = Tail(@)]
  /\ UNCHANGED <<decVars, kcfIdle, gNewTrackTaskAvaiable, pipeVars, schedVars,
                 resVars, targets, skiptrack>>

AwaitResult(c) ==
  /\ gDetectResultAvaiable[c] > 0
  /\ TrackerAt(c, "await", "init")
  /\ gDetectResultAvaiable' = [gDetectResultAvaiable EXCEPT ![c] = @ - 1]
  /\ UNCHANGED <<decVars, kcfVars, pipeVars, schedVars, gDetectResultque,
                 srcframe, targets, skiptrack>>

\* The picture the tracker looks at.
Seen(c) == surface[c][srcframe[c].pmfxSurface]

\* Faulty: the newest result.
InitNewest(c) ==
  /\ TrackerAt(c, "init", "unlock")
  /\ IF gDetectResultque[c] = <<>>
       THEN UNCHANGED <<gDetectResultque, targets, skiptrack>>
       ELSE /\ gDetectResultque' = [gDetectResultque EXCEPT ![c] = Front(@)]
            /\ targets' = [targets EXCEPT ![c] =
                 [boxes |-> Last(gDetectResultque[c]), template |-> Seen(c)]]
            /\ skiptrack' = [skiptrack EXCEPT ![c] = FALSE]
  /\ UNCHANGED <<decVars, kcfVars, pipeVars, schedVars, gDetectResultAvaiable,
                 srcframe>>

(* A key frame: its boxes, if any, become the tracker's targets.           *)
InitTargets(c) ==
  /\ TrackerAt(c, "init", "unlock")
  /\ IF gDetectResultque[c] = <<>>
       THEN UNCHANGED <<gDetectResultque, targets, skiptrack>>
       ELSE /\ gDetectResultque' = [gDetectResultque EXCEPT ![c] = Tail(@)]
            /\ \/ /\ targets' = [targets EXCEPT ![c] =
                       [boxes |-> Head(gDetectResultque[c]), template |-> Seen(c)]]
                  /\ skiptrack' = [skiptrack EXCEPT ![c] = FALSE]
               \/ /\ skiptrack' = [skiptrack EXCEPT ![c] = TRUE]
                  /\ UNCHANGED targets
  /\ UNCHANGED <<decVars, kcfVars, pipeVars, schedVars, gDetectResultAvaiable,
                 srcframe>>

(* Any other frame: the targets are followed unless there are none.        *)
Update(c) ==
  /\ TrackerAt(c, "update", "unlock")
  /\ UNCHANGED <<decVars, kcfVars, pipeVars, schedVars, resVars, srcframe,
                 targets, skiptrack>>

(* The frame is copied for display and its surface unlocked.               *)
Unlock(c) ==
  /\ TrackerAt(c, "unlock", "put")
  /\ Locked' = [Locked EXCEPT ![c][srcframe[c].pmfxSurface] = @ - 1]
  /\ UNCHANGED <<decoder, nFrame, nIndexVPP_In, surface, kcfVars, pipeVars,
                 schedVars, resVars, srcframe, targets, skiptrack>>

PutTrack(c) ==
  /\ TrackerAt(c, "put", "load")
  /\ kcfIdle' = [kcfIdle EXCEPT ![c] = @ + 1]
  /\ srcframe' = [srcframe EXCEPT ![c] = NoTrack]
  /\ UNCHANGED <<decVars, kcfOut, gNewTrackTaskAvaiable, pipeVars, schedVars,
                 resVars, targets, skiptrack>>

-----------------------------------------------------------------------------
DecoderStep(c) ==
  \/ Decode(c) \/ GetTrack(c) \/ StoreTrack(c) \/ AnnounceTrack(c)
  \/ GetFrame(c) \/ StoreFrame(c) \/ Announce(c)

SchedulerStep ==
  \/ AwaitTask \/ LoadFrame \/ PutFrame \/ InsertImage
  \/ PushResult \/ PostResult

TrackerStep(c) ==
  \/ AwaitTrack(c) \/ LoadTrack(c) \/ AwaitResult(c) \/ InitTargets(c)
  \/ Update(c) \/ Unlock(c) \/ PutTrack(c)

Next ==
  \/ \E c \in Channels : DecoderStep(c) \/ TrackerStep(c)
  \/ SchedulerStep

Spec == Init /\ [][Next]_vars

(* Every thread is scheduled, and streams do not end.                      *)
Fairness ==
  /\ \A c \in Channels : WF_vars(DecoderStep(c)) /\ WF_vars(TrackerStep(c))
  /\ WF_vars(SchedulerStep)

FairSpec == Spec /\ Fairness

-----------------------------------------------------------------------------
TypeOK ==
  /\ decoder \in [Channels -> {"decode", "kcfget", "kcfstore", "kcfpost", "get",
                              "store", "post"}]
  /\ nFrame \in [Channels -> FrameNos]
  /\ nIndexVPP_In \in [Channels -> Surfaces \cup {0}]
  /\ Locked \in [Channels -> [Surfaces -> {0, 1}]]
  /\ surface \in [Channels -> [Surfaces -> Pictures \cup {NoPicture}]]
  /\ kcfIdle \in [Channels -> 0..NumKCFBuffers]
  /\ kcfOut \in [Channels -> Seq(Tracks)]
  /\ gNewTrackTaskAvaiable \in [Channels -> 0..SEM_VALUE_MAX]
  /\ idle \in [Channels -> 0..NumBuffers]
  /\ out \in [Channels -> Seq(Pictures)]
  /\ gNewtaskAvaiable \in 0..SEM_VALUE_MAX
  /\ scheduler \in {"semwait", "load", "put", "insert", "result", "postresult"}
  /\ channel \in Channels
  /\ frame \in Pictures \cup {NoPicture}
  /\ imginfoque_ \in Seq(Pictures)
  /\ objects \in Seq(Pictures)
  /\ gDetectResultque \in [Channels -> Seq(Pictures)]
  /\ gDetectResultAvaiable \in [Channels -> 0..SEM_VALUE_MAX]
  /\ tracker \in [Channels -> {"semwait", "load", "await", "init", "update",
                              "unlock", "put"}]
  /\ srcframe \in [Channels -> Tracks \cup {NoTrack}]
  /\ targets \in [Channels -> [boxes : Pictures \cup {NoPicture},
                               template : Pictures \cup {NoPicture}]]
  /\ skiptrack \in [Channels -> BOOLEAN]

(* The frames the tracker of a channel has to look at, oldest first: in    *)
(* its hands, in its pipe, and in the decoder's.                           *)
ToTrack(c) ==
  (IF tracker[c] \in {"await", "init", "update", "unlock"} THEN <<srcframe[c]>>
                                                          ELSE <<>>)
    \o kcfOut[c]
    \o (IF decoder[c] = "kcfstore"
          THEN <<[bROIRrefresh |-> IsKey(nFrame[c]),
                  pmfxSurface |-> nIndexVPP_In[c]]>> ELSE <<>>)

\* The last frame the decoder has begun to hand over.
LastNo(c) == IF decoder[c] \in {"decode", "kcfget"}
               THEN (nFrame[c] + FrameCycle - 1) % FrameCycle ELSE nFrame[c]

(* Locking keeps the decoder away from a surface until the tracker has     *)
(* seen it: the tracker looks at every frame once, in order, key frames as *)
(* key frames, although it only has pointers to surfaces.                  *)
FramesIntact ==
  \A c \in Channels :
    LET t == ToTrack(c) IN
      \A i \in DOMAIN t :
        LET picture == surface[c][t[i].pmfxSurface] IN
          /\ picture.channel = c
          /\ (picture.frameno + Len(t) - i) % FrameCycle = LastNo(c)
          /\ t[i].bROIRrefresh = IsKey(picture.frameno)

(* The pictures are those of the key frames among the tracks, in the same  *)
(* order: the k-th of them is the one that the track at[k] refers to.      *)
PicturesOfKeys(pictures, tracks, seen) ==
  \E at \in [DOMAIN pictures -> DOMAIN tracks] :
    /\ \A j, k \in DOMAIN pictures : j < k => at[j] < at[k]
    /\ \A i \in DOMAIN tracks :
         tracks[i].bROIRrefresh <=> \E k \in DOMAIN pictures : at[k] = i
    /\ \A k \in DOMAIN pictures : pictures[k] = seen[tracks[at[k]].pmfxSurface]

\* The frames whose boxes the tracker has not looked at yet.
Waiting(c) == IF tracker[c] = "unlock" THEN Tail(ToTrack(c)) ELSE ToTrack(c)

\* Pictures on their way through dpipe, scheduler, detector and result queue.
Coming(c) ==
  gDetectResultque[c]
    \o (IF scheduler = "postresult" THEN Tail(objects) ELSE objects)
    \o imginfoque_
    \o (IF scheduler \in {"put", "insert"} THEN <<frame>> ELSE <<>>)
    \o out[c]
    \o (IF /\ IsKey(nFrame[c])
           /\ decoder[c] \in {"kcfstore", "kcfpost", "get", "store"}
          THEN <<surface[c][nIndexVPP_In[c]]>> ELSE <<>>)

(* The key frames the tracker still has to find boxes for are exactly the  *)
(* pictures on their way to the result queue, in the same order: two paths *)
(* from the decoder to the tracker that nothing but their order keeps      *)
(* together.  (One channel.)                                               *)
KeyFramesAnswered == PicturesOfKeys(Coming(1), Waiting(1), surface[1])

(* "inform the queue of the channelid": targets are set up in the picture  *)
(* their boxes were found in.                                              *)
TargetsMatch ==
  \A c \in Channels : targets[c].boxes = targets[c].template

(* The tracker, once it has a token for a result, finds the result: the    *)
(* test gDetectResultque.empty(), made without a lock, never fails.        *)
ResultThere ==
  \A c \in Channels :
    gDetectResultAvaiable[c] + (IF tracker[c] = "init" THEN 1 ELSE 0)
      <= Len(gDetectResultque[c])

(* A frame that was handed over is tracked: decoder, scheduler and tracker *)
(* do not wait for each other, although the tracker keeps its buffers      *)
(* while it waits for the results of a whole batch of key frames.          *)
FrameTracked ==
  \A c \in Channels : kcfOut[c] # <<>> ~> tracker[c] = "put"
=============================================================================

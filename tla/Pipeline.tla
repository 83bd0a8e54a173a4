------------------------------ MODULE Pipeline ------------------------------
(***************************************************************************)
(* main.cpp in its default build (no ENABLE_WORKLOAD_BALANCE, no KCF): the *)
(* decoding threads (Decoding), the scheduler, which also runs the         *)
(* detector, the display thread, and the main thread that starts and stops *)
(* them.  The detector is used by its contract (BatchService, which        *)
(* Detector implements): in asynchronous mode a batch is reported when the *)
(* next one is full.                                                       *)
(***************************************************************************)
EXTENDS Decoding

CONSTANTS FLAGS_batch,    \* images per batch
          FLAGS_show      \* whether there is a display thread

ASSUME PipelineAssumption ==
  /\ FLAGS_batch \in Nat \ {0}
  /\ FLAGS_show \in BOOLEAN
  /\ FLAGS_c < SEM_VALUE_MAX  \* a handful of channels; 2^31 - 1

VARIABLES
  scheduler,        \* where the scheduler is
  channel,          \* the channel whose pipe it visits, or visits next
  srcframe,         \* the buffer it points to, also after Put
  frame,            \* the picture it copied out of the buffer
  imginfoque_,      \* pictures in the detector, with what it was told of them
  objects,          \* the batch the detector reported last
  gresultque,       \* batches to show
  g_semtshow,       \* semaphore: batches to show
  display           \* where the display thread is

schedVars == <<scheduler, channel, srcframe, frame, imginfoque_, objects>>
showVars  == <<gresultque, g_semtshow, display>>
vars == <<decodingVars, schedVars, showVars>>

-----------------------------------------------------------------------------
Init ==
  /\ DecodingInit
  /\ scheduler = "none"
  /\ channel = 1
  /\ srcframe = NoBuffer
  /\ frame = Unfilled
  /\ imginfoque_ = <<>>
  /\ objects = <<>>
  /\ gresultque = <<>>
  /\ g_semtshow = 0
  /\ display = IF FLAGS_show THEN "loop" ELSE "done"

-----------------------------------------------------------------------------
(* Scheduler.                                                              *)
SchedulerAt(here, there) == scheduler = here /\ scheduler' = there

\* Faulty: one pipe too many.
NextPipeTooFar ==
  /\ srcframe' = NoBuffer
  /\ frame' = Unfilled
  /\ IF channel <= FLAGS_c
       THEN scheduler' = "load" /\ channel' = channel + 1
       ELSE scheduler' = "loop" /\ channel' = 1

\* The end of the body of the loop over the pipes, where srcframe and frame
\* go out of scope.
NextPipe ==
  /\ srcframe' = NoBuffer
  /\ frame' = Unfilled
  /\ IF channel < FLAGS_c
       THEN scheduler' = "load" /\ channel' = channel + 1
       ELSE scheduler' = "loop" /\ channel' = 1

ScheduleLoop ==
  /\ SchedulerAt("loop", IF grunning THEN "semwait" ELSE "done")
  /\ UNCHANGED <<decodingVars, channel, srcframe, frame, imginfoque_,
                 objects, showVars>>

(* One token, after which every pipe is visited once.                      *)
AwaitTask ==
  /\ gNewtaskAvaiable > 0
  /\ SchedulerAt("semwait", "load")
  /\ gNewtaskAvaiable' = gNewtaskAvaiable - 1
  /\ UNCHANGED <<grunning, mainPc, early, pipeVars, decVars, channel,
                 srcframe, frame, imginfoque_, objects, showVars>>

\* Faulty: LoadNoWait instead, which skips an empty pipe.
LoadOrSkip ==
  /\ scheduler = "load"
  /\ \/ /\ outPipe[channel] # <<>>
        /\ scheduler' = "put"
        /\ srcframe' = Head(outPipe[channel])
        /\ outPipe' = [outPipe EXCEPT ![channel] = Tail(outPipe[channel])]
        /\ frame' = imgbuf[Head(outPipe[channel])]
        /\ UNCHANGED channel
     \/ outPipe[channel] = <<>> /\ NextPipe /\ UNCHANGED outPipe
  /\ UNCHANGED <<mainVars, inPipe, imgbuf, decVars, imginfoque_, objects,
                 showVars>>

(* Load(NULL), which blocks while the pipe is empty, and createMat, which  *)
(* copies the picture.                                                     *)
LoadFrame ==
  /\ outPipe[channel] # <<>>
  /\ SchedulerAt("load", "put")
  /\ srcframe' = Head(outPipe[channel])
  /\ outPipe' = [outPipe EXCEPT ![channel] = Tail(outPipe[channel])]
  /\ frame' = imgbuf[Head(outPipe[channel])]
  /\ UNCHANGED <<mainVars, inPipe, imgbuf, decVars, channel, imginfoque_,
                 objects, showVars>>

\* Faulty: every buffer goes back to the first pipe.
PutFirstPipe ==
  /\ SchedulerAt("put", "insert")
  /\ inPipe' = [inPipe EXCEPT ![1] = Cons(srcframe, inPipe[1])]
  /\ UNCHANGED <<mainVars, outPipe, imgbuf, decVars, channel, srcframe,
                 frame, imginfoque_, objects, showVars>>

PutFrame ==
  /\ SchedulerAt("put", "insert")
  /\ inPipe' = [inPipe EXCEPT ![channel] = Cons(srcframe, inPipe[channel])]
  /\ UNCHANGED <<mainVars, outPipe, imgbuf, decVars, channel, srcframe,
                 frame, imginfoque_, objects, showVars>>

\* Faulty: a picture that refers to the buffer instead of a copy.
DescribedInPlace ==
  [image   |-> imgbuf[srcframe],
   inputid |-> imgbuf[srcframe].channel,
   frameno |-> imgbuf[srcframe].frameno]

(* InsertImage(frame, objects, srcframe->channel, srcframe->frameno): the  *)
(* arguments are read from a buffer that was given back.                   *)
Described ==
  [image   |-> frame,
   inputid |-> imgbuf[srcframe].channel,
   frameno |-> imgbuf[srcframe].frameno]

(* INSERTIMG_INSERTED: less than two full batches.                         *)
InsertImage ==
  /\ scheduler = "insert"
  /\ Len(imginfoque_) + 1 < 2 * FLAGS_batch
  /\ imginfoque_' = Append(imginfoque_, Described)
  /\ NextPipe
  /\ UNCHANGED <<decodingVars, objects, showVars>>

(* INSERTIMG_GET (some box found) or INSERTIMG_PROCESSED (none): a batch   *)
(* is reported.  It is shown in the first case only.                       *)
InsertImageGet ==
  /\ scheduler = "insert"
  /\ Len(imginfoque_) + 1 = 2 * FLAGS_batch
  /\ LET que == Append(imginfoque_, Described) IN
       /\ objects' = SubSeq(que, 1, FLAGS_batch)
       /\ imginfoque_' = SubSeq(que, FLAGS_batch + 1, Len(que))
  /\ \/ /\ FLAGS_show
        /\ scheduler' = "show"
        /\ UNCHANGED <<channel, srcframe, frame>>
     \/ NextPipe
  /\ UNCHANGED <<decodingVars, showVars>>

Show ==
  /\ SchedulerAt("show", "postshow")
  /\ gresultque' = Append(gresultque, objects)
  /\ UNCHANGED <<decodingVars, channel, srcframe, frame, imginfoque_,
                 objects, g_semtshow, display>>

AnnounceShow ==
  /\ SchedulerAt("postshow", "cache")
  /\ g_semtshow' = Posted(g_semtshow)
  /\ UNCHANGED <<decodingVars, channel, srcframe, frame, imginfoque_,
                 objects, gresultque, display>>

\* Faulty: waiting for a display that has stopped.
CacheForEver  == Len(gresultque) >= 2

(* The end of "only cache 2 batch".                                        *)
CacheFull == Len(gresultque) >= 2 /\ grunning

CacheWait ==
  /\ scheduler = "cache"
  /\ ~CacheFull
  /\ NextPipe
  /\ UNCHANGED <<decodingVars, imginfoque_, objects, showVars>>

-----------------------------------------------------------------------------
(* Display thread.                                                         *)
DisplayLoop ==
  /\ display = "loop"
  /\ display' = IF grunning THEN "semwait" ELSE "done"
  /\ UNCHANGED <<decodingVars, schedVars, gresultque, g_semtshow>>

AwaitShow ==
  /\ display = "semwait"
  /\ g_semtshow > 0
  /\ g_semtshow' = g_semtshow - 1
  /\ display' = "draw"
  /\ UNCHANGED <<decodingVars, schedVars, gresultque>>

\* Faulty: the batch stays in the queue.
DrawAndKeep ==
  /\ display = "draw"
  /\ display' = "loop"
  /\ UNCHANGED <<decodingVars, schedVars, gresultque, g_semtshow>>

(* It draws the oldest batch, if there is one.                             *)
Draw ==
  /\ display = "draw"
  /\ gresultque' = IF gresultque = <<>> THEN <<>> ELSE Tail(gresultque)
  /\ display' = "loop"
  /\ UNCHANGED <<decodingVars, schedVars, g_semtshow>>

-----------------------------------------------------------------------------
(* Main thread.                                                            *)

(* sem_init(&gNewtaskAvaiable, 0, 0), then pthread_create.                 *)
CreateScheduler ==
  /\ mainPc = "creating"
  /\ mainPc' = "pause"
  /\ gNewtaskAvaiable' = 0
  /\ scheduler' = "loop"
  /\ early' = 0
  /\ UNCHANGED <<grunning, pipeVars, decVars, channel, srcframe, frame,
                 imginfoque_, objects, showVars>>

(* Ctrl-C: the handler clears grunning, and pause returns; or pause is     *)
(* only called after the handler has run, and waits for a second Ctrl-C.   *)
Interrupt ==
  /\ mainPc = "pause"
  /\ mainPc' \in {"pause", "posting"}
  /\ grunning' = FALSE
  /\ UNCHANGED <<early, gNewtaskAvaiable, pipeVars, decVars, schedVars,
                 showVars>>

\* Faulty: the display thread is forgotten.
PostScheduler ==
  /\ mainPc = "posting"
  /\ mainPc' = "joining"
  /\ gNewtaskAvaiable' = Posted(gNewtaskAvaiable)
  /\ UNCHANGED <<grunning, early, pipeVars, decVars, schedVars, showVars>>

PostAll ==
  /\ mainPc = "posting"
  /\ mainPc' = "joining"
  /\ gNewtaskAvaiable' = Posted(gNewtaskAvaiable)
  /\ g_semtshow' = Posted(g_semtshow)
  /\ UNCHANGED <<grunning, early, pipeVars, decVars, schedVars, gresultque,
                 display>>

(* The joins return: " All thread is termined ".                           *)
JoinAll ==
  /\ mainPc = "joining"
  /\ display = "done" /\ scheduler = "done"
  /\ \A c \in Channels : DecoderEnded(c)
  /\ mainPc' = "terminated"
  /\ UNCHANGED <<grunning, early, gNewtaskAvaiable, pipeVars, decVars,
                 schedVars, showVars>>

-----------------------------------------------------------------------------
Decoder(c) == DecoderStep(c) /\ UNCHANGED <<schedVars, showVars>>

SchedulerStep ==
  \/ ScheduleLoop \/ AwaitTask \/ LoadFrame \/ PutFrame
  \/ InsertImage \/ InsertImageGet
  \/ Show \/ AnnounceShow \/ CacheWait

DisplayStep == DisplayLoop \/ AwaitShow \/ Draw

Next ==
  \/ \E c \in Channels : Decoder(c)
  \/ SchedulerStep
  \/ DisplayStep
  \/ CreateScheduler \/ Interrupt \/ PostAll \/ JoinAll

Spec == Init /\ [][Next]_vars

(* Every thread is scheduled, a stream never ends (it is rewound), and     *)
(* nobody need ever press Ctrl-C.                                          *)
Fairness ==
  /\ \A c \in Channels : WF_vars(Decoder(c))
  /\ WF_vars(SchedulerStep)
  /\ WF_vars(DisplayStep)
  /\ WF_vars(CreateScheduler)
  /\ WF_vars(PostAll)
  /\ WF_vars(JoinAll)

FairSpec == Spec /\ Fairness

-----------------------------------------------------------------------------
Descriptions == [image : Frames \cup {Unfilled}, inputid : 0..FLAGS_c,
                 frameno : FrameNos]

TypeOK ==
  /\ DecodingTypeOK
  /\ scheduler \in {"none", "loop", "semwait", "load", "put", "insert", "show",
                    "postshow", "cache", "done"}
  /\ channel \in Channels
  /\ srcframe \in Buffers \cup {NoBuffer}
  /\ frame \in Frames \cup {Unfilled}
  /\ imginfoque_ \in Seq(Descriptions)
  /\ objects \in Seq(Descriptions)
  /\ gresultque \in Seq(Seq(Descriptions))
  /\ g_semtshow \in 0..SEM_VALUE_MAX
  /\ display \in {"loop", "semwait", "draw", "done"}

(* The pictures a thread has between two stations, oldest first.           *)
Carried(c) == IF scheduler \in {"put", "insert"} /\ channel = c
                THEN <<frame>> ELSE <<>>
Images(que) == [i \in DOMAIN que |-> que[i].image]
Inserted == Images(objects) \o Images(imginfoque_)

Line(c) == (Inserted \o Carried(c)) \o Pending(c)

(* No frame of a channel is lost, doubled or overtaken: from the last      *)
(* reported batch back to the decoder its pictures bear consecutive        *)
(* numbers, and the newest is the one decoded last.  (Four threads' worth  *)
(* of queues; a buffer written while someone still reads it shows here.)   *)
FramesInOrder ==
  \A c \in Channels : Consecutive(c, Line(c), nFrameProcessed[c])

(* "Make sure all channel has the same priority" (main.cpp, of the other   *)
(* build; here by blocking): the detector is given one picture of every    *)
(* channel in turn, whatever the decoders' speeds.                         *)
ChannelsInTurn ==
  LET given == Inserted \o
                 (IF scheduler \in {"put", "insert"} THEN <<frame>> ELSE <<>>)
  IN  \A i \in 1..(Len(given) - 1) :
        given[i + 1].channel = (given[i].channel % FLAGS_c) + 1

(* The display puts a picture into its own cell, although its channel is   *)
(* read from a buffer that was given back: a buffer never changes pipe.    *)
ChannelRight ==
  \A i \in DOMAIN imginfoque_ :
    imginfoque_[i].inputid = imginfoque_[i].image.channel

(* The display thread is woken exactly once for every batch: none stays    *)
(* in gresultque without a token, and no token finds the queue empty.      *)
One(condition) == IF condition THEN 1 ELSE 0

ShowTokens ==
  FLAGS_show /\ mainPc \in {"creating", "pause", "posting"} =>
    Len(gresultque) =
      g_semtshow + One(display = "draw") + One(scheduler = "postshow")

(* "wake-up when a new task avaiable": a frame in a pipe gets the          *)
(* scheduler out of its sem_wait.                                          *)
WokenByTask ==
  (scheduler = "semwait" /\ \E c \in Channels : outPipe[c] # <<>>)
    ~> scheduler # "semwait"

(* A stored frame is taken by the scheduler as long as the program runs    *)
(* and no decoder has failed, although tokens posted before sem_init are   *)
(* forgotten.  (Load would wait for the failed channel's next frame.)      *)
FrameScheduled ==
  \A c \in Channels :
    outPipe[c] # <<>> ~> \/ scheduler = "put" /\ channel = c
                        \/ ~grunning
                        \/ \E d \in Channels : DecoderEnded(d)

(* Waiting for room in the display's cache ends, also at shutdown.         *)
CacheReleased == scheduler = "cache" ~> scheduler # "cache"

(* Ctrl-C stops the display thread wherever it is.                         *)
DisplayStops == mainPc = "joining" ~> display = "done"

(* "handle to end the process": Ctrl-C brings every thread to its end.     *)
Terminates == mainPc = "joining" ~> mainPc = "terminated"

(* The threads keep the contract of every pipe: each buffer is filled,     *)
(* stored, loaded and given back by one thread at a time, in that order,   *)
(* also through startup and shutdown.                                      *)
Pool(c) == INSTANCE BufferPool
             WITH Buffers <- Own(c), Producers <- {c}, NULL <- NoBuffer,
                  idle <- ToSet(inPipe[c]), queued <- outPipe[c],
                  filling <- [p \in {c} |-> decframe[p]],
                  delivered <- IF scheduler = "put" /\ channel = c
                                 THEN {srcframe} ELSE {}
PoolsUsed ==
  /\ \A c \in Channels : Pool(c)!PoolInit
  /\ [][\A c \in Channels : [Pool(c)!PoolNext]_(Pool(c)!poolVars)]_vars
=============================================================================

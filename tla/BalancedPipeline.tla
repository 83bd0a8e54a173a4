-------------------------- MODULE BalancedPipeline --------------------------
(***************************************************************************)
(* main.cpp built with ENABLE_WORKLOAD_BALANCE and two detectors           *)
(* (NUM_OF_GPU_INFER 2), run without -show: the decoding threads           *)
(* (Decoding), the scheduler, which hands frames to inference threads      *)
(* instead of running a detector, the two inference threads, and the main  *)
(* thread.  The frames of the first channel go to the second thread (CPU), *)
(* all others to the first.                                                *)
(*                                                                         *)
(* A token of gNewtaskAvaiable stands for one frame, but the scheduler     *)
(* uses one per scan of all pipes and takes whatever it finds, so tokens   *)
(* and frames agree only on average; the same holds between the scheduler  *)
(* and an inference thread, which empties its queue for one token.         *)
(***************************************************************************)
EXTENDS Decoding

CONSTANTS nBatch,    \* images per batch, of each inference thread
          CtrlC      \* whether anybody presses Ctrl-C

VARIABLES
  scheduler,     \* where the scheduler is
  channel,       \* the channel whose pipe it visits, or visits next
  srcframe,      \* the buffer it hands to an inference thread
  nInferThreadInstance, \* the thread it handed the last frame to
  gtaskque,      \* per inference thread: frames to infer, oldest first
  gsemtInfer,    \* per inference thread: semaphore, frames announced to it
  infer,         \* where each inference thread is
  task,          \* the task each works on, also after Put
  frame,         \* the picture each copied out of the buffer
  imginfoque_    \* per inference thread: pictures in its detector

schedVars == <<scheduler, channel, srcframe, nInferThreadInstance>>
queVars   == <<gtaskque, gsemtInfer>>
inferVars == <<infer, task, frame, imginfoque_>>
vars == <<decodingVars, schedVars, queVars, inferVars>>

Infers == {1, 2}
NoTask == [dpipe |-> 0, dbuffer |-> NoBuffer]

ASSUME BalancedAssumption ==
  /\ nBatch \in [Infers -> Nat \ {0}]
  /\ CtrlC \in BOOLEAN
  /\ FLAGS_c * NumBuffers <= SEM_VALUE_MAX  \* 2^31 - 1

-----------------------------------------------------------------------------
Init ==
  /\ DecodingInit
  /\ scheduler = "none"
  /\ channel = 1
  /\ srcframe = NoBuffer
  /\ nInferThreadInstance = 1
  /\ gtaskque = [i \in Infers |-> <<>>]
  /\ gsemtInfer = [i \in Infers |-> 0]
  /\ infer = [i \in Infers |-> "none"]
  /\ task = [i \in Infers |-> NoTask]
  /\ frame = [i \in Infers |-> Unfilled]
  /\ imginfoque_ = [i \in Infers |-> <<>>]

-----------------------------------------------------------------------------
(* Scheduler.                                                              *)
SchedulerAt(here, there) == scheduler = here /\ scheduler' = there

NextPipe ==
  /\ srcframe' = NoBuffer
  /\ IF channel < FLAGS_c
       THEN scheduler' = "load" /\ channel' = channel + 1
       ELSE scheduler' = "loop" /\ channel' = 1

ScheduleLoop ==
  /\ SchedulerAt("loop", IF grunning THEN "semwait" ELSE "done")
  /\ UNCHANGED <<decodingVars, channel, srcframe, nInferThreadInstance,
                 queVars, inferVars>>

\* Faulty: all tokens for one scan.
AwaitAllTasks ==
  /\ gNewtaskAvaiable > 0
  /\ SchedulerAt("semwait", "load")
  /\ gNewtaskAvaiable' = 0
  /\ UNCHANGED <<grunning, mainPc, early, pipeVars, decVars, channel, srcframe,
                 nInferThreadInstance, queVars, inferVars>>

(* One token, after which every pipe is visited once.                      *)
AwaitTask ==
  /\ gNewtaskAvaiable > 0
  /\ SchedulerAt("semwait", "load")
  /\ gNewtaskAvaiable' = gNewtaskAvaiable - 1
  /\ UNCHANGED <<grunning, mainPc, early, pipeVars, decVars, channel, srcframe,
                 nInferThreadInstance, queVars, inferVars>>

(* LoadNoWait returns NULL: the next pipe.                                 *)
LoadNothing ==
  /\ scheduler = "load"
  /\ outPipe[channel] = <<>>
  /\ NextPipe
  /\ UNCHANGED <<decodingVars, nInferThreadInstance, queVars, inferVars>>

LoadFrame ==
  /\ outPipe[channel] # <<>>
  /\ SchedulerAt("load", "push")
  /\ srcframe' = Head(outPipe[channel])
  /\ outPipe' = [outPipe EXCEPT ![channel] = Tail(outPipe[channel])]
  /\ UNCHANGED <<mainVars, inPipe, imgbuf, decVars, channel,
                 nInferThreadInstance, queVars, inferVars>>

\* nChannel = srcframe->channel; 0 goes to instance 1, the rest to instance 0.
Route == IF imgbuf[srcframe].channel = 1 THEN 2 ELSE 1

PushTask ==
  /\ SchedulerAt("push", "post")
  /\ nInferThreadInstance' = Route
  /\ gtaskque' = [gtaskque EXCEPT ![Route] =
                    Append(@, [dpipe |-> channel, dbuffer |-> srcframe])]
  /\ UNCHANGED <<decodingVars, channel, srcframe, gsemtInfer, inferVars>>

\* Faulty: the other thread is woken.
PostWrongInfer ==
  /\ scheduler = "post"
  /\ gsemtInfer' = [gsemtInfer EXCEPT ![3 - nInferThreadInstance] = Posted(@)]
  /\ NextPipe
  /\ UNCHANGED <<decodingVars, nInferThreadInstance, gtaskque, inferVars>>

(* By now the buffer may have come back to the decoder.                    *)
PostInfer ==
  /\ scheduler = "post"
  /\ gsemtInfer' = [gsemtInfer EXCEPT ![nInferThreadInstance] = Posted(@)]
  /\ NextPipe
  /\ UNCHANGED <<decodingVars, nInferThreadInstance, gtaskque, inferVars>>

-----------------------------------------------------------------------------
(* Inference threads.                                                      *)
InferAt(i, here, there) ==
  /\ infer[i] = here
  /\ infer' = [infer EXCEPT ![i] = there]

InferLoop(i) ==
  /\ InferAt(i, "loop", IF grunning THEN "semwait" ELSE "done")
  /\ UNCHANGED <<decodingVars, schedVars, queVars, task, frame, imginfoque_>>

AwaitInfer(i) ==
  /\ gsemtInfer[i] > 0
  /\ InferAt(i, "semwait", "pop")
  /\ gsemtInfer' = [gsemtInfer EXCEPT ![i] = @ - 1]
  /\ UNCHANGED <<decodingVars, schedVars, gtaskque, task, frame, imginfoque_>>

\* while (!gtaskque.empty()) ends; the test does not take the mutex.
QueueEmpty(i) ==
  /\ gtaskque[i] = <<>>
  /\ InferAt(i, "pop", "loop")
  /\ UNCHANGED <<decodingVars, schedVars, queVars, task, frame, imginfoque_>>

(* Pops a task and copies the picture (createMat).                         *)
PopTask(i) ==
  /\ gtaskque[i] # <<>>
  /\ InferAt(i, "pop", "put")
  /\ task' = [task EXCEPT ![i] = Head(gtaskque[i])]
  /\ frame' = [frame EXCEPT ![i] = imgbuf[Head(gtaskque[i]).dbuffer]]
  /\ gtaskque' = [gtaskque EXCEPT ![i] = Tail(@)]
  /\ UNCHANGED <<decodingVars, schedVars, gsemtInfer, imginfoque_>>

\* Faulty: the buffer is put back twice.
PutTwice(i) ==
  /\ InferAt(i, "put", "insert")
  /\ inPipe' = [inPipe EXCEPT ![task[i].dpipe] =
                  Cons(task[i].dbuffer, Cons(task[i].dbuffer, @))]
  /\ UNCHANGED <<mainVars, outPipe, imgbuf, decVars, schedVars, queVars, task,
                 frame, imginfoque_>>

PutFrame(i) ==
  /\ InferAt(i, "put", "insert")
  /\ inPipe' = [inPipe EXCEPT ![task[i].dpipe] = Cons(task[i].dbuffer, @)]
  /\ UNCHANGED <<mainVars, outPipe, imgbuf, decVars, schedVars, queVars, task,
                 frame, imginfoque_>>

(* InsertImage, told the channel that the buffer has now (and the frame    *)
(* number: see Pipeline).  A full second batch makes it report the first;  *)
(* without -show, counters are all that comes of it.                       *)
Described(i) ==
  [image |-> frame[i], inputid |-> imgbuf[task[i].dbuffer].channel]

InsertImage(i) ==
  /\ InferAt(i, "insert", "pop")
  /\ LET que == Append(imginfoque_[i], Described(i)) IN
       imginfoque_' = [imginfoque_ EXCEPT ![i] =
         IF Len(que) < 2 * nBatch[i] THEN que
                                     ELSE SubSeq(que, nBatch[i] + 1, Len(que))]
  /\ task' = [task EXCEPT ![i] = NoTask]
  /\ frame' = [frame EXCEPT ![i] = Unfilled]
  /\ UNCHANGED <<decodingVars, schedVars, queVars>>

-----------------------------------------------------------------------------
(* Main thread.                                                            *)
CreateThreads ==
  /\ mainPc = "creating"
  /\ mainPc' = "pause"
  /\ gNewtaskAvaiable' = 0
  /\ scheduler' = "loop"
  /\ infer' = [i \in Infers |-> "loop"]
  /\ early' = 0
  /\ UNCHANGED <<grunning, pipeVars, decVars, channel, srcframe,
                 nInferThreadInstance, queVars, task, frame, imginfoque_>>

(* As in Pipeline.                                                         *)
Interrupt ==
  /\ CtrlC
  /\ mainPc = "pause"
  /\ mainPc' \in {"pause", "posting"}
  /\ grunning' = FALSE
  /\ UNCHANGED <<early, gNewtaskAvaiable, pipeVars, decVars, schedVars, queVars,
                 inferVars>>

\* Faulty: the inference threads are forgotten.
PostScheduler ==
  /\ mainPc = "posting"
  /\ mainPc' = "joining"
  /\ gNewtaskAvaiable' = Posted(gNewtaskAvaiable)
  /\ UNCHANGED <<grunning, early, pipeVars, decVars, schedVars, queVars,
                 inferVars>>

PostAll ==
  /\ mainPc = "posting"
  /\ mainPc' = "joining"
  /\ gNewtaskAvaiable' = Posted(gNewtaskAvaiable)
  /\ gsemtInfer' = [i \in Infers |-> Posted(gsemtInfer[i])]
  /\ UNCHANGED <<grunning, early, pipeVars, decVars, schedVars, gtaskque,
                 inferVars>>

JoinAll ==
  /\ mainPc = "joining"
  /\ scheduler = "done"
  /\ \A i \in Infers : infer[i] = "done"
  /\ \A c \in Channels : DecoderEnded(c)
  /\ mainPc' = "terminated"
  /\ UNCHANGED <<grunning, early, gNewtaskAvaiable, pipeVars, decVars,
                 schedVars, queVars, inferVars>>

-----------------------------------------------------------------------------
Decoder(c) == DecoderStep(c) /\ UNCHANGED <<schedVars, queVars, inferVars>>

SchedulerStep ==
  \/ ScheduleLoop \/ AwaitTask \/ LoadNothing \/ LoadFrame
  \/ PushTask \/ PostInfer

InferStep(i) ==
  \/ InferLoop(i) \/ AwaitInfer(i) \/ QueueEmpty(i) \/ PopTask(i)
  \/ PutFrame(i) \/ InsertImage(i)

Next ==
  \/ \E c \in Channels : Decoder(c)
  \/ SchedulerStep
  \/ \E i \in Infers : InferStep(i)
  \/ CreateThreads \/ Interrupt \/ PostAll \/ JoinAll

Spec == Init /\ [][Next]_vars

(* As in Pipeline.                                                         *)
Fairness ==
  /\ \A c \in Channels : WF_vars(Decoder(c))
  /\ WF_vars(SchedulerStep)
  /\ \A i \in Infers : WF_vars(InferStep(i))
  /\ WF_vars(CreateThreads)
  /\ WF_vars(PostAll)
  /\ WF_vars(JoinAll)

FairSpec == Spec /\ Fairness

-----------------------------------------------------------------------------
Tasks == [dpipe : Channels, dbuffer : Buffers]
Descriptions == [image : Frames, inputid : Channels]

TypeOK ==
  /\ DecodingTypeOK
  /\ scheduler \in {"none", "loop", "semwait", "load", "push", "post", "done"}
  /\ channel \in Channels
  /\ srcframe \in Buffers \cup {NoBuffer}
  /\ nInferThreadInstance \in Infers
  /\ gtaskque \in [Infers -> Seq(Tasks)]
  /\ gsemtInfer \in [Infers -> 0..SEM_VALUE_MAX]
  /\ infer \in [Infers -> {"none", "loop", "semwait", "pop", "put", "insert",
                           "done"}]
  /\ task \in [Infers -> Tasks \cup {NoTask}]
  /\ frame \in [Infers -> Frames \cup {Unfilled}]
  /\ imginfoque_ \in [Infers -> Seq(Descriptions)]

(* The pictures of inference thread i, oldest first: in its detector, in   *)
(* its hands, in its queue.                                                *)
Infered(i) ==
  [k \in DOMAIN imginfoque_[i] |-> imginfoque_[i][k].image]
    \o (IF infer[i] \in {"put", "insert"} THEN <<frame[i]>> ELSE <<>>)
    \o [k \in DOMAIN gtaskque[i] |-> imgbuf[gtaskque[i][k].dbuffer]]
Scheduled == IF scheduler = "push" THEN <<imgbuf[srcframe]>> ELSE <<>>

Line(c) == ((Infered(1) \o Infered(2)) \o Scheduled) \o Pending(c)

(* No frame of a channel is lost, doubled or overtaken on its way through  *)
(* five threads: both detectors together have consecutive numbers of it,   *)
(* from the decoder to the oldest picture not reported yet.                *)
FramesInOrder ==
  \A c \in Channels : Consecutive(c, Line(c), nFrameProcessed[c])

(* "wake-up when a new task avaiable": although a scan takes up to one     *)
(* frame of every pipe for its one token, and the semaphore may have       *)
(* stopped counting, the scheduler never waits for a token that is not     *)
(* there or about to be posted while frames are stored: only as many may   *)
(* be left as were stored before it was created, whose tokens are lost.    *)
StoredBuffers == UNION {ToSet(outPipe[c]) : c \in Channels}
Announcing == {c \in Channels : decoder[c] = "post"}

NoFrameForgotten ==
  scheduler = "semwait" =>
    Cardinality(StoredBuffers) <=
      gNewtaskAvaiable + Cardinality(Announcing) + StartupWindow

(* Nor does an inference thread, which empties its queue for one token.    *)
NoTaskForgotten ==
  \A i \in Infers :
    infer[i] = "semwait" /\ gtaskque[i] # <<>> =>
      gsemtInfer[i] > 0 \/ (scheduler = "post" /\ nInferThreadInstance = i)

(* Each buffer goes through its pipe, the scheduler and one inference      *)
(* thread, and back to its own pipe, without being in two places.          *)
Loaned(c) ==
  {b \in Own(c) :
     \/ scheduler = "push" /\ srcframe = b
     \/ \E i \in Infers :
          \/ \E k \in DOMAIN gtaskque[i] : gtaskque[i][k].dbuffer = b
          \/ infer[i] = "put" /\ task[i].dbuffer = b}

Pool(c) == INSTANCE BufferPool
             WITH Buffers <- Own(c), Producers <- {c}, NULL <- NoBuffer,
                  idle <- ToSet(inPipe[c]), queued <- outPipe[c],
                  filling <- [p \in {c} |-> decframe[p]],
                  delivered <- Loaned(c)
PoolsUsed ==
  /\ \A c \in Channels : Pool(c)!PoolInit
  /\ [][\A c \in Channels : [Pool(c)!PoolNext]_(Pool(c)!poolVars)]_vars

(* A frame that was stored reaches an inference thread as long as the      *)
(* program runs: that very frame (numbers are counted modulo FrameCycle),  *)
(* although a token is not tied to a frame, a semaphore may have stopped   *)
(* counting, and its decoder may have failed since and will announce       *)
(* nothing more.  Checked for one channel.                                 *)
FrameInfered ==
  \A f \in Frames :
    f \in ToSet(Stored(f.channel)) ~> \/ \E i \in Infers : /\ infer[i] = "insert"
                                                        /\ frame[i] = f
                                    \/ ~grunning

(* Ctrl-C ends the scheduler and both inference threads wherever they are, *)
(* whatever is left in their queues.                                       *)
InfersStop ==
  mainPc = "joining" ~> /\ scheduler = "done"
                        /\ \A i \in Infers : infer[i] = "done"
=============================================================================

------------------------------ MODULE Decoding ------------------------------
(***************************************************************************)
(* The decoding threads of main.cpp, one per channel, with the pipe each   *)
(* fills, and what they share with the main thread: the flag grunning and  *)
(* the semaphore gNewtaskAvaiable.  Pipeline and BalancedPipeline extend   *)
(* this module with the two builds of the scheduler.                       *)
(*                                                                         *)
(* The pipes are used by their contract (BufferPool, which DualPipe        *)
(* implements), except that a pipe hands out its most recently returned    *)
(* buffer first, which decides what a stale pointer reads.                 *)
(*                                                                         *)
(* Bounds: frame numbers are counted modulo FrameCycle, at most            *)
(* StartupWindow frames are stored before the main thread creates the      *)
(* scheduler, and semaphores stop at SEM_VALUE_MAX, as sem_post does.      *)
(***************************************************************************)
EXTENDS Integers, SequencesExt

CONSTANTS FLAGS_c,        \* number of channels
          NumBuffers,     \* buffers per pipe
          FrameCycle,     \* frame numbers are counted modulo this
          SEM_VALUE_MAX,  \* where a semaphore stops counting
          StartupWindow,  \* frames stored before the scheduler is created
          Failing         \* channels whose decoder may fail

ASSUME DecodingAssumption ==
  /\ FLAGS_c \in Nat \ {0}
  /\ NumBuffers \in Nat \ {0}
  /\ FrameCycle \in Nat \ {0}
  /\ SEM_VALUE_MAX \in Nat \ {0}
  /\ StartupWindow \in Nat
  /\ Failing \subseteq 1..FLAGS_c

Channels == 1..FLAGS_c
Buffers  == 1..(FLAGS_c * NumBuffers)
Own(c)   == ((c - 1) * NumBuffers + 1)..(c * NumBuffers)  \* of its pipe
FrameNos == 0..(FrameCycle - 1)
NoBuffer == 0

\* A picture is named by the channel and the number it was decoded with.
Frames   == [channel : Channels, frameno : FrameNos]
Unfilled == [channel |-> 0, frameno |-> 0]
FollowingNo(n) == (n + 1) % FrameCycle

VARIABLES
  grunning,         \* the flag every thread polls
  mainPc,           \* "creating", "pause", "posting", "joining", "terminated"
  early,            \* frames stored so far, until the scheduler is created
  gNewtaskAvaiable, \* semaphore: frames announced to the scheduler
  inPipe,           \* per channel: idle buffers, most recently returned first
  outPipe,          \* per channel: stored buffers, oldest first
  imgbuf,           \* per buffer: the picture and its description
  nFrameProcessed,  \* per channel: number of the last decoded frame
  decoder,          \* per channel: where the decoding thread is
  decframe          \* per channel: the buffer the decoding thread fills

mainVars == <<grunning, mainPc, early, gNewtaskAvaiable>>
pipeVars == <<inPipe, outPipe, imgbuf>>
decVars  == <<nFrameProcessed, decoder, decframe>>
decodingVars == <<mainVars, pipeVars, decVars>>

\* sem_post; its failure at the limit (EOVERFLOW) is ignored by every caller.
Posted(sem) == IF sem < SEM_VALUE_MAX THEN sem + 1 ELSE sem

-----------------------------------------------------------------------------
(* The pipes exist before the first decoding thread; all decoding threads  *)
(* may run before the scheduler is created.                                *)
DecodingInit ==
  /\ grunning = TRUE
  /\ mainPc = "creating"
  /\ early = 0
  /\ gNewtaskAvaiable = 0
  /\ inPipe = [c \in Channels |->
                [i \in 1..NumBuffers |-> (c - 1) * NumBuffers + i]]
  /\ outPipe = [c \in Channels |-> <<>>]
  /\ imgbuf = [b \in Buffers |-> Unfilled]
  /\ nFrameProcessed = [c \in Channels |-> 0]
  /\ decoder = [c \in Channels |-> "decode"]
  /\ decframe = [c \in Channels |-> NoBuffer]

-----------------------------------------------------------------------------
(* Decoding thread.                                                        *)
DecoderAt(c, here, there) ==
  /\ decoder[c] = here
  /\ decoder' = [decoder EXCEPT ![c] = there]

(* The loop ends between two frames: by Ctrl-C, when SyncOperation reports  *)
(* an error for the frame just stored (it is stored all the same), or when *)
(* DecodeFrameAsync does, or the rewound file cannot be read.              *)
DecoderExit(c) ==
  /\ ~grunning \/ c \in Failing
  /\ DecoderAt(c, "decode", "done")
  /\ UNCHANGED <<mainVars, pipeVars, nFrameProcessed, decframe>>

(* DecodeFrameAsync gave a frame (the stream starts again at its end).     *)
Decode(c) ==
  /\ grunning
  /\ DecoderAt(c, "decode", "get")
  /\ nFrameProcessed' =
       [nFrameProcessed EXCEPT ![c] = FollowingNo(nFrameProcessed[c])]
  /\ UNCHANGED <<mainVars, pipeVars, decframe>>

(* RunFrameVPPAsync reports an error: the loop ends, and the frame, which   *)
(* was counted, is never stored.                                           *)
VppFails(c) ==
  /\ grunning /\ c \in Failing
  /\ DecoderAt(c, "decode", "failed")
  /\ nFrameProcessed' =
       [nFrameProcessed EXCEPT ![c] = FollowingNo(nFrameProcessed[c])]
  /\ UNCHANGED <<mainVars, pipeVars, decframe>>

(* Get, which polls whatever grunning is, and everything that is written   *)
(* to the buffer.                                                          *)
Fill(c) ==
  /\ inPipe[c] # <<>>
  /\ DecoderAt(c, "get", "store")
  /\ decframe' = [decframe EXCEPT ![c] = Head(inPipe[c])]
  /\ inPipe' = [inPipe EXCEPT ![c] = Tail(inPipe[c])]
  /\ imgbuf' = [imgbuf EXCEPT ![Head(inPipe[c])] =
                  [channel |-> c, frameno |-> nFrameProcessed[c]]]
  /\ UNCHANGED <<mainVars, outPipe, nFrameProcessed>>

\* Faulty: the newest frame is stored in front.
StoreInFront(c) ==
  /\ DecoderAt(c, "store", "post")
  /\ outPipe' = [outPipe EXCEPT ![c] = Cons(decframe[c], outPipe[c])]
  /\ decframe' = [decframe EXCEPT ![c] = NoBuffer]
  /\ IF mainPc = "creating"
       THEN early < StartupWindow /\ early' = early + 1
       ELSE UNCHANGED early
  /\ UNCHANGED <<grunning, mainPc, gNewtaskAvaiable, inPipe, imgbuf,
                 nFrameProcessed>>

StoreFrame(c) ==
  /\ DecoderAt(c, "store", "post")
  /\ outPipe' = [outPipe EXCEPT ![c] = Append(outPipe[c], decframe[c])]
  /\ decframe' = [decframe EXCEPT ![c] = NoBuffer]
  /\ IF mainPc = "creating"
       THEN early < StartupWindow /\ early' = early + 1
       ELSE UNCHANGED early
  /\ UNCHANGED <<grunning, mainPc, gNewtaskAvaiable, inPipe, imgbuf,
                 nFrameProcessed>>

(* sem_post(&gNewtaskAvaiable), possibly before its sem_init.              *)
Announce(c) ==
  /\ DecoderAt(c, "post", "decode")
  /\ gNewtaskAvaiable' = Posted(gNewtaskAvaiable)
  /\ UNCHANGED <<grunning, mainPc, early, pipeVars, nFrameProcessed,
                 decframe>>

DecoderStep(c) ==
  \/ DecoderExit(c) \/ Decode(c) \/ VppFails(c)
  \/ Fill(c) \/ StoreFrame(c) \/ Announce(c)

\* The thread can be joined.
DecoderEnded(c) == decoder[c] \in {"done", "failed"}

-----------------------------------------------------------------------------
DecodingTypeOK ==
  /\ grunning \in BOOLEAN
  /\ mainPc \in {"creating", "pause", "posting", "joining", "terminated"}
  /\ early \in 0..StartupWindow
  /\ gNewtaskAvaiable \in 0..SEM_VALUE_MAX
  /\ inPipe \in [Channels -> Seq(Buffers)]
  /\ outPipe \in [Channels -> Seq(Buffers)]
  /\ imgbuf \in [Buffers -> Frames \cup {Unfilled}]
  /\ nFrameProcessed \in [Channels -> FrameNos]
  /\ decoder \in [Channels -> {"decode", "get", "store", "post", "done",
                            "failed"}]
  /\ decframe \in [Channels -> Buffers \cup {NoBuffer}]

(* The pictures of a channel in its pipe and in its decoder, oldest first. *)
Stored(c)  == [i \in DOMAIN outPipe[c] |-> imgbuf[outPipe[c][i]]]
Filling(c) == IF decoder[c] = "store" THEN <<imgbuf[decframe[c]]>> ELSE <<>>
Decoded(c) == IF decoder[c] \in {"get", "failed"}
                THEN <<[channel |-> c, frameno |-> nFrameProcessed[c]]>> ELSE <<>>
Pending(c) == Stored(c) \o (Filling(c) \o Decoded(c))

\* Of the pictures of channel c, the one at j follows the one at i.
Adjacent(c, pictures, i, j) ==
  /\ i < j
  /\ pictures[i].channel = c /\ pictures[j].channel = c
  /\ \A k \in (i + 1)..(j - 1) : pictures[k].channel # c

(* The pictures of channel c, oldest first, bear consecutive numbers, of   *)
(* which the last is newest.                                               *)
Consecutive(c, pictures, newest) ==
  /\ \A i, j \in DOMAIN pictures :
       Adjacent(c, pictures, i, j) =>
         pictures[j].frameno = FollowingNo(pictures[i].frameno)
  /\ \A i \in DOMAIN pictures :
       pictures[i].channel = c => \/ pictures[i].frameno = newest
                                  \/ \E j \in DOMAIN pictures :
                                       j > i /\ pictures[j].channel = c
=============================================================================

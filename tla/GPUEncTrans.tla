---------------------------- MODULE GPUEncTrans ----------------------------
(***************************************************************************)
(* The frame pool of the VirtualGL image transport in testplugin.cpp:      *)
(* class GPUEncBuffer (an off-screen FBO and its "complete" event), class  *)
(* GPUEncTrans (getFrame, sendFrame, synchronize, the destructor) and the  *)
(* encoder thread GPUEncTrans::run.                                        *)
(*                                                                         *)
(* Application threads enter through RRTransGetFrame and RRTransSendFrame; *)
(* one encoder thread takes frames off the queue when a request arrives    *)
(* from the mighty server.  The server is external here: it keeps sending. *)
(* VirtualGL's Event, GenericQ, CriticalSection and Thread are external    *)
(* too: Event is a flag that starts signalled, GenericQ a linked list, a   *)
(* lock and a semaphore that counts the items nobody has claimed yet.      *)
(***************************************************************************)
EXTENDS Integers, Sequences, FiniteSets

CONSTANTS
  NFRAMES,     \* buffers in the pool (3 in the code)
  AppThreads,  \* application threads that render and swap buffers
  Encoder,     \* the thread that executes GPUEncTrans::run
  Sizes,       \* the window sizes (width and height) frames are asked for in
  SyncCallers  \* the threads of applications that do not spoil frames

ASSUME NFRAMESAssumption == NFRAMES \in Nat \ {0}
ASSUME ThreadsAssumption == IsFiniteSet(AppThreads) /\ Encoder \notin AppThreads
ASSUME SizesAssumption == Sizes \subseteq Nat \ {0}
ASSUME CallersAssumption == SyncCallers \subseteq AppThreads

VARIABLES
  complete,    \* complete[f]: the Event of buffer f is signalled, f is in the pool
  size,        \* size[f]: the width and height members of buffer f, 0 at first
  storage,     \* storage[f]: what fbo and rbo of f hold, 0 before the first init
  list,        \* GenericQ: the frames queued for the encoder, oldest first
  hasItem,     \* GenericQ: the semaphore, what items() returns
  queueLock,   \* GenericQ: the threads inside its lock
  mutex,       \* GPUEncTrans::mutex: the threads inside it
  pc,          \* pc[t]: where application thread t is
  frame,       \* frame[t]: the frame t has been given and has not passed on
  index,       \* index[t]: local of getFrame, the free buffer found so far
  scan,        \* scan[t]: local i of getFrame
  dummy,       \* dummy[t]: the frame spoil has unlinked and not yet called back for
  current,     \* current[p]: the buffer whose GLX context is current on thread p
  saved,       \* saved[t]: local vglCtx of init and copyPixels
  epc,         \* where the encoder thread is
  eframe,      \* local frame of run
  ready,       \* the Event synchronize waits for
  threadError, \* Thread::setError has been called
  phase        \* how far ~GPUEncTrans has got

poolVars    == <<complete, size, storage>>
queueVars   == <<list, hasItem, queueLock>>
scanVars    == <<mutex, index, scan>>
encoderVars == <<epc, eframe, ready, threadError>>
vars == <<poolVars, queueVars, scanVars, pc, frame, dummy, current, saved,
          encoderVars, phase>>

-----------------------------------------------------------------------------
Frames     == 0 .. NFRAMES - 1
None       == -1    \* NULL, and the index -1 of getFrame
Own        == -1    \* VirtualGL's context on an application thread, none on the encoder
Incomplete == -1    \* glCheckFramebufferStatus was not GL_FRAMEBUFFER_COMPLETE

Threads  == AppThreads \cup {Encoder}
shutdown == phase # "alive"
deadYet  == phase \in {"released", "joined"}

Init ==
  /\ complete = [f \in Frames |-> TRUE]
  /\ size = [f \in Frames |-> 0]
  /\ storage = [f \in Frames |-> 0]
  /\ list = <<>> /\ hasItem = 0 /\ queueLock = {}
  /\ mutex = {}
  /\ pc = [t \in AppThreads |-> "app"]
  /\ frame = [t \in AppThreads |-> None]
  /\ index = [t \in AppThreads |-> None]
  /\ scan = [t \in AppThreads |-> 0]
  /\ dummy = [t \in AppThreads |-> None]
  /\ current = [p \in Threads |-> Own]
  /\ saved = [t \in AppThreads |-> Own]
  /\ epc = "loop" /\ eframe = None
  /\ ready = TRUE
  /\ threadError = FALSE
  /\ phase = "alive"

Goto(t, label) == pc' = [pc EXCEPT ![t] = label]

(* RRTransGetFrame or RRTransSendFrame ends in its catch block: the caller  *)
(* gets NULL or -1, and no code gives the frame t holds back to the pool.  *)
Abandon(t) ==
  /\ frame' = [frame EXCEPT ![t] = None]
  /\ Goto(t, "app")

-----------------------------------------------------------------------------
(* RRTransGetFrame: pick a free buffer under the mutex.                     *)

(* A plugin that is shutting down returns NULL and one whose thread has     *)
(* died throws (checkError): neither changes anything.                      *)
CallGetFrame(t) ==
  /\ pc[t] = "app" /\ frame[t] = None
  /\ ~shutdown /\ ~threadError
  /\ Goto(t, "lock")
  /\ UNCHANGED <<poolVars, queueVars, scanVars, frame, dummy, current, saved,
                 encoderVars, phase>>

(* Variant: getFrame without SafeLock. *)
LockPoolUnlocked(t) ==
  /\ pc[t] = "lock"
  /\ mutex' = mutex \cup {t}
  /\ Goto(t, "scan")
  /\ UNCHANGED <<poolVars, queueVars, index, scan, frame, dummy, current, saved,
                 encoderVars, phase>>

LockPool(t) ==
  /\ pc[t] = "lock" /\ mutex = {}
  /\ mutex' = {t}
  /\ Goto(t, "scan")
  /\ UNCHANGED <<poolVars, queueVars, index, scan, frame, dummy, current, saved,
                 encoderVars, phase>>

(* Variant: the scan keeps the index after the free buffer. *)
ScanBufferOffByOne(t) ==
  /\ pc[t] = "scan" /\ scan[t] < NFRAMES
  /\ index' = [index EXCEPT ![t] = IF complete[scan[t]] THEN scan[t] + 1 ELSE @]
  /\ scan' = [scan EXCEPT ![t] = @ + 1]
  /\ UNCHANGED <<poolVars, queueVars, mutex, pc, frame, dummy, current, saved,
                 encoderVars, phase>>

(* isComplete looks at one event at a time: buffers become complete between *)
(* two looks.  There is no break, so the last free buffer seen is taken.    *)
ScanBuffer(t) ==
  /\ pc[t] = "scan" /\ scan[t] < NFRAMES
  /\ index' = [index EXCEPT ![t] = IF complete[scan[t]] THEN scan[t] ELSE @]
  /\ scan' = [scan EXCEPT ![t] = @ + 1]
  /\ UNCHANGED <<poolVars, queueVars, mutex, pc, frame, dummy, current, saved,
                 encoderVars, phase>>

LeaveMutex(t) ==
  /\ mutex' = mutex \ {t}
  /\ index' = [index EXCEPT ![t] = None]
  /\ scan' = [scan EXCEPT ![t] = 0]

(* THROW("No free buffers in pool") *)
NoFreeBuffer(t) ==
  /\ pc[t] = "scan" /\ scan[t] = NFRAMES /\ index[t] = None
  /\ LeaveMutex(t)
  /\ Goto(t, "app")
  /\ UNCHANGED <<poolVars, queueVars, frame, dummy, current, saved,
                 encoderVars, phase>>

(* Variant: the buffer is handed out without waitComplete. *)
TakeBufferNoWait(t) ==
  /\ pc[t] = "scan" /\ scan[t] = NFRAMES /\ index[t] # None
  /\ frame' = [frame EXCEPT ![t] = index[t]]
  /\ LeaveMutex(t)
  /\ Goto(t, "init")
  /\ UNCHANGED <<poolVars, queueVars, dummy, current, saved, encoderVars, phase>>

(* Variant: the mutex is still held when getFrame returns. *)
TakeBufferKeepMutex(t) ==
  /\ pc[t] = "scan" /\ scan[t] = NFRAMES /\ index[t] # None
  /\ complete[index[t]]
  /\ complete' = [complete EXCEPT ![index[t]] = FALSE]
  /\ frame' = [frame EXCEPT ![t] = index[t]]
  /\ index' = [index EXCEPT ![t] = None]
  /\ scan' = [scan EXCEPT ![t] = 0]
  /\ Goto(t, "init")
  /\ UNCHANGED <<size, storage, queueVars, mutex, dummy, current, saved,
                 encoderVars, phase>>

(* waitComplete blocks while the event is not signalled, then resets it.    *)
TakeBuffer(t) ==
  /\ pc[t] = "scan" /\ scan[t] = NFRAMES /\ index[t] # None
  /\ complete[index[t]]
  /\ complete' = [complete EXCEPT ![index[t]] = FALSE]
  /\ frame' = [frame EXCEPT ![t] = index[t]]
  /\ LeaveMutex(t)
  /\ Goto(t, "init")
  /\ UNCHANGED <<size, storage, queueVars, dummy, current, saved,
                 encoderVars, phase>>

-----------------------------------------------------------------------------
(* GPUEncBuffer::init, run by RRTransGetFrame outside the mutex: give the   *)
(* buffer an FBO of the size asked for, with the buffer's own context made  *)
(* current in place of VirtualGL's and VirtualGL's made current again.      *)

InitReuse(t, w) ==
  /\ pc[t] = "init"
  /\ storage[frame[t]] # 0 /\ size[frame[t]] = w
  /\ Goto(t, "app")
  /\ UNCHANGED <<poolVars, queueVars, scanVars, frame, dummy, current, saved,
                 encoderVars, phase>>

MustInit(t, w) ==
  /\ pc[t] = "init"
  /\ ~(storage[frame[t]] # 0 /\ size[frame[t]] = w)
  /\ size' = [size EXCEPT ![frame[t]] = w]

(* No valid VirtualGL context, or the buffer's context cannot be made       *)
(* current: width and height are already the new ones.                      *)
InitRefused(t, w) ==
  /\ MustInit(t, w)
  /\ Abandon(t)
  /\ UNCHANGED <<complete, storage, queueVars, scanVars, dummy, current, saved,
                 encoderVars, phase>>

InitEnter(t, w) ==
  /\ MustInit(t, w)
  /\ saved' = [saved EXCEPT ![t] = current[t]]
  /\ current' = [current EXCEPT ![t] = frame[t]]
  /\ Goto(t, "initGL")
  /\ UNCHANGED <<complete, storage, queueVars, scanVars, frame, dummy,
                 encoderVars, phase>>

(* glXMakeContextCurrent(dpy3D, draw, read, vglCtx); saved goes out of scope *)
MakeVGLCurrent(t) ==
  /\ current' = [current EXCEPT ![t] = saved[t]]
  /\ saved' = [saved EXCEPT ![t] = Own]

InitFinish(t) ==
  /\ pc[t] = "initGL"
  /\ storage' = [storage EXCEPT ![frame[t]] = size[frame[t]]]
  /\ MakeVGLCurrent(t)
  /\ Goto(t, "app")
  /\ UNCHANGED <<complete, size, queueVars, scanVars, frame, dummy,
                 encoderVars, phase>>

(* The context of the buffer stays current when VirtualGL's cannot be made  *)
(* current again, whether or not that is what is being reported.            *)
FailGL(t) ==
  /\ \/ current' = [current EXCEPT ![t] = saved[t]]
     \/ UNCHANGED current
  /\ saved' = [saved EXCEPT ![t] = Own]

(* Variant: init signals the event of the buffer before it throws. *)
InitThrowSignal(t) ==
  /\ pc[t] = "initGL"
  /\ complete' = [complete EXCEPT ![frame[t]] = TRUE]
  /\ storage' = [storage EXCEPT ![frame[t]] = Incomplete]
  /\ FailGL(t)
  /\ Abandon(t)
  /\ UNCHANGED <<size, queueVars, scanVars, dummy, encoderVars, phase>>

(* The FBO is incomplete, or it is complete and the way back fails. *)
InitThrow(t) ==
  /\ pc[t] = "initGL"
  /\ \E s \in {Incomplete, size[frame[t]]} :
       /\ storage' = [storage EXCEPT ![frame[t]] = s]
       /\ s # Incomplete => UNCHANGED current
  /\ FailGL(t)
  /\ Abandon(t)
  /\ UNCHANGED <<complete, size, queueVars, scanVars, dummy, encoderVars, phase>>

-----------------------------------------------------------------------------
(* RRTransSendFrame: copyPixels, then GenericQ::spoil, which holds the lock *)
(* of the queue while it empties it, calls spoilFunction on what it removes *)
(* and adds the new frame.                                                  *)

(* checkError throws, or copyPixels throws before it switches contexts. *)
SendRefused(t) ==
  /\ pc[t] = "app" /\ frame[t] # None
  /\ ~shutdown
  /\ Abandon(t)
  /\ UNCHANGED <<poolVars, queueVars, scanVars, dummy, current, saved,
                 encoderVars, phase>>

CopyEnter(t) ==
  /\ pc[t] = "app" /\ frame[t] # None
  /\ ~shutdown /\ ~threadError
  /\ saved' = [saved EXCEPT ![t] = current[t]]
  /\ current' = [current EXCEPT ![t] = frame[t]]
  /\ Goto(t, "copyGL")
  /\ UNCHANGED <<poolVars, queueVars, scanVars, frame, dummy, encoderVars, phase>>

(* Variant: copyPixels does not make VirtualGL's context current again. *)
CopyFinishKeep(t) ==
  /\ pc[t] = "copyGL"
  /\ saved' = [saved EXCEPT ![t] = Own]
  /\ Goto(t, "spoil")
  /\ UNCHANGED <<poolVars, queueVars, scanVars, frame, dummy, current,
                 encoderVars, phase>>

CopyFinish(t) ==
  /\ pc[t] = "copyGL"
  /\ MakeVGLCurrent(t)
  /\ Goto(t, "spoil")
  /\ UNCHANGED <<poolVars, queueVars, scanVars, frame, dummy, encoderVars, phase>>

CopyThrow(t) ==
  /\ pc[t] = "copyGL"
  /\ FailGL(t)
  /\ Abandon(t)
  /\ UNCHANGED <<poolVars, queueVars, scanVars, dummy, encoderVars, phase>>

SpoilLock(t) ==
  /\ pc[t] = "spoil" /\ queueLock = {}
  /\ queueLock' = {t}
  /\ Goto(t, "drain")
  /\ UNCHANGED <<poolVars, list, hasItem, scanVars, frame, dummy, current, saved,
                 encoderVars, phase>>

(* get(&dummy, true): claim an item if nobody has, and unlink the oldest. *)
Drain(t) ==
  /\ pc[t] = "drain" /\ dummy[t] = None /\ hasItem > 0
  /\ hasItem' = hasItem - 1
  /\ dummy' = [dummy EXCEPT ![t] = Head(list)]
  /\ list' = Tail(list)
  /\ UNCHANGED <<poolVars, queueLock, scanVars, pc, frame, current, saved,
                 encoderVars, phase>>

SpoilFunction(t) ==
  /\ pc[t] = "drain" /\ dummy[t] # None
  /\ complete' = [complete EXCEPT ![dummy[t]] = TRUE]
  /\ dummy' = [dummy EXCEPT ![t] = None]
  /\ UNCHANGED <<size, storage, queueVars, scanVars, pc, frame, current, saved,
                 encoderVars, phase>>

AddToQueue(t) ==
  /\ list' = Append(list, frame[t])
  /\ hasItem' = hasItem + 1
  /\ queueLock' = queueLock \ {t}
  /\ frame' = [frame EXCEPT ![t] = None]
  /\ Goto(t, "app")
  /\ UNCHANGED <<poolVars, scanVars, dummy, current, saved, encoderVars, phase>>

(* Variant: the frame is added without spoiling the ones before it. *)
EnqueueOnly(t) ==
  /\ pc[t] = "drain" /\ dummy[t] = None
  /\ AddToQueue(t)

Enqueue(t) ==
  /\ pc[t] = "drain" /\ dummy[t] = None /\ hasItem = 0
  /\ AddToQueue(t)

-----------------------------------------------------------------------------
(* RRTransSynchronize: ready.wait().  VirtualGL calls it for applications   *)
(* that do not spoil frames.  It does not look for an error of the encoder. *)
Synchronize(t) ==
  /\ t \in SyncCallers
  /\ pc[t] = "app" /\ ~shutdown
  /\ Goto(t, "sync")
  /\ UNCHANGED <<poolVars, queueVars, scanVars, frame, dummy, current, saved,
                 encoderVars, phase>>

SyncWake(t) ==
  /\ pc[t] = "sync" /\ ready
  /\ ready' = FALSE
  /\ Goto(t, "app")
  /\ UNCHANGED <<poolVars, queueVars, scanVars, frame, dummy, current, saved,
                 epc, eframe, threadError, phase>>

-----------------------------------------------------------------------------
(* GPUEncTrans::run, the encoder thread. *)

EncGoto(from, to) == epc = from /\ epc' = to

Loop ==
  /\ EncGoto("loop", IF shutdown THEN "exited" ELSE "receive")
  /\ UNCHANGED <<poolVars, queueVars, scanVars, pc, frame, dummy, current, saved,
                 eframe, ready, threadError, phase>>

(* mighty_ipc.receive() blocks until the server sends something or a signal *)
(* interrupts it; it answers a PING by itself.  All but RESTART, the NONE   *)
(* of an interrupted call too, are treated as a request for a frame.        *)
Receive ==
  /\ \E next \in {"reset", "items"} : EncGoto("receive", next)
  /\ UNCHANGED <<poolVars, queueVars, scanVars, pc, frame, dummy, current, saved,
                 eframe, ready, threadError, phase>>

ResetEncoder ==
  /\ EncGoto("reset", "items")
  /\ UNCHANGED <<poolVars, queueVars, scanVars, pc, frame, dummy, current, saved,
                 eframe, ready, threadError, phase>>

(* With nothing queued the answer is EMPTY_RESPONSE.  Otherwise the encoder *)
(* commits to get(), though spoil may empty the queue before it gets there. *)
Items ==
  /\ EncGoto("items", IF hasItem = 0 THEN "loop" ELSE "get")
  /\ UNCHANGED <<poolVars, queueVars, scanVars, pc, frame, dummy, current, saved,
                 eframe, ready, threadError, phase>>

ClaimItem ==
  /\ EncGoto("get", "pop")
  /\ ~deadYet /\ hasItem > 0
  /\ hasItem' = hasItem - 1
  /\ UNCHANGED <<poolVars, list, queueLock, scanVars, pc, frame, dummy, current,
                 saved, eframe, ready, threadError, phase>>

(* A released queue hands out nothing; its semaphore is not used any more. *)
GetReleased ==
  /\ deadYet
  /\ EncGoto("get", "check") \/ EncGoto("pop", "check")
  /\ UNCHANGED <<poolVars, queueVars, scanVars, pc, frame, dummy, current, saved,
                 eframe, ready, threadError, phase>>

(* Variant: the frame is read at the head but stays on the list. *)
PopItemPeek ==
  /\ EncGoto("pop", "check")
  /\ ~deadYet /\ queueLock = {}
  /\ eframe' = Head(list)
  /\ UNCHANGED <<poolVars, queueVars, scanVars, pc, frame, dummy, current, saved,
                 ready, threadError, phase>>

PopItem ==
  /\ EncGoto("pop", "check")
  /\ ~deadYet /\ queueLock = {}
  /\ eframe' = Head(list)
  /\ list' = Tail(list)
  /\ UNCHANGED <<poolVars, hasItem, queueLock, scanVars, pc, frame, dummy, current,
                 saved, ready, threadError, phase>>

(* if (shutdown) return: the frame just taken is not signalled, and the     *)
(* clean-up after the loop is skipped.                                      *)
ReturnEarly ==
  /\ EncGoto("check", "exited")
  /\ shutdown
  /\ eframe' = None
  /\ UNCHANGED <<poolVars, queueVars, scanVars, pc, frame, dummy, current, saved,
                 ready, threadError, phase>>

(* Variant: run does not signal ready when it has taken a frame. *)
SignalReadyNever ==
  /\ EncGoto("check", "setup")
  /\ ~shutdown /\ eframe # None
  /\ UNCHANGED <<poolVars, queueVars, scanVars, pc, frame, dummy, current, saved,
                 eframe, ready, threadError, phase>>

SignalReady ==
  /\ EncGoto("check", "setup")
  /\ ~shutdown /\ eframe # None
  /\ ready' = TRUE
  /\ UNCHANGED <<poolVars, queueVars, scanVars, pc, frame, dummy, current, saved,
                 eframe, threadError, phase>>

(* buf->makeCurrent(dpy3DClone) *)
MakeCurrent ==
  /\ EncGoto("setup", "encode")
  /\ current' = [current EXCEPT ![Encoder] = eframe]
  /\ UNCHANGED <<poolVars, queueVars, scanVars, pc, frame, dummy, saved,
                 eframe, ready, threadError, phase>>

(* Variant: the context is not released before the buffer is completed. *)
EncodeFrameKeep ==
  /\ EncGoto("encode", "complete")
  /\ UNCHANGED <<poolVars, queueVars, scanVars, pc, frame, dummy, current, saved,
                 eframe, ready, threadError, phase>>

(* setupNVIFRHwEnc, captureHwEnc, glXMakeContextCurrent(dpy3DClone, 0, 0, 0) *)
EncodeFrame ==
  /\ EncGoto("encode", "complete")
  /\ current' = [current EXCEPT ![Encoder] = Own]
  /\ UNCHANGED <<poolVars, queueVars, scanVars, pc, frame, dummy, saved,
                 eframe, ready, threadError, phase>>

(* Variant: an encoded frame is not given back to the pool. *)
SignalCompleteNever ==
  /\ EncGoto("complete", "loop")
  /\ eframe' = None
  /\ UNCHANGED <<poolVars, queueVars, scanVars, pc, frame, dummy, current,
                 saved, ready, threadError, phase>>

(* buf->signalComplete(), and FRAME_RESPONSE is sent *)
SignalComplete ==
  /\ EncGoto("complete", "loop")
  /\ complete' = [complete EXCEPT ![eframe] = TRUE]
  /\ eframe' = None
  /\ UNCHANGED <<size, storage, queueVars, scanVars, pc, frame, dummy, current,
                 saved, ready, threadError, phase>>

(* The catch block: an output file, GLX or NvIFR failure, or a queue that   *)
(* was released.  The frame being encoded is not signalled.                 *)
EncThrow ==
  /\ \/ EncGoto("reset", "failed")
     \/ EncGoto("check", "failed") /\ ~shutdown /\ eframe = None
     \/ EncGoto("setup", "failed")
     \/ EncGoto("encode", "failed")
  /\ current' = [current EXCEPT ![Encoder] = Own]
  /\ eframe' = None
  /\ ready' = TRUE /\ threadError' = TRUE
  /\ UNCHANGED <<poolVars, queueVars, scanVars, pc, frame, dummy, saved, phase>>

-----------------------------------------------------------------------------
(* RRTransDestroy: the body of ~GPUEncTrans, up to the join of the encoder  *)
(* thread.  VirtualGL calls it when no other call is under way.  What comes *)
(* after the join, the members and the sockets, is in PluginInstances.      *)

RRTransDestroy ==
  /\ phase = "alive"
  /\ \A t \in AppThreads : pc[t] = "app"
  /\ phase' = "shutdown"
  /\ UNCHANGED <<poolVars, queueVars, scanVars, pc, frame, dummy, current, saved,
                 encoderVars>>

(* deadYet is set, then the semaphore is posted for a get() that waits. *)
ReleaseQueue ==
  /\ phase = "shutdown"
  /\ phase' = "released"
  /\ hasItem' = hasItem + 1
  /\ UNCHANGED <<poolVars, list, queueLock, scanVars, pc, frame, dummy, current,
                 saved, encoderVars>>

(* Variant: the join only ends when run has returned normally. *)
JoinThreadNormal ==
  /\ phase = "released" /\ epc = "exited"
  /\ phase' = "joined"
  /\ UNCHANGED <<poolVars, queueVars, scanVars, pc, frame, dummy, current, saved,
                 encoderVars>>

(* thread->stop() joins the encoder thread. *)
JoinThread ==
  /\ phase = "released" /\ epc \in {"exited", "failed"}
  /\ phase' = "joined"
  /\ UNCHANGED <<poolVars, queueVars, scanVars, pc, frame, dummy, current, saved,
                 encoderVars>>

Joined == phase = "joined" /\ UNCHANGED vars

-----------------------------------------------------------------------------
GetFrame(t) ==
  \/ LockPool(t) \/ ScanBuffer(t) \/ NoFreeBuffer(t) \/ TakeBuffer(t)
  \/ \E w \in Sizes : InitReuse(t, w) \/ InitRefused(t, w) \/ InitEnter(t, w)
  \/ InitFinish(t) \/ InitThrow(t)

SendFrame(t) ==
  \/ CopyFinish(t) \/ CopyThrow(t) \/ SpoilLock(t) \/ Drain(t)
  \/ SpoilFunction(t) \/ Enqueue(t)

(* the calls an application thread may or may not make *)
Call(t) == CallGetFrame(t) \/ SendRefused(t) \/ CopyEnter(t) \/ Synchronize(t)

Run ==
  \/ Loop \/ Receive \/ ResetEncoder \/ Items \/ ClaimItem \/ GetReleased
  \/ PopItem \/ ReturnEarly \/ SignalReady \/ MakeCurrent \/ EncodeFrame
  \/ SignalComplete \/ EncThrow

Destroy == ReleaseQueue \/ JoinThread

Next ==
  \/ \E t \in AppThreads : Call(t) \/ GetFrame(t) \/ SendFrame(t) \/ SyncWake(t)
  \/ Run
  \/ RRTransDestroy \/ Destroy
  \/ Joined

Spec == Init /\ [][Next]_vars

(* A thread in the middle of a call goes on, the encoder thread goes on,    *)
(* the server keeps sending and a destructor that has begun goes on.  No    *)
(* application is forced to make a call.                                    *)
Fairness ==
  /\ \A t \in AppThreads :
       WF_vars(GetFrame(t)) /\ WF_vars(SendFrame(t)) /\ WF_vars(SyncWake(t))
  /\ WF_vars(Run)
  /\ WF_vars(Destroy)

FairSpec == Spec /\ Fairness

-----------------------------------------------------------------------------
(* Properties *)

Claimed == IF epc = "pop" THEN 1 ELSE 0

Pending == {list[i] : i \in 1 .. Len(list)}

Owners(f) == {t \in AppThreads : frame[t] = f}

Unlinked(f) == {t \in AppThreads : dummy[t] = f}

InUse(f) == Owners(f) # {} \/ Unlinked(f) # {} \/ f \in Pending \/ f = eframe

(* Buffers no thread will ever signal: a call or the encoder has failed.    *)
Lost == {f \in Frames : ~complete[f] /\ ~InUse(f)}

Labels == {"app", "lock", "scan", "init", "initGL", "copyGL", "spoil", "drain", "sync"}
EncLabels == {"loop", "receive", "reset", "items", "get", "pop", "check", "setup",
              "encode", "complete", "exited", "failed"}

(* Every variable has its type, and the index getFrame finds is a buffer.   *)
TypeOK ==
  /\ complete \in [Frames -> BOOLEAN]
  /\ size \in [Frames -> {0} \cup Sizes]
  /\ storage \in [Frames -> {Incomplete, 0} \cup Sizes]
  /\ list \in Seq(Frames) /\ hasItem \in Nat /\ queueLock \subseteq AppThreads
  /\ mutex \subseteq AppThreads
  /\ pc \in [AppThreads -> Labels]
  /\ frame \in [AppThreads -> Frames \cup {None}]
  /\ index \in [AppThreads -> Frames \cup {None}]
  /\ scan \in [AppThreads -> 0 .. NFRAMES]
  /\ dummy \in [AppThreads -> Frames \cup {None}]
  /\ current \in [Threads -> Frames \cup {Own}]
  /\ saved \in [AppThreads -> Frames \cup {Own}]
  /\ epc \in EncLabels /\ eframe \in Frames \cup {None}
  /\ ready \in BOOLEAN /\ threadError \in BOOLEAN
  /\ phase \in {"alive", "shutdown", "released", "joined"}

(* A buffer that getFrame may hand out is in nobody's hands, and one that   *)
(* is in use is in one place only: with one application thread, unlinked by *)
(* spoil, once on the queue, or in the encoder.  This is the question the   *)
(* TODO in sendFrame asks, whether spoil can complete a frame that is being *)
(* encoded.                                                                 *)
OneOwner ==
  /\ \A f \in Frames : InUse(f) => ~complete[f]
  /\ \A t, u \in AppThreads : t # u => \/ frame[t] = None
                                       \/ frame[t] # frame[u]
  /\ \A t, u \in AppThreads : dummy[t] # None => frame[u] # dummy[t]
  /\ \A f \in Frames : f \in Pending \cup {eframe} => Owners(f) \cup Unlinked(f) = {}
  /\ eframe \notin Pending
  /\ \A i, j \in 1 .. Len(list) : i # j => list[i] # list[j]

(* waitComplete is called inside the mutex of the pool, where it would hold *)
(* up every thread: the buffer it is called for is still complete.          *)
WaitCompleteNeverBlocks ==
  \A t \in AppThreads :
    pc[t] = "scan" /\ index[t] # None => complete[index[t]]

(* getFrame ends in "No free buffers in pool" only when the pool has less   *)
(* than two buffers over one for each thread, not counting those that were  *)
(* lost to failures: frames that are slow to be encoded never exhaust it.   *)
ExhaustedOnlyAfterLoss ==
  \A t \in AppThreads :
    pc[t] = "scan" /\ scan[t] = NFRAMES /\ index[t] = None
      => NFRAMES <= Cardinality(Lost) + Cardinality(AppThreads) + 1

(* The GLX context of a buffer is current on at most one thread, so neither *)
(* makeCurrent nor copyPixels is refused with BadAccess because the other   *)
(* side has not let go of it.                                               *)
ContextExclusive ==
  /\ \A p, q \in Threads : p # q => current[p] = Own \/ current[p] # current[q]
  /\ \A t \in AppThreads : pc[t] = "copyGL" => current[t] = frame[t]
  /\ epc = "encode" => current[Encoder] = eframe
  /\ \A f \in Frames : complete[f] => \A p \in Threads : current[p] # f

(* Outside init and copyPixels the application's own context is current, or *)
(* the context of a buffer that failed and is out of use for good.          *)
AppContextRestored ==
  \A t \in AppThreads :
    pc[t] \notin {"initGL", "copyGL"} => current[t] \in {Own} \cup Lost

Drawable(f) == storage[f] = size[f] /\ size[f] \in Sizes

(* A frame that is drawn into, queued or encoded has an FBO of the size it  *)
(* was asked for.                                                           *)
FrameDrawable ==
  /\ \A t \in AppThreads :
       pc[t] \notin {"init", "initGL"} /\ frame[t] # None => Drawable(frame[t])
  /\ \A f \in Pending : Drawable(f)
  /\ eframe # None => Drawable(eframe)

(* Until the queue is released there is an entry for each unclaimed item    *)
(* and for the one the encoder has claimed, and never a second unclaimed    *)
(* one: Head(list) is always there and frames do not pile up.               *)
QueueBound ==
  ~deadYet => hasItem <= 1 /\ Len(list) = hasItem + Claimed

(* The pool as the abstract specification sees it.                          *)
Status(f) ==
  CASE complete[f] -> "free"
    [] Owners(f) # {} -> "drawn"
    [] Unlinked(f) # {} \/ f \in Pending -> "waiting"
    [] f = eframe -> "encoded"
    [] OTHER -> "lost"

Spoiled == {t \in AppThreads : dummy[t] # None}

Waiting ==
  IF Spoiled = {} THEN list ELSE <<dummy[CHOOSE t \in Spoiled : TRUE]>> \o list

Lifecycle == INSTANCE FrameLifecycle WITH
  status <- [f \in Frames |-> Status(f)], waiting <- Waiting

(* Every step of the threads is a step of FrameLifecycle or changes nothing *)
(* there: frames leave in the order they came in, one is encoded at a time, *)
(* and only a newer frame makes spoil drop one.                             *)
Refines == Lifecycle!Spec

(* A frame that has been sent gets back to the pool, unless the encoder     *)
(* thread has died or the plugin is being destroyed.                        *)
SentFrameReturned ==
  \A f \in Frames : f \in Pending ~> complete[f] \/ threadError \/ shutdown

(* RRTransGetFrame and RRTransSendFrame return. *)
CallReturns ==
  \A t \in AppThreads : pc[t] \notin {"app", "sync"} ~> pc[t] = "app"

(* RRTransSynchronize returns when there is a frame the encoder can take.   *)
SyncWakes ==
  \A t \in AppThreads :
    pc[t] = "sync" /\ list # <<>> /\ ~threadError ~> pc[t] = "app"

(* The destructor joins the encoder thread, wherever that thread is when it *)
(* is called and even when it has died.                                     *)
DestructorJoins == phase = "shutdown" ~> phase = "joined"

=============================================================================

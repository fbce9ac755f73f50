----------------------------- MODULE HwEncoder -----------------------------
(***************************************************************************)
(* What the encoder thread does with NvIFR and with its outputs: initNVIFR,*)
(* setupNVIFRHwEnc, captureHwEnc and reset_encoder, called by              *)
(* GPUEncTrans::run, and SharedMem::write.  The thread is composed with    *)
(* NvIFR: each call is one of the actions here.  The frames a transfer     *)
(* object encodes are one H.264 stream.  Only the first frame of a stream  *)
(* can be decoded without the one before it.                               *)
(*                                                                         *)
(* The queue of frames is left to GPUEncTrans: here a request finds it     *)
(* empty or finds a frame of some size.  Sizes are numbers of pixels.      *)
(***************************************************************************)
EXTENDS Integers, FiniteSets

CONSTANTS
  Sizes,      \* the window sizes
  Pins,       \* the sizes a RESTART may ask for, 0 for the size of the window
  Segments,   \* the ids a RESTART may carry
  IntMax,     \* the largest int (2^31 - 1 in the code)
  MaxObjects, \* bound: transfer objects ever created
  MaxCount    \* bound: frames encoded by one transfer object

ASSUME SizesAssumption == Sizes \subseteq Nat \ {0} /\ Pins \subseteq Nat
ASSUME SegmentsAssumption == Segments \subseteq Nat \ {0}
ASSUME IntAssumption == IntMax \in Nat
ASSUME BoundsAssumption == MaxObjects \in Nat /\ MaxCount \in Nat

VARIABLES
  epc,       \* where the encoder thread is
  shutdown,  \* the destructor has begun
  pinned,    \* locals width and height of run
  frame,     \* frame->w and frame->h of the frame that is being encoded
  current,   \* the context of the frame's buffer is current on the thread
  dims,      \* members width and height
  transfer,  \* m_hTransferObject
  session,   \* m_hSession is not NULL
  file,      \* m_fpOut: the frame it ends with, Closed when it is NULL
  mem,       \* the id of the segment that shared_mem maps, None before a RESTART
  segment,   \* segment[id]: the frame in the shared memory of that id
  refused,   \* the last frame that was too large for SharedMem::write
  reused,    \* another server has opened the segment since it was mapped
  open, live, config, count, taken, locked, misused   \* NvIFR

locals  == <<shutdown, pinned, frame, current>>
outputs == <<file, mem, segment, refused, reused>>
handles == <<dims, transfer, session>>
nvifr   == <<open, live, config, count, taken, locked, misused>>
vars == <<epc, locals, outputs, handles, nvifr>>

-----------------------------------------------------------------------------
Objects == 1 .. MaxObjects
None    == 0

Api == INSTANCE NvIFR

Frame(o, n) == [object |-> o, number |-> n]
Nothing     == Frame(None, 0)   \* an output with no frame in it
Closed      == Frame(None, -1)  \* a file that is not open

Init ==
  /\ epc = "loop" /\ shutdown = FALSE /\ current = FALSE
  /\ pinned = 0 /\ frame = 0 /\ dims = 0
  /\ transfer = None /\ session = FALSE
  /\ file = Closed /\ mem = None
  /\ segment = [id \in Segments |-> Nothing] /\ refused = Nothing /\ reused = FALSE
  /\ Api!Init

Goto(from, to) == epc = from /\ epc' = to

(* Another thread runs the destructor. *)
Shutdown ==
  /\ ~shutdown /\ shutdown' = TRUE
  /\ UNCHANGED <<epc, pinned, frame, current, outputs, handles, nvifr>>

(* Another server process opens its segment.  Ids are times in seconds:     *)
(* either the segment is a new one, or the server that was killed has had   *)
(* the same id, and its segment is emptied while it is mapped here.         *)
NewServer ==
  /\ mem # None
  /\ segment' = [segment EXCEPT ![mem] = Nothing]
  /\ reused' = TRUE
  /\ UNCHANGED <<epc, locals, file, mem, refused, handles, nvifr>>

-----------------------------------------------------------------------------
(* GPUEncTrans::run *)

Loop ==
  /\ ~shutdown /\ Goto("loop", "receive")
  /\ UNCHANGED <<locals, outputs, handles, nvifr>>

LoopEnd ==
  /\ shutdown /\ Goto("loop", "end")
  /\ UNCHANGED <<locals, outputs, handles, nvifr>>

(* mighty_ipc.receive() returns a RESTART: its width and height are kept. *)
ReceiveRestart ==
  /\ Goto("receive", "reset")
  /\ pinned' \in Pins
  /\ UNCHANGED <<shutdown, frame, current, outputs, handles, nvifr>>

ReceiveRequest ==
  /\ Goto("receive", "items")
  /\ UNCHANGED <<locals, outputs, handles, nvifr>>

NothingQueued ==
  /\ Goto("items", "loop")
  /\ UNCHANGED <<locals, outputs, handles, nvifr>>

(* queue.get(), after which the size of the frame is known *)
TakeFrame ==
  /\ ~shutdown /\ Goto("items", "makeCurrent")
  /\ frame' \in Sizes
  /\ UNCHANGED <<shutdown, pinned, current, outputs, handles, nvifr>>

(* if (shutdown) return *)
ReturnEarly ==
  /\ shutdown /\ Goto("items", "returned")
  /\ UNCHANGED <<locals, outputs, handles, nvifr>>

(* buf->makeCurrent *)
MakeCurrent ==
  /\ Goto("makeCurrent", "setup")
  /\ current' = TRUE
  /\ UNCHANGED <<shutdown, pinned, frame, outputs, handles, nvifr>>

MakeCurrentThrow ==
  /\ Goto("makeCurrent", "catch")
  /\ UNCHANGED <<locals, outputs, handles, nvifr>>

(* No context is current any more, and FRAME_RESPONSE is sent, with         *)
(* whatever the segment holds.                                              *)
Respond ==
  /\ Goto("respond", "loop")
  /\ current' = FALSE
  /\ UNCHANGED <<shutdown, pinned, frame, outputs, handles, nvifr>>

(* The clean-up in the catch block and after the loop: no context is        *)
(* current, and m_hTransferObject and then m_hSession are destroyed, if     *)
(* they are not NULL.                                                       *)
CleanTransfer ==
  /\ \/ Goto("catch", "catchSession")
     \/ Goto("end", "endSession")
  /\ current' = FALSE
  /\ IF transfer # None THEN Api!DestroyTransferObject(transfer) ELSE UNCHANGED nvifr
  /\ UNCHANGED <<shutdown, pinned, frame, outputs, handles>>

CleanSession ==
  /\ \/ Goto("catchSession", "failed")
     \/ Goto("endSession", "exited")
  /\ IF session THEN Api!DestroySession ELSE UNCHANGED nvifr
  /\ UNCHANGED <<locals, outputs, handles>>

-----------------------------------------------------------------------------
(* reset_encoder *)

(* Variant: the transfer object is kept, only the outputs are new. *)
ResetEncoderKeep(id) ==
  /\ Goto("reset", "items")
  /\ file' = Nothing
  /\ mem' = id /\ reused' = FALSE
  /\ UNCHANGED <<locals, segment, refused, handles, nvifr>>

(* Variant: the handle is forgotten and the object not destroyed. *)
ResetEncoderLeak(id) ==
  /\ Goto("reset", "items")
  /\ transfer' = None
  /\ file' = Nothing
  /\ mem' = id /\ reused' = FALSE
  /\ UNCHANGED <<locals, segment, refused, dims, session, nvifr>>

DestroyTransfer ==
  /\ transfer' = None
  /\ IF transfer # None THEN Api!DestroyTransferObject(transfer) ELSE UNCHANGED nvifr

ResetEncoder(id) ==
  /\ Goto("reset", "items")
  /\ DestroyTransfer
  /\ file' = Nothing
  /\ mem' = id /\ reused' = FALSE
  /\ UNCHANGED <<locals, segment, refused, dims, session>>

(* Variant: the handle is set to NULL only when the file is open. *)
ResetThrowStale ==
  /\ Goto("reset", "catch")
  /\ IF transfer # None THEN Api!DestroyTransferObject(transfer) ELSE UNCHANGED nvifr
  /\ file' = Closed
  /\ UNCHANGED <<locals, mem, segment, refused, reused, handles>>

(* fopen fails *)
ResetThrow ==
  /\ Goto("reset", "catch")
  /\ DestroyTransfer
  /\ file' = Closed
  /\ UNCHANGED <<locals, mem, segment, refused, reused, dims, session>>

-----------------------------------------------------------------------------
(* initNVIFR and setupNVIFRHwEnc *)

(* Variant: the size is rounded up to whole macroblocks, as in XCapture. *)
WantedRounded ==
  32 * (((IF pinned # 0 THEN pinned ELSE frame) + 31) \div 32)

Wanted == IF pinned # 0 THEN pinned ELSE frame

InitNVIFR ==
  /\ ~session /\ Goto("setup", "setup")
  /\ session' = TRUE /\ Api!CreateSession
  /\ UNCHANGED <<locals, outputs, dims, transfer>>

(* nvIFROGLCreateSession fails *)
InitThrow ==
  /\ ~session /\ Goto("setup", "catch")
  /\ UNCHANGED <<locals, outputs, handles, nvifr>>

(* Variant: any transfer object will do. *)
SetupReuseAny ==
  /\ session /\ transfer # None
  /\ Goto("setup", "capture")
  /\ UNCHANGED <<locals, outputs, handles, nvifr>>

SetupReuse ==
  /\ session /\ transfer # None /\ dims = Wanted
  /\ Goto("setup", "capture")
  /\ UNCHANGED <<locals, outputs, handles, nvifr>>

(* An object of another size is destroyed, its handle is left as it is.     *)
SetupDestroy ==
  /\ session /\ ~(transfer # None /\ dims = Wanted)
  /\ Goto("setup", "create")
  /\ dims' = Wanted
  /\ IF transfer # None THEN Api!DestroyTransferObject(transfer) ELSE UNCHANGED nvifr
  /\ UNCHANGED <<locals, outputs, transfer, session>>

(* An int that has got too large wraps around, and so does one below zero   *)
(* that becomes an unsigned int.  Division truncates towards zero.          *)
Wrap(n) == ((n + IntMax + 1) % (2 * (IntMax + 1))) - (IntMax + 1)

(* Variant: 12 / 8 first, without its fraction. *)
BitRateTruncated(size) == Wrap(size * 30 * 1)

BitRate(size) ==
  LET product == Wrap(size * 30 * 12)
  IN  IF product >= 0 THEN product \div 8
                      ELSE 2 * (IntMax + 1) - ((-product) \div 8)

SetupCreate ==
  /\ Goto("create", "capture")
  /\ \E o \in Objects :
       /\ Api!Fresh(o)
       /\ transfer' = o
       /\ Api!CreateTransferToHwEncObject(o, [size |-> dims, rate |-> BitRate(dims)])
  /\ UNCHANGED <<locals, outputs, dims, session>>

(* NvIFR does not say what a call that fails does to the handle it was      *)
(* given to fill.                                                           *)
SetupThrow ==
  /\ Goto("create", "catch")
  /\ transfer' \in {transfer, None}
  /\ UNCHANGED <<locals, outputs, dims, session, nvifr>>

-----------------------------------------------------------------------------
(* captureHwEnc *)

(* nvIFROGLTransferFramebufferToHwEnc *)
Transfer ==
  /\ Goto("capture", "lock")
  /\ count[transfer] < MaxCount
  /\ Api!TransferFramebufferToHwEnc(transfer)
  /\ UNCHANGED <<locals, outputs, handles>>

(* the FBO is incomplete, or the frame is not transferred *)
TransferThrow ==
  /\ Goto("capture", "catch")
  /\ UNCHANGED <<locals, outputs, handles, nvifr>>

(* nvIFROGLLockTransferData *)
Lock ==
  /\ Goto("lock", "write")
  /\ Api!LockTransferData(transfer)
  /\ UNCHANGED <<locals, outputs, handles>>

(* Variant: a frame that cannot be locked is skipped, as in XCapture. *)
LockThrowSkip ==
  /\ Goto("lock", "respond")
  /\ UNCHANGED <<locals, outputs, handles, nvifr>>

LockThrow ==
  /\ Goto("lock", "catch")
  /\ UNCHANGED <<locals, outputs, handles, nvifr>>

Encoded == Frame(transfer, taken[transfer])

(* SharedMem::write refuses data that is larger than the segment. *)
Write(f) ==
  \/ segment' = [segment EXCEPT ![mem] = f] /\ UNCHANGED refused
  \/ refused' = f /\ UNCHANGED segment

(* fwrite to the file and shared_mem->write *)
WriteFrame ==
  /\ mem # None
  /\ Goto("write", "release")
  /\ file' = IF file = Closed THEN Closed ELSE Encoded
  /\ Write(Encoded)
  /\ UNCHANGED <<locals, mem, reused, handles, nvifr>>

(* nvIFROGLReleaseTransferData *)
Release ==
  /\ Goto("release", "respond")
  /\ Api!ReleaseTransferData(transfer)
  /\ UNCHANGED <<locals, outputs, handles>>

ReleaseThrow ==
  /\ Goto("release", "catch")
  /\ UNCHANGED <<locals, outputs, handles, nvifr>>

(* The whole process ends: reset_encoder cannot map the segment (exit), the *)
(* NvIFR entry points are NULL because nvIFR.initialize failed, or the      *)
(* frame is to be written although there never was a RESTART.               *)
Crash ==
  /\ \/ Goto("reset", "crashed")
     \/ ~session /\ Goto("setup", "crashed")
     \/ mem = None /\ Goto("write", "crashed")
  /\ UNCHANGED <<locals, outputs, handles, nvifr>>

Stopped == epc \in {"exited", "returned", "failed", "crashed"} /\ UNCHANGED vars

-----------------------------------------------------------------------------
Run ==
  \/ Loop \/ LoopEnd \/ ReceiveRestart \/ ReceiveRequest \/ NothingQueued
  \/ TakeFrame \/ ReturnEarly \/ MakeCurrent \/ MakeCurrentThrow \/ Respond
  \/ CleanTransfer \/ CleanSession

Reset == ResetThrow \/ \E id \in Segments : ResetEncoder(id)

Setup ==
  \/ InitNVIFR \/ InitThrow
  \/ SetupReuse \/ SetupDestroy \/ SetupCreate \/ SetupThrow

Capture ==
  \/ Transfer \/ TransferThrow \/ Lock \/ LockThrow
  \/ WriteFrame \/ Release \/ ReleaseThrow

Next ==
  \/ Shutdown \/ NewServer
  \/ Run \/ Reset \/ Setup \/ Capture \/ Crash \/ Stopped

Spec == Init /\ [][Next]_vars

-----------------------------------------------------------------------------
(* Properties *)

Steps == {"loop", "receive", "reset", "items", "makeCurrent", "setup", "create",
          "capture", "lock", "write", "release", "respond", "catch", "catchSession",
          "end", "endSession", "exited", "returned", "failed", "crashed"}

FrameSet  == [object : Objects, number : 1 .. MaxCount]
ConfigSet == [size : Sizes \cup Pins, rate : Int] \cup {Api!NoConfig}

(* Every variable has its type: a transfer object is configured for a size  *)
(* of the window or of a RESTART, and the outputs hold frames it encoded.   *)
TypeOK ==
  /\ epc \in Steps /\ shutdown \in BOOLEAN
  /\ pinned \in Pins \cup {0} /\ frame \in Sizes \cup {0} /\ current \in BOOLEAN
  /\ dims \in Sizes \cup Pins \cup {0}
  /\ transfer \in Objects \cup {None} /\ session \in BOOLEAN
  /\ file \in FrameSet \cup {Nothing, Closed} /\ mem \in Segments \cup {None}
  /\ segment \in [Segments -> FrameSet \cup {Nothing}] /\ refused \in FrameSet \cup {Nothing}
  /\ reused \in BOOLEAN
  /\ live \subseteq Objects /\ open \in BOOLEAN /\ locked \subseteq Objects
  /\ misused \in Nat
  /\ config \in [Objects -> ConfigSet]
  /\ count \in [Objects -> 0 .. MaxCount] /\ taken \in [Objects -> 0 .. MaxCount]

(* A frame is encoded in the size that the server asked for, or else in its *)
(* own size, by a transfer object that exists: neither a resize nor a       *)
(* RESTART between two frames leaves an object of the wrong size in use.    *)
CodedSize ==
  epc \in {"capture", "lock", "write", "release"} =>
    transfer \in live /\ config[transfer].size = Wanted

(* The data that is written is valid, and it is that of the frame that was  *)
(* asked for: no segment of an earlier frame is left in the queue.          *)
OwnFrame ==
  epc \in {"write", "release"} =>
    transfer \in locked /\ taken[transfer] = count[transfer]

(* m_hTransferObject is the only transfer object there is, and when the     *)
(* thread has failed or has left its loop nothing of NvIFR is left.  Only   *)
(* the return after queue.get() skips the clean-up: what stays behind then  *)
(* is what the members name, and no data is locked.                         *)
NothingLeaks ==
  /\ live \subseteq {transfer} /\ locked \subseteq live
  /\ epc \in {"exited", "failed"} => live = {} /\ ~open
  /\ epc = "returned" => locked = {} /\ (open <=> session)

(* 30 frames per second and 12 bits per pixel, over 8, is the bit rate of   *)
(* every stream, unless the window is so large that an int cannot hold the  *)
(* product, which with 32 bits is above 5,965,232 pixels.                   *)
RateFits ==
  \A o \in live : config[o].rate = 45 * config[o].size \/ 360 * config[o].size > IntMax

(* The call that the thread makes against the header: setupNVIFRHwEnc has   *)
(* destroyed an object of another size than the one it wants, and keeps the *)
(* handle when it cannot create its successor.  The catch block destroys it *)
(* a second time.                                                           *)
DestroysAgain ==
  /\ epc = "catch" /\ transfer # None
  /\ transfer \notin live /\ config[transfer].size # dims
  /\ Api!DestroyTransferObject(transfer)

(* The thread makes each call of NvIFR only when it may, but for that one:  *)
(* no other call is given a handle that is not valid, no data is released   *)
(* that is not locked, and no session is created and no frame transferred   *)
(* without a context, whichever calls have failed before.                   *)
UsesNvIFR == Api!Init /\ [][Api!Next \/ DestroysAgain]_(Api!vars)

(* What can be decoded after the frame that an output ended with. *)
Follows(last, next) ==
  \/ next.number = 1
  \/ last = Frame(next.object, next.number - 1)

(* A reader that follows a segment or a file from its RESTART on can decode *)
(* it: the first frame is the first of its stream, and each of the others   *)
(* comes after the one before it, however often the window is resized.      *)
(* There is a gap only in a segment, after a frame that is too large, or    *)
(* when a new server has opened it and its RESTART has not come yet.        *)
Decodable ==
  [][/\ epc = "write" /\ epc' = "release" /\ segment' # segment
          => \/ Follows(segment[mem], segment'[mem])
             \/ refused = Frame(transfer, taken[transfer] - 1)
             \/ reused
     /\ file' \notin {file, Nothing, Closed} => Follows(file, file')]_vars

(* What NvIFROpenGL.h says of NvIFROGLDestroyTransferObject: the handle it  *)
(* is given is one of an object that was created, and not destroyed since.  *)
HandleLive == epc \in {"catch", "end"} /\ transfer # None => transfer \in live

=============================================================================

-------------------------- MODULE HwEncoderProofs --------------------------
(* What holds of the encoder thread and NvIFR for any window sizes, any     *)
(* number of transfer objects and frames.                                   *)
EXTENDS HwEncoder, TLAPS

Held == {"loop", "receive", "reset", "items", "makeCurrent", "setup", "capture", "lock",
         "write", "release", "respond", "end", "returned"}

Capturing == {"capture", "lock", "write", "release"}

(* The member and the local handles, against what NvIFR has.                *)
HandleInv ==
  /\ live \subseteq {transfer} /\ locked \subseteq live
  /\ epc \notin {"write", "release", "catch", "crashed"} => locked = {}
  /\ epc \in Held /\ transfer # None => transfer \in live
  /\ epc \in {"create", "catchSession", "endSession", "failed", "exited"} => live = {}
  /\ open <=> (session /\ epc \notin {"failed", "exited"})
  /\ epc \in Capturing \cup {"create"} => session /\ frame \in Sizes /\ dims = Wanted
  /\ epc \in {"makeCurrent", "setup"} => frame \in Sizes
  /\ epc \in Capturing \cup {"setup", "create"} => current
  /\ epc \in Capturing => transfer # None

(* What an object was created with, and that nothing is queued for it but   *)
(* between the transfer and the lock.  A handle of an object that is gone   *)
(* is one of another size than the one that was wanted last.                *)
ObjectInv ==
  /\ \A o \in Objects : config[o] = Api!NoConfig => count[o] = 0 /\ taken[o] = 0
  /\ \A o \in live : /\ config[o] # Api!NoConfig
                     /\ config[o].size = dims /\ config[o].rate = BitRate(dims)
                     /\ epc \in Held \ {"lock"} => taken[o] = count[o]
  /\ epc = "lock" => count[transfer] = taken[transfer] + 1
  /\ epc \in {"write", "release"} => transfer \in locked /\ taken[transfer] >= 1
  /\ epc \in {"create", "catch"} /\ transfer # None /\ transfer \notin live =>
       config[transfer].size # dims

IInv == TypeOK /\ HandleInv /\ ObjectInv

USE SizesAssumption, SegmentsAssumption, IntAssumption, BoundsAssumption
USE DEF None

-----------------------------------------------------------------------------
(* An int that is not too large stays what it is.                           *)
LEMMA SmallRemainder ==
  ASSUME NEW a \in Nat, NEW b \in Nat, a < b
  PROVE  a % b = a
  OBVIOUS

(* A number that fits into an int stays as it is. *)
LEMMA WrapSmall ==
  ASSUME NEW n \in Nat, n <= IntMax
  PROVE  Wrap(n) = n
<1>1. (n + IntMax + 1) % (2 * (IntMax + 1)) = n + IntMax + 1
  BY SmallRemainder
<1> QED
  BY <1>1 DEF Wrap

(* The bit rate is an integer, and for windows that are not too large it is *)
(* what 30 frames per second and 12 bits per pixel come to, over 8.         *)
LEMMA BitRateType ==
  ASSUME NEW n \in Nat
  PROVE  BitRate(n) \in Int
<1>1. Wrap(n * 30 * 12) \in Int
  BY DEF Wrap
<1> QED
  BY <1>1 DEF BitRate

(* The bit rate of a size whose product fits is the one meant. *)
LEMMA BitRateSmall ==
  ASSUME NEW n \in Nat, 360 * n <= IntMax
  PROVE  BitRate(n) = 45 * n
<1>1. n * 30 * 12 = 360 * n
  OBVIOUS
<1>2. Wrap(n * 30 * 12) = 360 * n
  BY <1>1, WrapSmall
<1>3. (360 * n) \div 8 = 45 * n
  OBVIOUS
<1> QED
  BY <1>2, <1>3 DEF BitRate

-----------------------------------------------------------------------------
USE DEF Goto, locals, outputs, handles, nvifr, Held, Capturing, Api!Needs

(* What the size of the frame, or that of the RESTART, is *)
LEMMA WantedType ==
  ASSUME TypeOK, frame \in Sizes
  PROVE  Wanted \in Sizes \cup Pins /\ Wanted \in Nat \ {0}
  BY DEF TypeOK, Wanted

(* The steps that leave NvIFR and the handles alone *)
LEMMA IdleStep ==
  ASSUME IInv,
         \/ Shutdown \/ Loop \/ LoopEnd \/ ReceiveRestart \/ ReceiveRequest
         \/ NothingQueued \/ TakeFrame \/ ReturnEarly \/ MakeCurrent \/ MakeCurrentThrow
         \/ Respond \/ InitThrow \/ SetupReuse \/ TransferThrow \/ LockThrow
         \/ ReleaseThrow \/ Crash \/ Stopped
  PROVE  IInv'
<1> USE DEF IInv
<1>1. UNCHANGED <<handles, nvifr, outputs>>
  BY DEF Shutdown, Loop, LoopEnd, ReceiveRestart, ReceiveRequest, NothingQueued,
         TakeFrame, ReturnEarly, MakeCurrent, MakeCurrentThrow, Respond, InitThrow,
         SetupReuse, TransferThrow, LockThrow,
         ReleaseThrow, Crash, Stopped, vars
<1>2. TypeOK'
  <2>1. epc' \in Steps
    BY DEF TypeOK, Steps, Shutdown, Loop, LoopEnd, ReceiveRestart, ReceiveRequest,
           NothingQueued, TakeFrame, ReturnEarly, MakeCurrent, MakeCurrentThrow,
           Respond, InitThrow, SetupReuse,
           TransferThrow, LockThrow, ReleaseThrow, Crash, Stopped, vars
  <2>2. /\ shutdown' \in BOOLEAN /\ pinned' \in Pins \cup {0}
        /\ frame' \in Sizes \cup {0} /\ current' \in BOOLEAN
    BY DEF TypeOK, Shutdown, Loop, LoopEnd, ReceiveRestart, ReceiveRequest,
           NothingQueued, TakeFrame, ReturnEarly, MakeCurrent, MakeCurrentThrow,
           Respond, InitThrow, SetupReuse,
           TransferThrow, LockThrow, ReleaseThrow, Crash, Stopped, vars
  <2> QED
    BY <1>1, <2>1, <2>2 DEF TypeOK
<1>3. HandleInv'
  BY <1>1 DEF TypeOK, HandleInv, Wanted, Shutdown, Loop, LoopEnd, ReceiveRestart,
         ReceiveRequest, NothingQueued, TakeFrame, ReturnEarly, MakeCurrent,
         MakeCurrentThrow, Respond, InitThrow,
         SetupReuse, TransferThrow, LockThrow, ReleaseThrow, Crash, Stopped, vars
<1>4. ObjectInv'
  BY <1>1 DEF TypeOK, HandleInv, ObjectInv, Api!NoConfig, BitRate, Wrap, Shutdown, Loop,
         LoopEnd, ReceiveRestart, ReceiveRequest, NothingQueued, TakeFrame, ReturnEarly,
         MakeCurrent, MakeCurrentThrow,
         Respond, InitThrow, SetupReuse, TransferThrow, LockThrow, ReleaseThrow, Crash,
         Stopped, vars
<1> QED
  BY <1>2, <1>3, <1>4

(* Another server empties the segment, and nothing else changes. *)
LEMMA NewServerStep ==
  ASSUME IInv, NewServer
  PROVE  IInv'
<1> USE DEF IInv
<1>1. /\ UNCHANGED <<epc, locals, file, mem, refused, handles, nvifr>>
      /\ reused' = TRUE
      /\ segment' \in [Segments -> FrameSet \cup {Nothing}]
  BY DEF NewServer, TypeOK
<1>2. TypeOK'
  BY <1>1 DEF TypeOK
<1>3. HandleInv' /\ ObjectInv'
  BY <1>1 DEF HandleInv, ObjectInv, Wanted, BitRate, Wrap
<1> QED
  BY <1>2, <1>3

(* A transfer object that is destroyed was the only one. *)
LEMMA DestroyOnly ==
  ASSUME IInv,
         IF transfer # None THEN Api!DestroyTransferObject(transfer) ELSE UNCHANGED nvifr
  PROVE  /\ live' = {} /\ locked' = {} /\ misused' \in Nat
         /\ UNCHANGED <<open, config, count, taken>>
<1>1. /\ live \subseteq {transfer} /\ locked \subseteq live /\ live \subseteq Objects
      /\ misused \in Nat
  BY DEF IInv, TypeOK, HandleInv
<1>2. CASE transfer = None
  <2>1. live = {}
    BY <1>1, <1>2 DEF Objects
  <2> QED
    BY <1>1, <1>2, <2>1
<1>3. CASE transfer # None
  BY <1>1, <1>3 DEF Api!DestroyTransferObject
<1> QED
  BY <1>2, <1>3

(* The steps that destroy the transfer object *)
LEMMA DestroyStep ==
  ASSUME IInv,
         \/ CleanTransfer \/ ResetThrow \/ SetupDestroy
         \/ \E id \in Segments : ResetEncoder(id)
  PROVE  IInv'
<1> USE DEF IInv, DestroyTransfer
<1>1. /\ live' = {} /\ locked' = {} /\ misused' \in Nat
      /\ UNCHANGED <<open, config, count, taken>>
  BY DestroyOnly DEF CleanTransfer, ResetThrow, SetupDestroy, ResetEncoder
<1>2. /\ epc' \in {"catchSession", "endSession", "catch", "create", "items"}
      /\ UNCHANGED <<shutdown, pinned, frame, session>>
      /\ current' \in {current, FALSE} /\ (epc' = "create" => current')
      /\ transfer' \in {transfer, None}
      /\ epc' = "items" => transfer' = None
      /\ epc' = "create" => session /\ frame \in Sizes /\ dims' = Wanted
      /\ epc' # "create" => dims' = dims
      /\ epc \notin {"failed", "exited"}
  BY DEF CleanTransfer, ResetThrow, SetupDestroy, ResetEncoder, HandleInv
<1>3. /\ file' \in {file, Nothing, Closed} /\ mem' \in Segments \cup {mem}
      /\ UNCHANGED <<segment, refused>> /\ (reused' = reused \/ reused' = FALSE)
  BY DEF CleanTransfer, ResetThrow, SetupDestroy, ResetEncoder
<1>4. TypeOK'
  <2>1. dims' \in Sizes \cup Pins \cup {0}
    BY <1>2, WantedType DEF TypeOK
  <2>2. reused' \in BOOLEAN /\ current' \in BOOLEAN
    BY <1>2, <1>3, Zenon DEF TypeOK
  <2> QED
    BY <1>1, <1>2, <1>3, <2>1, <2>2 DEF TypeOK, Steps
<1>5. HandleInv'
  BY <1>1, <1>2 DEF TypeOK, HandleInv, Wanted
<1>6. epc' \in {"create", "catch"} /\ transfer' # None => config[transfer].size # dims'
  BY DEF CleanTransfer, ResetThrow, SetupDestroy, ResetEncoder, HandleInv, ObjectInv, Wanted
<1>7. ObjectInv'
  BY <1>1, <1>2, <1>6 DEF ObjectInv
<1> QED
  BY <1>4, <1>5, <1>7

(* Both clean-ups destroy the session when no object is live. *)
LEMMA DestroySessionStep ==
  ASSUME IInv, CleanSession
  PROVE  IInv'
<1> USE DEF IInv, CleanSession, Api!DestroySession
<1>1. /\ epc \in {"catchSession", "endSession"} /\ epc' \in {"failed", "exited"}
      /\ live = {} /\ ~open' /\ open' \in BOOLEAN
      /\ UNCHANGED <<locals, outputs, handles, live, config, count, taken, locked>>
  BY DEF TypeOK, HandleInv
<1>2. TypeOK'
  BY <1>1 DEF TypeOK, Steps
<1>3. HandleInv'
  BY <1>1 DEF HandleInv
<1>4. ObjectInv'
  BY <1>1 DEF HandleInv, ObjectInv
<1> QED
  BY <1>2, <1>3, <1>4

(* The steps that create the session or a transfer object *)
LEMMA CreateStep ==
  ASSUME IInv, InitNVIFR \/ SetupCreate \/ SetupThrow
  PROVE  IInv'
<1> USE DEF IInv
<1>1. CASE InitNVIFR
  BY <1>1 DEF InitNVIFR, Api!CreateSession, TypeOK, Steps, HandleInv, ObjectInv, Wanted
<1>2. CASE SetupThrow
  BY <1>2 DEF SetupThrow, TypeOK, Steps, HandleInv, ObjectInv, Wanted
<1>3. CASE SetupCreate
  <2>1. PICK o \in Objects :
          /\ Api!Fresh(o) /\ transfer' = o
          /\ Api!CreateTransferToHwEncObject(o, [size |-> dims, rate |-> BitRate(dims)])
    BY <1>3 DEF SetupCreate
  <2>2. /\ epc = "create" /\ epc' = "capture" /\ live = {} /\ locked = {}
        /\ UNCHANGED <<locals, outputs, dims, session, open, count, taken, locked>>
    BY <1>3, <2>1 DEF SetupCreate, HandleInv, Api!CreateTransferToHwEncObject
  <2>3. dims \in Sizes \cup Pins /\ dims \in Nat \ {0} /\ BitRate(dims) \in Int
    BY <2>2, WantedType, BitRateType DEF HandleInv
  <2>4. /\ live' = {o} /\ config[o] = Api!NoConfig
        /\ config' = [config EXCEPT ![o] = [size |-> dims, rate |-> BitRate(dims)]]
        /\ misused' \in Nat
    BY <2>1, <2>2 DEF Api!Fresh, Api!CreateTransferToHwEncObject, TypeOK
  <2>5. TypeOK'
    <3>1. [size |-> dims, rate |-> BitRate(dims)] \in ConfigSet
      BY <2>3 DEF ConfigSet
    <3>2. config' \in [Objects -> ConfigSet]
      BY <2>1, <2>4, <3>1 DEF TypeOK
    <3> QED
      BY <2>1, <2>2, <2>4, <3>2 DEF TypeOK, Steps
  <2>6. HandleInv'
    <3>1. o # None
      BY <2>1 DEF Objects
    <3> QED
      BY <2>1, <2>2, <2>4, <3>1 DEF TypeOK, HandleInv, Wanted
  <2>7. ObjectInv'
    <3>1. config'[o] = [size |-> dims, rate |-> BitRate(dims)] /\ config'[o].size # 0
      BY <2>3, <2>4 DEF TypeOK
    <3>2. config'[o] # Api!NoConfig
      BY <3>1 DEF Api!NoConfig
    <3>3. BitRate(dims)' = BitRate(dims)
      BY <2>2 DEF BitRate, Wrap
    <3> QED
      BY <2>1, <2>2, <2>3, <2>4, <3>1, <3>2, <3>3 DEF TypeOK, HandleInv, ObjectInv
  <2> QED
    BY <2>5, <2>6, <2>7
<1> QED
  BY <1>1, <1>2, <1>3

(* A frame on its way through the hardware encoder *)
LEMMA CaptureStep ==
  ASSUME IInv, Transfer \/ Lock \/ WriteFrame \/ Release
  PROVE  IInv'
<1> USE DEF IInv
<1>1. CASE Transfer
  BY <1>1 DEF Transfer, Api!TransferFramebufferToHwEnc, TypeOK, Steps, HandleInv,
              ObjectInv, Wanted
<1>2. CASE Lock
  BY <1>2 DEF Lock, Api!LockTransferData, TypeOK, Steps, HandleInv, ObjectInv, Wanted
<1>3. CASE WriteFrame
  <2>1. /\ epc = "write" /\ epc' = "release" /\ mem \in Segments
        /\ UNCHANGED <<locals, mem, reused, handles, nvifr>>
    BY <1>3 DEF WriteFrame, TypeOK
  <2>2. Encoded \in FrameSet
    BY <2>1 DEF Encoded, Frame, FrameSet, TypeOK, HandleInv, ObjectInv
  <2>3. /\ file' \in FrameSet \cup {Nothing, Closed}
        /\ segment' \in [Segments -> FrameSet \cup {Nothing}]
        /\ refused' \in FrameSet \cup {Nothing}
    BY <1>3, <2>1, <2>2 DEF WriteFrame, Write, TypeOK
  <2> QED
    BY <2>1, <2>3 DEF TypeOK, Steps, HandleInv, ObjectInv, Wanted
<1>4. CASE Release
  BY <1>4 DEF Release, Api!ReleaseTransferData, TypeOK, Steps, HandleInv, ObjectInv, Wanted
<1> QED
  BY <1>1, <1>2, <1>3, <1>4

-----------------------------------------------------------------------------
(* Every step preserves the inductive invariant. *)
LEMMA Step ==
  ASSUME IInv, [Next]_vars
  PROVE  IInv'
<1>1. CASE UNCHANGED vars
  BY <1>1, IdleStep DEF vars, IInv, TypeOK, HandleInv, ObjectInv, Wanted, BitRate, Wrap
<1>2. CASE Next
  BY <1>2, IdleStep, NewServerStep, DestroyStep, DestroySessionStep, CreateStep,
     CaptureStep
     DEF Next, Run, Reset, Setup, Capture
<1> QED
  BY <1>1, <1>2

(* All begins without a session, an object or a frame. *)
LEMMA Start == Init => IInv
<1> SUFFICES ASSUME Init PROVE IInv
  OBVIOUS
<1>1. TypeOK
  <2>1. /\ shutdown \in BOOLEAN /\ session \in BOOLEAN /\ open \in BOOLEAN
        /\ file \in FrameSet \cup {Nothing, Closed} /\ refused \in FrameSet \cup {Nothing}
        /\ segment \in [Segments -> FrameSet \cup {Nothing}]
        /\ config \in [Objects -> ConfigSet]
    BY Zenon DEF Init, Api!Init, ConfigSet
  <2>2. count \in [Objects -> 0 .. MaxCount] /\ taken \in [Objects -> 0 .. MaxCount]
    BY DEF Init, Api!Init
  <2> QED
    BY <2>1, <2>2 DEF Init, Api!Init, TypeOK, Steps
<1>2. HandleInv /\ ObjectInv
  BY DEF Init, Api!Init, HandleInv, ObjectInv
<1> QED
  BY <1>1, <1>2 DEF IInv

(* The inductive invariant holds in every state. *)
THEOREM Invariance == Spec => []IInv
  BY Start, Step, PTL DEF Spec

(* Every variable of HwEncoder keeps its type. *)
THEOREM TypeCorrect == Spec => []TypeOK
<1>1. IInv => TypeOK
  BY DEF IInv
<1> QED
  BY <1>1, Invariance, PTL

(* Whatever resizes and RESTARTs come between two frames, a frame is        *)
(* encoded by a live transfer object of the size it has to be.              *)
THEOREM RightSize == Spec => []CodedSize
<1>1. IInv => CodedSize
  BY DEF IInv, TypeOK, HandleInv, ObjectInv, CodedSize
<1> QED
  BY <1>1, Invariance, PTL

(* The data written to the outputs is valid and is the frame's own. *)
THEOREM WritesOwnFrame == Spec => []OwnFrame
<1>1. IInv => OwnFrame
  BY DEF IInv, TypeOK, HandleInv, ObjectInv, OwnFrame
<1> QED
  BY <1>1, Invariance, PTL

(* No transfer object is left over, and no session after the clean-up; the  *)
(* early return leaves what the members name.                               *)
THEOREM NoLeak == Spec => []NothingLeaks
<1>1. IInv => NothingLeaks
  BY DEF IInv, TypeOK, HandleInv, NothingLeaks
<1> QED
  BY <1>1, Invariance, PTL

(* Only a window that is too large for an int has another bit rate than the *)
(* one meant.                                                               *)
THEOREM BitRates == Spec => []RateFits
<1>1. IInv => RateFits
  <2> SUFFICES ASSUME IInv, NEW o \in live, 360 * config[o].size <= IntMax
               PROVE  config[o].rate = 45 * config[o].size
    BY DEF IInv, TypeOK, ObjectInv, RateFits
  <2>1. dims \in Nat /\ config[o].size = dims /\ config[o].rate = BitRate(dims)
    BY DEF IInv, TypeOK, ObjectInv
  <2> QED
    BY <2>1, BitRateSmall
<1> QED
  BY <1>1, Invariance, PTL

(* The encoder thread is the client that NvIFROpenGL.h asks for, but for    *)
(* the handle that its catch block destroys after setupNVIFRHwEnc has: no   *)
(* other of its calls, in any order of frames, RESTARTs, resizes and        *)
(* failures, is one that a client may not make.                             *)
THEOREM Refinement == Spec => UsesNvIFR
<1>1. Init => Api!Init
  BY DEF Init
<1>2. IInv /\ [Next]_vars => [Api!Next \/ DestroysAgain]_(Api!vars)
  <2> SUFFICES ASSUME IInv, [Next]_vars
               PROVE  Api!Next \/ DestroysAgain \/ UNCHANGED Api!vars
    OBVIOUS
  <2> USE DEF Api!vars, Api!Next, Api!CallSession, Api!CallObject, IInv
  <2>1. ASSUME IF transfer # None THEN Api!DestroyTransferObject(transfer) ELSE UNCHANGED nvifr,
               transfer \in live \/ transfer = None
        PROVE  Api!Next \/ UNCHANGED Api!vars
    <3>1. CASE transfer = None
      BY <2>1, <3>1
    <3>2. CASE transfer # None
      <4>1. /\ transfer \in Objects /\ transfer \in live
            /\ Api!DestroyTransferObject(transfer)
        BY <2>1, <3>2 DEF TypeOK
      <4>2. misused' = misused
        BY <4>1 DEF Api!DestroyTransferObject
      <4> QED
        BY <4>1, <4>2
    <3> QED
      BY <3>1, <3>2
  <2>2. CASE ResetThrow \/ SetupDestroy \/ \E id \in Segments : ResetEncoder(id)
    <3>1. epc \in Held /\ (transfer \in live \/ transfer = None)
      BY <2>2 DEF ResetThrow, SetupDestroy, ResetEncoder, HandleInv
    <3>2. IF transfer # None THEN Api!DestroyTransferObject(transfer) ELSE UNCHANGED nvifr
      BY <2>2 DEF ResetThrow, SetupDestroy, ResetEncoder, DestroyTransfer
    <3> QED
      BY <2>1, <3>1, <3>2
  <2>3. CASE CleanSession
    BY <2>3 DEF CleanSession, Api!DestroySession, HandleInv
  <2>4. CASE InitNVIFR
    BY <2>4 DEF InitNVIFR, Api!CreateSession, HandleInv
  <2>5. CASE SetupCreate
    <3>1. PICK o \in Objects :
            /\ Api!Fresh(o)
            /\ Api!CreateTransferToHwEncObject(o, [size |-> dims, rate |-> BitRate(dims)])
      BY <2>5 DEF SetupCreate
    <3>2. /\ config'[o] = [size |-> dims, rate |-> BitRate(dims)]
          /\ misused' = misused
      BY <2>5, <3>1 DEF SetupCreate, Api!CreateTransferToHwEncObject, TypeOK, HandleInv
    <3> QED
      BY <3>1, <3>2
  <2>6. CASE Transfer
    <3>1. /\ transfer \in Objects /\ transfer \in live /\ current
          /\ Api!TransferFramebufferToHwEnc(transfer)
      BY <2>6 DEF Transfer, TypeOK, HandleInv
    <3>2. misused' = misused
      BY <3>1 DEF Api!TransferFramebufferToHwEnc
    <3> QED
      BY <3>1, <3>2
  <2>7. CASE Lock
    <3>1. transfer \in Objects /\ transfer \in live /\ Api!LockTransferData(transfer)
      BY <2>7 DEF Lock, TypeOK, HandleInv
    <3>2. taken[transfer] < count[transfer]
      BY <2>7, <3>1 DEF Lock, TypeOK, ObjectInv
    <3>3. misused' = misused
      BY <3>1, <3>2 DEF Api!LockTransferData
    <3> QED
      BY <3>1, <3>3
  <2>8. CASE Release
    <3>1. transfer \in Objects /\ transfer \in locked /\ Api!ReleaseTransferData(transfer)
      BY <2>8 DEF Release, TypeOK, HandleInv, ObjectInv
    <3>2. misused' = misused
      BY <3>1 DEF Api!ReleaseTransferData
    <3> QED
      BY <3>1, <3>2
  <2>9. CASE CleanTransfer
    <3>1. /\ epc \in {"catch", "end"}
          /\ IF transfer # None THEN Api!DestroyTransferObject(transfer) ELSE UNCHANGED nvifr
      BY <2>9 DEF CleanTransfer
    <3>2. CASE transfer \in live \/ transfer = None
      BY <2>1, <3>1, <3>2
    <3>3. CASE transfer \notin live /\ transfer # None
      BY <3>1, <3>3 DEF DestroysAgain, HandleInv, ObjectInv
    <3> QED
      BY <3>2, <3>3
  <2>10. CASE UNCHANGED nvifr
    BY <2>10
  <2> QED
    BY <2>2, <2>3, <2>4, <2>5, <2>6, <2>7, <2>8, <2>9, <2>10
       DEF Next, Run, Reset, Setup, Capture, Shutdown, NewServer, Loop, LoopEnd,
           ReceiveRestart, ReceiveRequest, NothingQueued, TakeFrame, ReturnEarly, MakeCurrent,
           MakeCurrentThrow, Respond, InitThrow, SetupReuse, SetupThrow, TransferThrow,
           LockThrow, ReleaseThrow, WriteFrame, Crash, Stopped, vars
<1> QED
  BY <1>1, <1>2, Invariance, PTL DEF Spec, UsesNvIFR

-----------------------------------------------------------------------------
(* The number of the frame that the outputs should end with *)
Written == IF epc = "write" THEN taken[transfer] - 1 ELSE taken[transfer]

OutputInv ==
  transfer \in live /\ epc # "crashed" /\ Written > 0 =>
    /\ file # Closed => file = Frame(transfer, Written)
    /\ mem # None /\ ~reused => Frame(transfer, Written) \in {segment[mem], refused}

(* Without an object there is nothing the outputs should end with.          *)
LEMMA OutputNoObject ==
  ASSUME IInv, live' = {}
  PROVE  OutputInv'
  BY DEF OutputInv

(* Outputs change when a frame is locked, written or forgotten. *)
LEMMA OutputStep ==
  ASSUME IInv, OutputInv, [Next]_vars
  PROVE  OutputInv'
<1> USE DEF IInv
<1>1. CASE Lock
  BY <1>1 DEF Lock, Api!LockTransferData, TypeOK, HandleInv, ObjectInv, OutputInv,
              Written, Frame
<1>2. CASE WriteFrame
  <2>1. /\ epc = "write" /\ epc' = "release" /\ mem \in Segments
        /\ UNCHANGED <<locals, mem, reused, handles, nvifr>>
    BY <1>2 DEF WriteFrame, TypeOK
  <2>2. Written' = taken[transfer] /\ Encoded = Frame(transfer, taken[transfer])
    BY <2>1 DEF Written, Encoded
  <2>3. file' # Closed => file' = Frame(transfer, taken[transfer])
    BY <1>2, <2>2 DEF WriteFrame
  <2>4. Frame(transfer, taken[transfer]) \in {segment'[mem], refused'}
    BY <1>2, <2>1, <2>2 DEF WriteFrame, Write, TypeOK
  <2>5. Frame(transfer, Written)' = Frame(transfer, taken[transfer])
    BY <2>1, <2>2 DEF Frame
  <2> QED
    BY <2>1, <2>3, <2>4, <2>5 DEF OutputInv
<1>3. CASE \/ CleanTransfer \/ ResetThrow \/ SetupDestroy
           \/ \E id \in Segments : ResetEncoder(id)
  BY <1>3, DestroyOnly, OutputNoObject
     DEF CleanTransfer, ResetThrow, SetupDestroy, ResetEncoder, DestroyTransfer
<1>4. CASE CleanSession \/ SetupThrow
  BY <1>4, OutputNoObject DEF CleanSession, Api!DestroySession, SetupThrow, HandleInv
<1>5. CASE SetupCreate
  <2>1. PICK o \in Objects :
          /\ Api!Fresh(o) /\ transfer' = o
          /\ Api!CreateTransferToHwEncObject(o, [size |-> dims, rate |-> BitRate(dims)])
    BY <1>5 DEF SetupCreate
  <2>2. taken'[transfer'] = 0 /\ epc' = "capture"
    BY <1>5, <2>1 DEF SetupCreate, Api!Fresh, Api!CreateTransferToHwEncObject, ObjectInv
  <2> QED
    BY <2>2 DEF OutputInv, Written
<1>6. CASE Transfer
  BY <1>6 DEF Transfer, Api!TransferFramebufferToHwEnc, OutputInv, Written, Frame
<1>7. CASE Release
  BY <1>7 DEF Release, Api!ReleaseTransferData, OutputInv, Written, Frame
<1>8. CASE InitNVIFR
  BY <1>8 DEF InitNVIFR, Api!CreateSession, OutputInv, Written, Frame
<1>9. CASE /\ UNCHANGED <<handles, nvifr, outputs>>
           /\ epc' = "crashed" \/ (epc = "write" <=> epc' = "write")
           /\ epc = "crashed" => epc' = "crashed"
  BY <1>9 DEF OutputInv, Written, Frame
<1>10. CASE \/ Shutdown \/ Loop \/ LoopEnd \/ ReceiveRestart \/ ReceiveRequest
            \/ NothingQueued \/ TakeFrame \/ ReturnEarly \/ MakeCurrent \/ MakeCurrentThrow
            \/ Respond \/ InitThrow \/ SetupReuse \/ TransferThrow \/ LockThrow
            \/ ReleaseThrow \/ Crash \/ Stopped \/ UNCHANGED vars
  BY <1>9, <1>10 DEF Shutdown, Loop, LoopEnd, ReceiveRestart, ReceiveRequest,
         NothingQueued, TakeFrame, ReturnEarly, MakeCurrent, MakeCurrentThrow, Respond,
         InitThrow, SetupReuse, TransferThrow, LockThrow, ReleaseThrow, Crash, Stopped, vars
<1>11. CASE NewServer
  BY <1>11 DEF NewServer, OutputInv, Written, Frame
<1> QED
  BY <1>1, <1>2, <1>3, <1>4, <1>5, <1>6, <1>7, <1>8, <1>10, <1>11
     DEF Next, Run, Reset, Setup, Capture

(* From its RESTART on, every output can be decoded: each frame in it comes *)
(* right after the one before it, but for a frame that was too large.       *)
THEOREM OutputsDecodable == Spec => Decodable
<1>1. Init => OutputInv
  BY DEF Init, Api!Init, OutputInv
<1>2. IInv /\ OutputInv /\ [Next]_vars => OutputInv'
  BY OutputStep
<1>3. Spec => []OutputInv
  BY <1>1, <1>2, Invariance, PTL DEF Spec
<1>4. ASSUME IInv, OutputInv, [Next]_vars,
             epc = "write", epc' = "release", segment' # segment
      PROVE  \/ Follows(segment[mem], segment'[mem])
             \/ refused = Frame(transfer, taken[transfer] - 1)
             \/ reused
  <2>1. WriteFrame
    BY <1>4 DEF Next, Run, Reset, Setup, Capture, Shutdown, NewServer, Loop, LoopEnd,
         ReceiveRestart, ReceiveRequest, NothingQueued, TakeFrame, ReturnEarly,
         MakeCurrent, MakeCurrentThrow, Respond,
         CleanTransfer, CleanSession, ResetThrow, ResetEncoder, InitNVIFR, InitThrow, SetupReuse,
         SetupDestroy, SetupCreate, SetupThrow, Transfer, TransferThrow, Lock, LockThrow,
         Release, ReleaseThrow, Crash, Stopped, vars
  <2>2. mem \in Segments /\ segment'[mem] = Frame(transfer, taken[transfer])
    BY <1>4, <2>1 DEF WriteFrame, Write, Encoded, IInv, TypeOK
  <2>3. /\ transfer \in live /\ taken[transfer] \in Nat \ {0}
        /\ Written = taken[transfer] - 1
    BY <1>4 DEF IInv, TypeOK, HandleInv, ObjectInv, Written
  <2>4. CASE taken[transfer] = 1
    BY <2>2, <2>4 DEF Follows, Frame
  <2>5. CASE taken[transfer] # 1 /\ ~reused
    <3>1. Frame(transfer, taken[transfer] - 1) \in {segment[mem], refused}
      BY <1>4, <2>2, <2>3, <2>5 DEF OutputInv
    <3> QED
      BY <2>2, <3>1 DEF Follows, Frame
  <2> QED
    BY <2>4, <2>5
<1>5. ASSUME IInv, OutputInv, [Next]_vars, file' \notin {file, Nothing, Closed}
      PROVE  Follows(file, file')
  <2>1. WriteFrame
    BY <1>5 DEF Next, Run, Reset, Setup, Capture, Shutdown, NewServer, Loop, LoopEnd,
         ReceiveRestart, ReceiveRequest, NothingQueued, TakeFrame, ReturnEarly,
         MakeCurrent, MakeCurrentThrow, Respond,
         CleanTransfer, CleanSession, ResetThrow, ResetEncoder, InitNVIFR, InitThrow, SetupReuse,
         SetupDestroy, SetupCreate, SetupThrow, Transfer, TransferThrow, Lock, LockThrow,
         Release, ReleaseThrow, Crash, Stopped, vars
  <2>2. epc = "write" /\ file # Closed /\ file' = Frame(transfer, taken[transfer])
    BY <1>5, <2>1 DEF WriteFrame, Encoded
  <2>3. /\ transfer \in live /\ taken[transfer] \in Nat \ {0}
        /\ Written = taken[transfer] - 1
    BY <1>5, <2>2 DEF IInv, TypeOK, HandleInv, ObjectInv, Written
  <2>4. CASE taken[transfer] = 1
    BY <2>2, <2>4 DEF Follows, Frame
  <2>5. CASE taken[transfer] # 1
    <3>1. file = Frame(transfer, taken[transfer] - 1)
      BY <1>5, <2>2, <2>3, <2>5 DEF OutputInv
    <3> QED
      BY <2>2, <3>1 DEF Follows, Frame
  <2> QED
    BY <2>4, <2>5
<1> QED
  BY <1>3, <1>4, <1>5, Invariance, PTL DEF Spec, Decodable

=============================================================================

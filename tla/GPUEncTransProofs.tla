------------------------- MODULE GPUEncTransProofs -------------------------
(***************************************************************************)
(* Proofs about GPUEncTrans, for any number of buffers, of application     *)
(* threads and of window sizes.                                            *)
(***************************************************************************)
EXTENDS GPUEncTrans, SequenceTheorems, TLAPS

-----------------------------------------------------------------------------
(* The inductive invariant. *)

Holding == {"init", "initGL", "copyGL", "spoil", "drain"}

(* What an application thread holds at each point of its call. *)
ThreadInv ==
  /\ \A t \in AppThreads :
       /\ pc[t] \in Holding => frame[t] # None
       /\ pc[t] \in {"lock", "scan"} => frame[t] = None
       /\ dummy[t] # None => pc[t] = "drain" /\ hasItem = 0
       /\ pc[t] = "scan" <=> t \in mutex
       /\ pc[t] = "drain" <=> t \in queueLock
       /\ shutdown => pc[t] = "app"
  /\ \A t, u \in mutex : t = u
  /\ \A t, u \in queueLock : t = u

EncoderInv ==
  /\ eframe # None => epc \in {"check", "setup", "encode", "complete"}
  /\ epc \in {"setup", "encode", "complete"} => eframe # None

(* OneOwner, frame by frame. *)
OwnerInv ==
  /\ \A t \in AppThreads :
       frame[t] # None => ~complete[frame[t]] /\ frame[t] # eframe
  /\ \A t, u \in AppThreads : t # u /\ frame[t] # None => frame[t] # frame[u]
  /\ \A t \in AppThreads :
       dummy[t] # None =>
         /\ ~complete[dummy[t]] /\ dummy[t] # eframe
         /\ \A u \in AppThreads : frame[u] # dummy[t]
  /\ eframe # None => ~complete[eframe]
  /\ \A i \in 1 .. Len(list) :
       /\ ~complete[list[i]] /\ list[i] # eframe
       /\ \A t \in AppThreads : frame[t] # list[i] /\ dummy[t] # list[i]
  /\ \A i, j \in 1 .. Len(list) : i # j => list[i] # list[j]

(* f \in Lost, frame by frame. *)
IsLost(f) ==
  /\ f \in Frames /\ ~complete[f] /\ f # eframe
  /\ \A t \in AppThreads : frame[t] # f /\ dummy[t] # f
  /\ \A i \in 1 .. Len(list) : list[i] # f

(* ContextExclusive and AppContextRestored, and what a call will restore.   *)
ContextInv ==
  /\ \A t \in AppThreads :
       /\ pc[t] \in {"initGL", "copyGL"} => current[t] = frame[t]
       /\ pc[t] \notin {"initGL", "copyGL"} => current[t] = Own \/ IsLost(current[t])
       /\ saved[t] = Own \/ IsLost(saved[t])
  /\ \A t, u \in AppThreads : t # u =>
       /\ current[t] = Own \/ current[t] # current[u]
       /\ saved[t] = Own \/ saved[t] # current[u]
       /\ saved[t] = Own \/ saved[t] # saved[u]
  /\ current[Encoder] = IF epc = "encode" THEN eframe ELSE Own

(* FrameDrawable.  A buffer in the pool holds what its size says.           *)
DrawInv ==
  /\ \A f \in Frames : complete[f] => storage[f] = size[f]
  /\ \A t \in AppThreads :
       frame[t] # None =>
         /\ pc[t] = "init" => storage[frame[t]] = size[frame[t]]
         /\ pc[t] = "initGL" => size[frame[t]] \in Sizes
         /\ pc[t] \notin {"init", "initGL"} => Drawable(frame[t])
  /\ \A t \in AppThreads : dummy[t] # None => Drawable(dummy[t])
  /\ \A i \in 1 .. Len(list) : Drawable(list[i])
  /\ eframe # None => Drawable(eframe)

(* WaitCompleteNeverBlocks, and every scan begins with index -1 and i 0.    *)
ScanInv ==
  /\ WaitCompleteNeverBlocks
  /\ \A t \in AppThreads : pc[t] # "scan" => index[t] = None /\ scan[t] = 0

IInv ==
  /\ TypeOK
  /\ ThreadInv
  /\ EncoderInv
  /\ QueueBound
  /\ OwnerInv
  /\ ContextInv
  /\ DrawInv
  /\ ScanInv

-----------------------------------------------------------------------------
(* Each part of the invariant is kept by every step.  A lemma has one step  *)
(* per action that changes a variable of its part, and one for the others.  *)

(* The types. *)
LEMMA TypeStep ==
  ASSUME IInv, [Next]_vars PROVE TypeOK'
  <1>1. ASSUME Joined PROVE UNCHANGED <<complete, size, storage, list,
    hasItem, queueLock, mutex, pc, frame, index, scan, dummy, current, saved,
    epc, eframe, ready, threadError, phase>>
    BY <1>1 DEF poolVars, queueVars, scanVars, encoderVars, vars, Joined
  <1>2. ASSUME UNCHANGED vars PROVE UNCHANGED <<complete, size, storage, list,
    hasItem, queueLock, mutex, pc, frame, index, scan, dummy, current, saved,
    epc, eframe, ready, threadError, phase>>
    BY <1>2 DEF vars, poolVars, queueVars, scanVars, encoderVars
  <1> USE NFRAMESAssumption, ThreadsAssumption, SizesAssumption
      DEF IInv, TypeOK, ThreadInv, EncoderInv, QueueBound, Claimed, deadYet,
        shutdown, Frames, Threads, None, Own, Incomplete, Labels, EncLabels,
        Holding, Goto, EncGoto, poolVars, queueVars, scanVars, encoderVars
  <1>3. ASSUME UNCHANGED <<complete, size, storage, list, hasItem, queueLock, mutex, pc, frame,
                           index, scan, dummy, current, saved, epc, eframe, ready,
                           threadError, phase>>
        PROVE  TypeOK'
    BY <1>3
  <1>4. ASSUME NEW t \in AppThreads, CallGetFrame(t) PROVE TypeOK'
    BY <1>4 DEF CallGetFrame
  <1>5. ASSUME NEW t \in AppThreads, SendRefused(t) PROVE TypeOK'
    BY <1>5 DEF SendRefused, Abandon
  <1>6. ASSUME NEW t \in AppThreads, CopyEnter(t) PROVE TypeOK'
    BY <1>6 DEF CopyEnter
  <1>7. ASSUME NEW t \in AppThreads, Synchronize(t) PROVE TypeOK'
    BY <1>7 DEF Synchronize
  <1>8. ASSUME NEW t \in AppThreads, LockPool(t) PROVE TypeOK'
    BY <1>8 DEF LockPool
  <1>9. ASSUME NEW t \in AppThreads, ScanBuffer(t) PROVE TypeOK'
    BY <1>9 DEF ScanBuffer
  <1>10. ASSUME NEW t \in AppThreads, NoFreeBuffer(t) PROVE TypeOK'
    BY <1>10 DEF NoFreeBuffer, LeaveMutex
  <1>11. ASSUME NEW t \in AppThreads, TakeBuffer(t) PROVE TypeOK'
    BY <1>11 DEF TakeBuffer, LeaveMutex
  <1>12. ASSUME NEW t \in AppThreads, NEW w \in Sizes, InitReuse(t, w) PROVE
    TypeOK'
    BY <1>12 DEF InitReuse
  <1>13. ASSUME NEW t \in AppThreads, NEW w \in Sizes, InitRefused(t, w) PROVE
    TypeOK'
    BY <1>13 DEF InitRefused, MustInit, Abandon
  <1>14. ASSUME NEW t \in AppThreads, NEW w \in Sizes, InitEnter(t, w) PROVE
    TypeOK'
    BY <1>14 DEF InitEnter, MustInit
  <1>15. ASSUME NEW t \in AppThreads, InitFinish(t) PROVE TypeOK'
    <2>1. storage' \in [Frames -> {Incomplete, 0} \cup Sizes]
      BY <1>15 DEF InitFinish
    <2>2. /\ current' \in [Threads -> Frames \cup {Own}]
          /\ saved' \in [AppThreads -> Frames \cup {Own}]
      BY <1>15 DEF InitFinish, MakeVGLCurrent
    <2> QED
      BY <1>15, <2>1, <2>2 DEF InitFinish
  <1>16. ASSUME NEW t \in AppThreads, InitThrow(t) PROVE TypeOK'
    <2>1. current' \in [Threads -> Frames \cup {Own}]
      BY <1>16 DEF InitThrow, FailGL
    <2>2. saved' \in [AppThreads -> Frames \cup {Own}]
      BY <1>16 DEF InitThrow, FailGL
    <2>3. frame' \in [AppThreads -> Frames \cup {None}] /\ pc' \in [AppThreads -> Labels]
      BY <1>16 DEF InitThrow, Abandon
    <2>4. storage' \in [Frames -> {Incomplete, 0} \cup Sizes]
      BY <1>16 DEF InitThrow
    <2> QED
      BY <1>16, <2>1, <2>2, <2>3, <2>4 DEF InitThrow
  <1>17. ASSUME NEW t \in AppThreads, CopyFinish(t) PROVE TypeOK'
    BY <1>17 DEF CopyFinish, MakeVGLCurrent
  <1>18. ASSUME NEW t \in AppThreads, CopyThrow(t) PROVE TypeOK'
    <2>1. current' \in [Threads -> Frames \cup {Own}]
      BY <1>18 DEF CopyThrow, FailGL
    <2>2. saved' \in [AppThreads -> Frames \cup {Own}]
      BY <1>18 DEF CopyThrow, FailGL
    <2>3. frame' \in [AppThreads -> Frames \cup {None}] /\ pc' \in [AppThreads -> Labels]
      BY <1>18 DEF CopyThrow, Abandon
    <2> QED
      BY <1>18, <2>1, <2>2, <2>3 DEF CopyThrow
  <1>19. ASSUME NEW t \in AppThreads, SpoilLock(t) PROVE TypeOK'
    BY <1>19 DEF SpoilLock
  <1>20. ASSUME NEW t \in AppThreads, Drain(t) PROVE TypeOK'
    <2>1. hasItem' \in Nat /\ Len(list) > 0
      BY <1>20 DEF Drain
    <2>2. Head(list) \in Frames /\ Tail(list) \in Seq(Frames)
      BY <2>1
    <2>3. dummy' \in [AppThreads -> Frames \cup {None}]
      BY <1>20, <2>2 DEF Drain
    <2> QED
      BY <1>20, <2>1, <2>2, <2>3 DEF Drain
  <1>21. ASSUME NEW t \in AppThreads, SpoilFunction(t) PROVE TypeOK'
    BY <1>21 DEF SpoilFunction
  <1>22. ASSUME NEW t \in AppThreads, Enqueue(t) PROVE TypeOK'
    BY <1>22 DEF Enqueue, AddToQueue
  <1>23. ASSUME NEW t \in AppThreads, SyncWake(t) PROVE TypeOK'
    BY <1>23 DEF SyncWake
  <1>24. ASSUME Loop PROVE TypeOK'
    BY <1>24 DEF Loop
  <1>25. ASSUME Receive PROVE TypeOK'
    BY <1>25 DEF Receive
  <1>26. ASSUME ResetEncoder PROVE TypeOK'
    BY <1>26 DEF ResetEncoder
  <1>27. ASSUME Items PROVE TypeOK'
    BY <1>27 DEF Items
  <1>28. ASSUME ClaimItem PROVE TypeOK'
    BY <1>28 DEF ClaimItem
  <1>29. ASSUME GetReleased PROVE TypeOK'
    BY <1>29 DEF GetReleased
  <1>30. ASSUME PopItem PROVE TypeOK'
    BY <1>30 DEF PopItem
  <1>31. ASSUME ReturnEarly PROVE TypeOK'
    BY <1>31 DEF ReturnEarly
  <1>32. ASSUME SignalReady PROVE TypeOK'
    BY <1>32 DEF SignalReady
  <1>33. ASSUME MakeCurrent PROVE TypeOK'
    BY <1>33 DEF MakeCurrent
  <1>34. ASSUME EncodeFrame PROVE TypeOK'
    BY <1>34 DEF EncodeFrame
  <1>35. ASSUME SignalComplete PROVE TypeOK'
    BY <1>35 DEF SignalComplete
  <1>36. ASSUME EncThrow PROVE TypeOK'
    BY <1>36 DEF EncThrow
  <1>37. ASSUME RRTransDestroy PROVE TypeOK'
    BY <1>37 DEF RRTransDestroy
  <1>38. ASSUME ReleaseQueue PROVE TypeOK'
    BY <1>38 DEF ReleaseQueue
  <1>39. ASSUME JoinThread PROVE TypeOK'
    BY <1>39 DEF JoinThread
  <1> QED
    BY <1>1, <1>2, <1>3, <1>4, <1>5, <1>6, <1>7, <1>8, <1>9, <1>10, <1>11,
      <1>12, <1>13, <1>14, <1>15, <1>16, <1>17, <1>18, <1>19, <1>20, <1>21,
      <1>22, <1>23, <1>24, <1>25, <1>26, <1>27, <1>28, <1>29, <1>30, <1>31,
      <1>32, <1>33, <1>34, <1>35, <1>36, <1>37, <1>38, <1>39 DEF Next, Call,
      GetFrame, SendFrame, Run, Destroy

(* What threads hold, and the two locks. *)
LEMMA ThreadStep ==
  ASSUME IInv, [Next]_vars PROVE ThreadInv'
  <1>1. ASSUME NEW t \in AppThreads, ScanBuffer(t) PROVE UNCHANGED <<hasItem,
    queueLock, mutex, pc, frame, dummy, phase>>
    BY <1>1 DEF poolVars, queueVars, scanVars, encoderVars, ScanBuffer
  <1>2. ASSUME Loop \/ Receive \/ ResetEncoder \/ Items \/ GetReleased \/
    PopItem \/ ReturnEarly \/ SignalReady \/ MakeCurrent \/ EncodeFrame \/
    SignalComplete \/ EncThrow \/ Joined PROVE UNCHANGED <<hasItem,
    queueLock, mutex, pc, frame, dummy, phase>>
    BY <1>2 DEF poolVars, queueVars, scanVars, encoderVars, EncGoto, vars,
      Loop, Receive, ResetEncoder, Items, GetReleased, PopItem, ReturnEarly,
      SignalReady, MakeCurrent, EncodeFrame, SignalComplete, EncThrow,
      Joined
  <1>3. ASSUME UNCHANGED vars PROVE UNCHANGED <<hasItem, queueLock, mutex, pc,
    frame, dummy, phase>>
    BY <1>3 DEF vars, poolVars, queueVars, scanVars, encoderVars
  <1> USE DEF ThreadInv, QueueBound, Claimed, Frames, Labels, Holding,
    shutdown, deadYet, EncGoto, IInv, TypeOK, None, Goto, poolVars, queueVars,
    scanVars, encoderVars
  <1>4. ASSUME UNCHANGED <<hasItem, queueLock, mutex, pc, frame, dummy, phase>> PROVE ThreadInv'
    BY <1>4
  <1>5. ASSUME NEW t \in AppThreads, CallGetFrame(t) PROVE ThreadInv'
    BY <1>5 DEF CallGetFrame
  <1>6. ASSUME NEW t \in AppThreads, SendRefused(t) PROVE ThreadInv'
    BY <1>6 DEF SendRefused, Abandon
  <1>7. ASSUME NEW t \in AppThreads, CopyEnter(t) PROVE ThreadInv'
    BY <1>7 DEF CopyEnter
  <1>8. ASSUME NEW t \in AppThreads, Synchronize(t) PROVE ThreadInv'
    BY <1>8 DEF Synchronize
  <1>9. ASSUME NEW t \in AppThreads, LockPool(t) PROVE ThreadInv'
    BY <1>9 DEF LockPool
  <1>10. ASSUME NEW t \in AppThreads, NoFreeBuffer(t) PROVE ThreadInv'
    BY <1>10 DEF NoFreeBuffer, LeaveMutex
  <1>11. ASSUME NEW t \in AppThreads, TakeBuffer(t) PROVE ThreadInv'
    BY <1>11 DEF TakeBuffer, LeaveMutex
  <1>12. ASSUME NEW t \in AppThreads, NEW w \in Sizes, InitReuse(t, w) PROVE
    ThreadInv'
    BY <1>12 DEF InitReuse
  <1>13. ASSUME NEW t \in AppThreads, NEW w \in Sizes, InitRefused(t, w) PROVE
    ThreadInv'
    BY <1>13 DEF InitRefused, MustInit, Abandon
  <1>14. ASSUME NEW t \in AppThreads, NEW w \in Sizes, InitEnter(t, w) PROVE
    ThreadInv'
    BY <1>14 DEF InitEnter, MustInit
  <1>15. ASSUME NEW t \in AppThreads, InitFinish(t) PROVE ThreadInv'
    BY <1>15 DEF InitFinish, MakeVGLCurrent
  <1>16. ASSUME NEW t \in AppThreads, InitThrow(t) PROVE ThreadInv'
    BY <1>16 DEF InitThrow, FailGL, Abandon
  <1>17. ASSUME NEW t \in AppThreads, CopyFinish(t) PROVE ThreadInv'
    BY <1>17 DEF CopyFinish, MakeVGLCurrent
  <1>18. ASSUME NEW t \in AppThreads, CopyThrow(t) PROVE ThreadInv'
    BY <1>18 DEF CopyThrow, FailGL, Abandon
  <1>19. ASSUME NEW t \in AppThreads, SpoilLock(t) PROVE ThreadInv'
    BY <1>19 DEF SpoilLock
  <1>20. ASSUME NEW t \in AppThreads, Drain(t) PROVE ThreadInv'
    BY <1>20 DEF Drain
  <1>21. ASSUME NEW t \in AppThreads, SpoilFunction(t) PROVE ThreadInv'
    BY <1>21 DEF SpoilFunction
  <1>22. ASSUME NEW t \in AppThreads, Enqueue(t) PROVE ThreadInv'
    BY <1>22 DEF Enqueue, AddToQueue
  <1>23. ASSUME NEW t \in AppThreads, SyncWake(t) PROVE ThreadInv'
    BY <1>23 DEF SyncWake
  <1>24. ASSUME ClaimItem PROVE ThreadInv'
    BY <1>24 DEF ClaimItem
  <1>25. ASSUME RRTransDestroy PROVE ThreadInv'
    BY <1>25 DEF RRTransDestroy
  <1>26. ASSUME ReleaseQueue PROVE ThreadInv'
    BY <1>26 DEF ReleaseQueue
  <1>27. ASSUME JoinThread PROVE ThreadInv'
    BY <1>27 DEF JoinThread
  <1> QED
    BY <1>1, <1>2, <1>3, <1>4, <1>5, <1>6, <1>7, <1>8, <1>9, <1>10, <1>11,
      <1>12, <1>13, <1>14, <1>15, <1>16, <1>17, <1>18, <1>19, <1>20, <1>21,
      <1>22, <1>23, <1>24, <1>25, <1>26, <1>27 DEF Next, Call, GetFrame,
      SendFrame, Run, Destroy

(* The frame the encoder has. *)
LEMMA EncoderStep ==
  ASSUME IInv, [Next]_vars PROVE EncoderInv'
  <1>1. ASSUME NEW t \in AppThreads, CallGetFrame(t) \/ SendRefused(t) \/
    CopyEnter(t) \/ Synchronize(t) \/ LockPool(t) \/ ScanBuffer(t) \/
    NoFreeBuffer(t) \/ TakeBuffer(t) \/ InitFinish(t) \/ InitThrow(t) \/
    CopyFinish(t) \/ CopyThrow(t) \/ SpoilLock(t) \/ Drain(t) \/
    SpoilFunction(t) \/ Enqueue(t) \/ SyncWake(t) PROVE UNCHANGED <<epc,
    eframe>>
    BY <1>1 DEF poolVars, queueVars, scanVars, encoderVars, CallGetFrame,
      SendRefused, CopyEnter, Synchronize, LockPool, ScanBuffer, NoFreeBuffer,
      TakeBuffer, InitFinish, InitThrow, CopyFinish, CopyThrow, SpoilLock,
      Drain, SpoilFunction, Enqueue, SyncWake, AddToQueue
  <1>2. ASSUME NEW t \in AppThreads, NEW w \in Sizes, InitReuse(t, w) \/
    InitRefused(t, w) \/ InitEnter(t, w) PROVE UNCHANGED <<epc, eframe>>
    BY <1>2 DEF poolVars, queueVars, scanVars, encoderVars, InitReuse,
      InitRefused, InitEnter
  <1>3. ASSUME RRTransDestroy \/ ReleaseQueue \/ JoinThread \/ Joined PROVE
    UNCHANGED <<epc, eframe>>
    BY <1>3 DEF poolVars, queueVars, scanVars, encoderVars, vars,
      RRTransDestroy, ReleaseQueue, JoinThread, Joined
  <1>4. ASSUME UNCHANGED vars PROVE UNCHANGED <<epc, eframe>>
    BY <1>4 DEF vars, poolVars, queueVars, scanVars, encoderVars
  <1> USE NFRAMESAssumption DEF EncoderInv, EncGoto, EncLabels, Frames, IInv,
    TypeOK, None, Goto, poolVars, queueVars, scanVars, encoderVars
  <1>5. ASSUME UNCHANGED <<epc, eframe>> PROVE EncoderInv'
    BY <1>5
  <1>6. ASSUME Loop PROVE EncoderInv'
    BY <1>6 DEF Loop
  <1>7. ASSUME Receive PROVE EncoderInv'
    BY <1>7 DEF Receive
  <1>8. ASSUME ResetEncoder PROVE EncoderInv'
    BY <1>8 DEF ResetEncoder
  <1>9. ASSUME Items PROVE EncoderInv'
    BY <1>9 DEF Items
  <1>10. ASSUME ClaimItem PROVE EncoderInv'
    BY <1>10 DEF ClaimItem
  <1>11. ASSUME GetReleased PROVE EncoderInv'
    BY <1>11 DEF GetReleased
  <1>12. ASSUME PopItem PROVE EncoderInv'
    BY <1>12 DEF PopItem
  <1>13. ASSUME ReturnEarly PROVE EncoderInv'
    BY <1>13 DEF ReturnEarly
  <1>14. ASSUME SignalReady PROVE EncoderInv'
    BY <1>14 DEF SignalReady
  <1>15. ASSUME MakeCurrent PROVE EncoderInv'
    BY <1>15 DEF MakeCurrent
  <1>16. ASSUME EncodeFrame PROVE EncoderInv'
    BY <1>16 DEF EncodeFrame
  <1>17. ASSUME SignalComplete PROVE EncoderInv'
    BY <1>17 DEF SignalComplete
  <1>18. ASSUME EncThrow PROVE EncoderInv'
    BY <1>18 DEF EncThrow
  <1> QED
    BY <1>1, <1>2, <1>3, <1>4, <1>5, <1>6, <1>7, <1>8, <1>9, <1>10, <1>11,
      <1>12, <1>13, <1>14, <1>15, <1>16, <1>17, <1>18 DEF Next, Call, GetFrame,
      SendFrame, Run, Destroy

(* The list and the semaphore of the queue. *)
LEMMA QueueStep ==
  ASSUME IInv, [Next]_vars PROVE QueueBound'
  <1>1. ASSUME NEW t \in AppThreads, CallGetFrame(t) \/ SendRefused(t) \/
    CopyEnter(t) \/ Synchronize(t) \/ LockPool(t) \/ ScanBuffer(t) \/
    NoFreeBuffer(t) \/ TakeBuffer(t) \/ InitFinish(t) \/ InitThrow(t) \/
    CopyFinish(t) \/ CopyThrow(t) \/ SpoilLock(t) \/ SpoilFunction(t) \/
    SyncWake(t) PROVE UNCHANGED <<list, hasItem, epc, phase>>
    BY <1>1 DEF poolVars, queueVars, scanVars, encoderVars, CallGetFrame,
      SendRefused, CopyEnter, Synchronize, LockPool, ScanBuffer, NoFreeBuffer,
      TakeBuffer, InitFinish, InitThrow, CopyFinish, CopyThrow, SpoilLock,
      SpoilFunction, SyncWake
  <1>2. ASSUME NEW t \in AppThreads, NEW w \in Sizes, InitReuse(t, w) \/
    InitRefused(t, w) \/ InitEnter(t, w) PROVE UNCHANGED <<list, hasItem, epc,
    phase>>
    BY <1>2 DEF poolVars, queueVars, scanVars, encoderVars, InitReuse,
      InitRefused, InitEnter
  <1>3. ASSUME Joined PROVE UNCHANGED <<list, hasItem, epc, phase>>
    BY <1>3 DEF poolVars, queueVars, scanVars, encoderVars, vars, Joined
  <1>4. ASSUME UNCHANGED vars PROVE UNCHANGED <<list, hasItem, epc, phase>>
    BY <1>4 DEF vars, poolVars, queueVars, scanVars, encoderVars
  <1> USE DEF QueueBound, ThreadInv, Claimed, deadYet, shutdown, EncGoto, IInv,
    TypeOK, None, Goto, poolVars, queueVars, scanVars, encoderVars
  <1>5. ASSUME UNCHANGED <<list, hasItem, epc, phase>> PROVE QueueBound'
    BY <1>5
  <1>6. ASSUME NEW t \in AppThreads, Drain(t) PROVE QueueBound'
    BY <1>6 DEF Drain
  <1>7. ASSUME NEW t \in AppThreads, Enqueue(t) PROVE QueueBound'
    <2>1. frame[t] \in Frames /\ ~deadYet
      BY <1>7 DEF Enqueue, AddToQueue, Holding
    <2>2. Len(list') = Len(list) + 1
      BY <1>7, <2>1 DEF Enqueue, AddToQueue
    <2>3. hasItem = 0 /\ hasItem' = 1 /\ UNCHANGED <<epc, phase>>
      BY <1>7 DEF Enqueue, AddToQueue
    <2>4. Len(list) = Claimed /\ Claimed' = Claimed /\ Claimed \in Nat
      BY <2>1, <2>3
    <2>5. hasItem' <= 1 /\ Len(list') = hasItem' + Claimed'
      BY <2>2, <2>3, <2>4
    <2> QED
      BY <2>5
  <1>8. ASSUME Loop PROVE QueueBound'
    BY <1>8 DEF Loop
  <1>9. ASSUME Receive PROVE QueueBound'
    BY <1>9 DEF Receive
  <1>10. ASSUME ResetEncoder PROVE QueueBound'
    BY <1>10 DEF ResetEncoder
  <1>11. ASSUME Items PROVE QueueBound'
    BY <1>11 DEF Items
  <1>12. ASSUME ClaimItem PROVE QueueBound'
    BY <1>12 DEF ClaimItem
  <1>13. ASSUME GetReleased PROVE QueueBound'
    BY <1>13 DEF GetReleased
  <1>14. ASSUME PopItem PROVE QueueBound'
    BY <1>14 DEF PopItem
  <1>15. ASSUME ReturnEarly PROVE QueueBound'
    BY <1>15 DEF ReturnEarly
  <1>16. ASSUME SignalReady PROVE QueueBound'
    BY <1>16 DEF SignalReady
  <1>17. ASSUME MakeCurrent PROVE QueueBound'
    BY <1>17 DEF MakeCurrent
  <1>18. ASSUME EncodeFrame PROVE QueueBound'
    BY <1>18 DEF EncodeFrame
  <1>19. ASSUME SignalComplete PROVE QueueBound'
    BY <1>19 DEF SignalComplete
  <1>20. ASSUME EncThrow PROVE QueueBound'
    BY <1>20 DEF EncThrow
  <1>21. ASSUME RRTransDestroy PROVE QueueBound'
    BY <1>21 DEF RRTransDestroy
  <1>22. ASSUME ReleaseQueue PROVE QueueBound'
    BY <1>22 DEF ReleaseQueue
  <1>23. ASSUME JoinThread PROVE QueueBound'
    BY <1>23 DEF JoinThread
  <1> QED
    BY <1>1, <1>2, <1>3, <1>4, <1>5, <1>6, <1>7, <1>8, <1>9, <1>10, <1>11,
      <1>12, <1>13, <1>14, <1>15, <1>16, <1>17, <1>18, <1>19, <1>20, <1>21,
      <1>22, <1>23 DEF Next, Call, GetFrame, SendFrame, Run, Destroy

(* One place for every frame. *)
LEMMA OwnerStep ==
  ASSUME IInv, [Next]_vars PROVE OwnerInv'
  <1>1. ASSUME NEW t \in AppThreads, CallGetFrame(t) \/ CopyEnter(t) \/
    Synchronize(t) \/ LockPool(t) \/ ScanBuffer(t) \/ NoFreeBuffer(t) \/
    InitFinish(t) \/ CopyFinish(t) \/ SpoilLock(t) \/ SyncWake(t) PROVE
    UNCHANGED <<complete, frame, dummy, eframe, list>>
    BY <1>1 DEF poolVars, queueVars, scanVars, encoderVars, CallGetFrame,
      CopyEnter, Synchronize, LockPool, ScanBuffer, NoFreeBuffer, InitFinish,
      CopyFinish, SpoilLock, SyncWake
  <1>2. ASSUME NEW t \in AppThreads, NEW w \in Sizes, InitReuse(t, w) \/
    InitEnter(t, w) PROVE UNCHANGED <<complete, frame, dummy, eframe, list>>
    BY <1>2 DEF poolVars, queueVars, scanVars, encoderVars, InitReuse,
      InitEnter
  <1>3. ASSUME Loop \/ Receive \/ ResetEncoder \/ Items \/ ClaimItem \/
    GetReleased \/ SignalReady \/ MakeCurrent \/ EncodeFrame \/ RRTransDestroy
    \/ ReleaseQueue \/ JoinThread \/ Joined PROVE UNCHANGED <<complete,
    frame, dummy, eframe, list>>
    BY <1>3 DEF poolVars, queueVars, scanVars, encoderVars, EncGoto, vars,
      Loop, Receive, ResetEncoder, Items, ClaimItem, GetReleased, SignalReady,
      MakeCurrent, EncodeFrame, RRTransDestroy, ReleaseQueue, JoinThread,
      Joined
  <1>4. ASSUME UNCHANGED vars PROVE UNCHANGED <<complete, frame, dummy, eframe,
    list>>
    BY <1>4 DEF vars, poolVars, queueVars, scanVars, encoderVars
  <1> USE NFRAMESAssumption DEF OwnerInv, ThreadInv, EncoderInv, QueueBound,
    Claimed, deadYet, shutdown, Frames, Holding, EncGoto, IInv, TypeOK, None,
    Goto, poolVars, queueVars, scanVars, encoderVars
  <1>5. ASSUME UNCHANGED <<complete, frame, dummy, eframe, list>> PROVE OwnerInv'
    BY <1>5
  <1>6. ASSUME NEW t \in AppThreads, SendRefused(t) PROVE OwnerInv'
    BY <1>6 DEF SendRefused, Abandon
  <1>7. ASSUME NEW t \in AppThreads, TakeBuffer(t) PROVE OwnerInv'
    BY <1>7 DEF TakeBuffer, LeaveMutex
  <1>8. ASSUME NEW t \in AppThreads, NEW w \in Sizes, InitRefused(t, w) PROVE
    OwnerInv'
    BY <1>8 DEF InitRefused, MustInit, Abandon
  <1>9. ASSUME NEW t \in AppThreads, InitThrow(t) PROVE OwnerInv'
    BY <1>9 DEF InitThrow, FailGL, Abandon
  <1>10. ASSUME NEW t \in AppThreads, CopyThrow(t) PROVE OwnerInv'
    BY <1>10 DEF CopyThrow, FailGL, Abandon
  <1>11. ASSUME NEW t \in AppThreads, Drain(t) PROVE OwnerInv'
    <2>1. Len(list) > 0 /\ dummy[t] = None
      BY <1>11 DEF Drain
    <2>2. /\ Len(list') = Len(list) - 1
          /\ \A i \in 1 .. Len(list') :
               i + 1 \in 1 .. Len(list) /\ list'[i] = list[i + 1]
          /\ list[1] \in Frames /\ Head(list) = list[1]
      BY <1>11, <2>1 DEF Drain
    <2>3. UNCHANGED <<complete, eframe, frame>>
      BY <1>11 DEF Drain
    <2>4. dummy' = [dummy EXCEPT ![t] = list[1]]
      BY <1>11, <2>2 DEF Drain
    <2>5. \A u \in AppThreads : u # t => dummy[u] = None
      BY <1>11 DEF Drain
    <2>6. ASSUME NEW i \in 1 .. Len(list')
          PROVE  /\ ~complete'[list'[i]] /\ list'[i] # eframe'
                 /\ \A u \in AppThreads :
                      frame'[u] # list'[i] /\ dummy'[u] # list'[i]
      <3>1. PICK k \in 1 .. Len(list) : k # 1 /\ list'[i] = list[k]
        BY <2>2
      <3>2. /\ ~complete[list[k]] /\ list[k] # eframe
            /\ \A u \in AppThreads : frame[u] # list[k] /\ dummy[u] # list[k]
        OBVIOUS
      <3>3. list[k] # list[1]
        BY <2>1, <3>1
      <3> QED
        BY <3>1, <3>2, <3>3, <2>3, <2>4
    <2>7. ASSUME NEW i \in 1 .. Len(list'), NEW j \in 1 .. Len(list'), i # j
          PROVE list'[i] # list'[j]
      <3>1. i + 1 \in 1 .. Len(list) /\ j + 1 \in 1 .. Len(list) /\ i + 1 # j + 1
        BY <2>2, <2>7
      <3>2. list[i + 1] # list[j + 1]
        BY <3>1
      <3>3. list'[i] = list[i + 1] /\ list'[j] = list[j + 1]
        BY <2>2
      <3> QED
        BY <3>2, <3>3
    <2>8. \A u \in AppThreads :
            dummy'[u] # None =>
              /\ ~complete'[dummy'[u]] /\ dummy'[u] # eframe'
              /\ \A v \in AppThreads : frame'[v] # dummy'[u]
      BY <2>1, <2>2, <2>3, <2>4, <2>5
    <2> QED
      BY <2>3, <2>6, <2>7, <2>8
  <1>12. ASSUME NEW t \in AppThreads, SpoilFunction(t) PROVE OwnerInv'
    BY <1>12 DEF SpoilFunction
  <1>13. ASSUME NEW t \in AppThreads, Enqueue(t) PROVE OwnerInv'
    <2>1. frame[t] \in Frames
      BY <1>13 DEF Enqueue, AddToQueue
    <2>2. /\ Len(list') = Len(list) + 1
          /\ list'[Len(list) + 1] = frame[t]
          /\ \A i \in 1 .. Len(list) : list'[i] = list[i]
      BY <1>13, <2>1 DEF Enqueue, AddToQueue
    <2>3. UNCHANGED <<complete, eframe, dummy>>
      BY <1>13 DEF Enqueue, AddToQueue
    <2>4. frame' = [frame EXCEPT ![t] = None] /\ dummy[t] = None
      BY <1>13 DEF Enqueue, AddToQueue
    <2>5. \A i \in 1 .. Len(list') :
            \/ i \in 1 .. Len(list)
            \/ i = Len(list) + 1 /\ list'[i] = frame[t]
      BY <2>2
    <2>6. \A i \in 1 .. Len(list') :
            /\ ~complete'[list'[i]] /\ list'[i] # eframe'
            /\ \A u \in AppThreads : frame'[u] # list'[i] /\ dummy'[u] # list'[i]
      BY <2>1, <2>2, <2>3, <2>4, <2>5
    <2>7. ASSUME NEW i \in 1 .. Len(list'), NEW j \in 1 .. Len(list'), i # j
          PROVE list'[i] # list'[j]
      <3>1. CASE i \in 1 .. Len(list) /\ j \in 1 .. Len(list)
        BY <3>1, <2>7, <2>2
      <3>2. \A k \in 1 .. Len(list) : list[k] # frame[t]
        OBVIOUS
      <3>3. CASE i \in 1 .. Len(list) /\ j = Len(list) + 1
        BY <3>2, <3>3, <2>2
      <3>4. CASE i = Len(list) + 1 /\ j \in 1 .. Len(list)
        BY <3>2, <3>4, <2>2
      <3> QED
        BY <3>1, <3>3, <3>4, <2>5, <2>7
    <2> QED
      BY <2>1, <2>3, <2>4, <2>6, <2>7
  <1>14. ASSUME PopItem PROVE OwnerInv'
    BY <1>14 DEF PopItem
  <1>15. ASSUME ReturnEarly PROVE OwnerInv'
    BY <1>15 DEF ReturnEarly
  <1>16. ASSUME SignalComplete PROVE OwnerInv'
    BY <1>16 DEF SignalComplete
  <1>17. ASSUME EncThrow PROVE OwnerInv'
    BY <1>17 DEF EncThrow
  <1> QED
    BY <1>1, <1>2, <1>3, <1>4, <1>5, <1>6, <1>7, <1>8, <1>9, <1>10, <1>11,
      <1>12, <1>13, <1>14, <1>15, <1>16, <1>17 DEF Next, Call, GetFrame,
      SendFrame, Run, Destroy

(* A buffer that is lost stays lost. *)
LEMMA LostStep ==
  ASSUME IInv, NEW f, IsLost(f), [Next]_vars PROVE IsLost(f)'
  <1>1. ASSUME NEW t \in AppThreads, CallGetFrame(t) \/ CopyEnter(t) \/
    Synchronize(t) \/ LockPool(t) \/ ScanBuffer(t) \/ NoFreeBuffer(t) \/
    InitFinish(t) \/ CopyFinish(t) \/ SpoilLock(t) \/ SyncWake(t) PROVE
    UNCHANGED <<complete, frame, dummy, eframe, list>>
    BY <1>1 DEF poolVars, queueVars, scanVars, encoderVars, CallGetFrame,
      CopyEnter, Synchronize, LockPool, ScanBuffer, NoFreeBuffer, InitFinish,
      CopyFinish, SpoilLock, SyncWake
  <1>2. ASSUME NEW t \in AppThreads, NEW w \in Sizes, InitReuse(t, w) \/
    InitEnter(t, w) PROVE UNCHANGED <<complete, frame, dummy, eframe, list>>
    BY <1>2 DEF poolVars, queueVars, scanVars, encoderVars, InitReuse,
      InitEnter
  <1>3. ASSUME Loop \/ Receive \/ ResetEncoder \/ Items \/ ClaimItem \/
    GetReleased \/ SignalReady \/ MakeCurrent \/ EncodeFrame \/ RRTransDestroy
    \/ ReleaseQueue \/ JoinThread \/ Joined PROVE UNCHANGED <<complete,
    frame, dummy, eframe, list>>
    BY <1>3 DEF poolVars, queueVars, scanVars, encoderVars, EncGoto, vars,
      Loop, Receive, ResetEncoder, Items, ClaimItem, GetReleased, SignalReady,
      MakeCurrent, EncodeFrame, RRTransDestroy, ReleaseQueue, JoinThread,
      Joined
  <1>4. ASSUME UNCHANGED vars PROVE UNCHANGED <<complete, frame, dummy, eframe,
    list>>
    BY <1>4 DEF vars, poolVars, queueVars, scanVars, encoderVars
  <1> USE NFRAMESAssumption DEF IsLost, OwnerInv, ThreadInv, EncoderInv,
    QueueBound, Claimed, deadYet, shutdown, Frames, EncGoto, IInv, TypeOK,
    None, Goto, poolVars, queueVars, scanVars, encoderVars
  <1>5. ASSUME UNCHANGED <<complete, frame, dummy, eframe, list>> PROVE IsLost(f)'
    BY <1>5
  <1>6. ASSUME NEW t \in AppThreads, SendRefused(t) PROVE IsLost(f)'
    BY <1>6 DEF SendRefused, Abandon
  <1>7. ASSUME NEW t \in AppThreads, TakeBuffer(t) PROVE IsLost(f)'
    BY <1>7 DEF TakeBuffer, LeaveMutex
  <1>8. ASSUME NEW t \in AppThreads, NEW w \in Sizes, InitRefused(t, w) PROVE
    IsLost(f)'
    BY <1>8 DEF InitRefused, MustInit, Abandon
  <1>9. ASSUME NEW t \in AppThreads, InitThrow(t) PROVE IsLost(f)'
    BY <1>9 DEF InitThrow, FailGL, Abandon
  <1>10. ASSUME NEW t \in AppThreads, CopyThrow(t) PROVE IsLost(f)'
    BY <1>10 DEF CopyThrow, FailGL, Abandon
  <1>11. ASSUME NEW t \in AppThreads, Drain(t) PROVE IsLost(f)'
    BY <1>11 DEF Drain
  <1>12. ASSUME NEW t \in AppThreads, SpoilFunction(t) PROVE IsLost(f)'
    BY <1>12 DEF SpoilFunction
  <1>13. ASSUME NEW t \in AppThreads, Enqueue(t) PROVE IsLost(f)'
    <2>1. /\ list' = Append(list, frame[t]) /\ frame' = [frame EXCEPT ![t] = None]
          /\ UNCHANGED <<complete, dummy, eframe>>
      BY <1>13 DEF Enqueue, AddToQueue
    <2>2. list \in Seq(Frames) /\ frame \in [AppThreads -> Frames \cup {None}]
      OBVIOUS
    <2>3. frame[t] # f /\ None # f /\ \A i \in 1 .. Len(list) : list[i] # f
      OBVIOUS
    <2>4. frame[t] \in Frames
      BY <1>13, <2>2 DEF Enqueue, Holding
    <2>5. \A i \in 1 .. Len(list') : list'[i] # f
      <3> SUFFICES ASSUME NEW i \in 1 .. Len(list') PROVE list'[i] # f
        OBVIOUS
      <3>1. Len(list') = Len(list) + 1 /\ Len(list) \in Nat
        BY ONLY <2>1, <2>2, <2>4
      <3>2. CASE i \in 1 .. Len(list)
        <4>1. list'[i] = list[i]
          BY ONLY <2>1, <2>2, <2>4, <3>2
        <4> QED
          BY ONLY <4>1, <2>3, <3>2
      <3>3. CASE i = Len(list) + 1
        <4>1. list'[i] = frame[t]
          BY ONLY <2>1, <2>2, <2>4, <3>3
        <4> QED
          BY ONLY <4>1, <2>3
      <3> QED
        BY ONLY <3>1, <3>2, <3>3
    <2>6. \A u \in AppThreads : frame'[u] # f
      BY <2>1, <2>2, <2>3
    <2> QED
      BY <2>1, <2>5, <2>6
  <1>14. ASSUME PopItem PROVE IsLost(f)'
    BY <1>14 DEF PopItem
  <1>15. ASSUME ReturnEarly PROVE IsLost(f)'
    BY <1>15 DEF ReturnEarly
  <1>16. ASSUME SignalComplete PROVE IsLost(f)'
    BY <1>16 DEF SignalComplete
  <1>17. ASSUME EncThrow PROVE IsLost(f)'
    BY <1>17 DEF EncThrow
  <1> QED
    BY <1>1, <1>2, <1>3, <1>4, <1>5, <1>6, <1>7, <1>8, <1>9, <1>10, <1>11,
      <1>12, <1>13, <1>14, <1>15, <1>16, <1>17 DEF Next, Call, GetFrame,
      SendFrame, Run, Destroy

(* Which thread a context is current on. *)
LEMMA ContextStep ==
  ASSUME IInv, [Next]_vars PROVE ContextInv'
  <1>1. ASSUME NEW t \in AppThreads, ScanBuffer(t) \/ Drain(t) \/
    SpoilFunction(t) PROVE UNCHANGED <<frame, eframe, pc, current, saved, epc>>
    BY <1>1 DEF poolVars, queueVars, scanVars, encoderVars, ScanBuffer, Drain,
      SpoilFunction
  <1>2. ASSUME RRTransDestroy \/ ReleaseQueue \/ JoinThread \/ Joined PROVE
    UNCHANGED <<frame, eframe, pc, current, saved, epc>>
    BY <1>2 DEF poolVars, queueVars, scanVars, encoderVars, vars,
      RRTransDestroy, ReleaseQueue, JoinThread, Joined
  <1>3. ASSUME UNCHANGED vars PROVE UNCHANGED <<frame, eframe, pc, current,
    saved, epc>>
    BY <1>3 DEF vars, poolVars, queueVars, scanVars, encoderVars
  <1> USE NFRAMESAssumption, ThreadsAssumption DEF ContextInv, ThreadInv,
    EncoderInv, OwnerInv, Threads, Frames, Holding, Own, EncGoto, IInv, TypeOK,
    None, Goto, poolVars, queueVars, scanVars, encoderVars
  <1>L. \A f : IsLost(f) => IsLost(f)'
    BY LostStep
  <1>D. \A f : IsLost(f) => /\ f \in Frames /\ f # eframe
                            /\ \A t \in AppThreads : frame[t] # f
    BY DEF IsLost
  <1>4. ASSUME UNCHANGED <<frame, eframe, pc, current, saved, epc>> PROVE ContextInv'
    BY <1>L, <1>D, <1>4
  <1>5. ASSUME NEW t \in AppThreads, CallGetFrame(t) PROVE ContextInv'
    BY <1>L, <1>D, <1>5 DEF CallGetFrame
  <1>6. ASSUME NEW t \in AppThreads, SendRefused(t) PROVE ContextInv'
    BY <1>L, <1>D, <1>6 DEF SendRefused, Abandon
  <1>7. ASSUME NEW t \in AppThreads, CopyEnter(t) PROVE ContextInv'
    BY <1>L, <1>D, <1>7 DEF CopyEnter
  <1>8. ASSUME NEW t \in AppThreads, Synchronize(t) PROVE ContextInv'
    BY <1>L, <1>D, <1>8 DEF Synchronize
  <1>9. ASSUME NEW t \in AppThreads, LockPool(t) PROVE ContextInv'
    BY <1>L, <1>D, <1>9 DEF LockPool
  <1>10. ASSUME NEW t \in AppThreads, NoFreeBuffer(t) PROVE ContextInv'
    BY <1>L, <1>D, <1>10 DEF NoFreeBuffer, LeaveMutex
  <1>11. ASSUME NEW t \in AppThreads, TakeBuffer(t) PROVE ContextInv'
    BY <1>L, <1>D, <1>11 DEF TakeBuffer, LeaveMutex
  <1>12. ASSUME NEW t \in AppThreads, NEW w \in Sizes, InitReuse(t, w) PROVE
    ContextInv'
    BY <1>L, <1>D, <1>12 DEF InitReuse
  <1>13. ASSUME NEW t \in AppThreads, NEW w \in Sizes, InitRefused(t, w) PROVE
    ContextInv'
    BY <1>L, <1>D, <1>13 DEF InitRefused, MustInit, Abandon
  <1>14. ASSUME NEW t \in AppThreads, NEW w \in Sizes, InitEnter(t, w) PROVE
    ContextInv'
    BY <1>L, <1>D, <1>14 DEF InitEnter, MustInit
  <1>15. ASSUME NEW t \in AppThreads, InitFinish(t) PROVE ContextInv'
    BY <1>L, <1>D, <1>15 DEF InitFinish, MakeVGLCurrent
  <1>16. ASSUME NEW t \in AppThreads, InitThrow(t) PROVE ContextInv'
    <2>1. \A f : f = frame[t] => IsLost(f)'
      BY <1>16 DEF InitThrow, Abandon, IsLost
    <2>2. /\ current' = [current EXCEPT ![t] = saved[t]] \/ current' = current
          /\ saved' = [saved EXCEPT ![t] = Own]
          /\ UNCHANGED <<epc, eframe>>
          /\ pc[t] \in {"initGL", "copyGL"} /\ pc' = [pc EXCEPT ![t] = "app"]
          /\ frame' = [frame EXCEPT ![t] = None]
      BY <1>16 DEF InitThrow, FailGL, Abandon
    <2>3. CASE current' = [current EXCEPT ![t] = saved[t]]
      BY <1>L, <1>D, <2>1, <2>2, <2>3
    <2>4. CASE current' = current
      BY <1>L, <1>D, <2>1, <2>2, <2>4
    <2> QED
      BY <2>2, <2>3, <2>4
  <1>17. ASSUME NEW t \in AppThreads, CopyFinish(t) PROVE ContextInv'
    BY <1>L, <1>D, <1>17 DEF CopyFinish, MakeVGLCurrent
  <1>18. ASSUME NEW t \in AppThreads, CopyThrow(t) PROVE ContextInv'
    <2>1. \A f : f = frame[t] => IsLost(f)'
      BY <1>18 DEF CopyThrow, Abandon, IsLost
    <2>2. /\ current' = [current EXCEPT ![t] = saved[t]] \/ current' = current
          /\ saved' = [saved EXCEPT ![t] = Own]
          /\ UNCHANGED <<epc, eframe>>
          /\ pc[t] \in {"initGL", "copyGL"} /\ pc' = [pc EXCEPT ![t] = "app"]
          /\ frame' = [frame EXCEPT ![t] = None]
      BY <1>18 DEF CopyThrow, FailGL, Abandon
    <2>3. CASE current' = [current EXCEPT ![t] = saved[t]]
      BY <1>L, <1>D, <2>1, <2>2, <2>3
    <2>4. CASE current' = current
      BY <1>L, <1>D, <2>1, <2>2, <2>4
    <2> QED
      BY <2>2, <2>3, <2>4
  <1>19. ASSUME NEW t \in AppThreads, SpoilLock(t) PROVE ContextInv'
    BY <1>L, <1>D, <1>19 DEF SpoilLock
  <1>20. ASSUME NEW t \in AppThreads, Enqueue(t) PROVE ContextInv'
    BY <1>L, <1>D, <1>20 DEF Enqueue, AddToQueue
  <1>21. ASSUME NEW t \in AppThreads, SyncWake(t) PROVE ContextInv'
    BY <1>L, <1>D, <1>21 DEF SyncWake
  <1>22. ASSUME Loop PROVE ContextInv'
    BY <1>L, <1>D, <1>22 DEF Loop
  <1>23. ASSUME Receive PROVE ContextInv'
    BY <1>L, <1>D, <1>23 DEF Receive
  <1>24. ASSUME ResetEncoder PROVE ContextInv'
    BY <1>L, <1>D, <1>24 DEF ResetEncoder
  <1>25. ASSUME Items PROVE ContextInv'
    BY <1>L, <1>D, <1>25 DEF Items
  <1>26. ASSUME ClaimItem PROVE ContextInv'
    BY <1>L, <1>D, <1>26 DEF ClaimItem
  <1>27. ASSUME GetReleased PROVE ContextInv'
    BY <1>L, <1>D, <1>27 DEF GetReleased
  <1>28. ASSUME PopItem PROVE ContextInv'
    BY <1>L, <1>D, <1>28 DEF PopItem
  <1>29. ASSUME ReturnEarly PROVE ContextInv'
    BY <1>L, <1>D, <1>29 DEF ReturnEarly
  <1>30. ASSUME SignalReady PROVE ContextInv'
    BY <1>L, <1>D, <1>30 DEF SignalReady
  <1>31. ASSUME MakeCurrent PROVE ContextInv'
    BY <1>L, <1>D, <1>31 DEF MakeCurrent
  <1>32. ASSUME EncodeFrame PROVE ContextInv'
    BY <1>L, <1>D, <1>32 DEF EncodeFrame
  <1>33. ASSUME SignalComplete PROVE ContextInv'
    BY <1>L, <1>D, <1>33 DEF SignalComplete
  <1>34. ASSUME EncThrow PROVE ContextInv'
    BY <1>L, <1>D, <1>34 DEF EncThrow
  <1> QED
    BY <1>1, <1>2, <1>3, <1>4, <1>5, <1>6, <1>7, <1>8, <1>9, <1>10, <1>11,
      <1>12, <1>13, <1>14, <1>15, <1>16, <1>17, <1>18, <1>19, <1>20, <1>21,
      <1>22, <1>23, <1>24, <1>25, <1>26, <1>27, <1>28, <1>29, <1>30, <1>31,
      <1>32, <1>33, <1>34 DEF Next, Call, GetFrame, SendFrame, Run, Destroy

(* What the buffers hold. *)
LEMMA DrawStep ==
  ASSUME IInv, [Next]_vars PROVE DrawInv'
  <1>1. ASSUME NEW t \in AppThreads, ScanBuffer(t) PROVE UNCHANGED <<complete,
    size, storage, frame, dummy, eframe, list, pc>>
    BY <1>1 DEF poolVars, queueVars, scanVars, encoderVars, ScanBuffer
  <1>2. ASSUME Loop \/ Receive \/ ResetEncoder \/ Items \/ ClaimItem \/
    GetReleased \/ SignalReady \/ MakeCurrent \/ EncodeFrame \/ RRTransDestroy
    \/ ReleaseQueue \/ JoinThread \/ Joined PROVE UNCHANGED <<complete,
    size, storage, frame, dummy, eframe, list, pc>>
    BY <1>2 DEF poolVars, queueVars, scanVars, encoderVars, EncGoto, vars,
      Loop, Receive, ResetEncoder, Items, ClaimItem, GetReleased, SignalReady,
      MakeCurrent, EncodeFrame, RRTransDestroy, ReleaseQueue, JoinThread,
      Joined
  <1>3. ASSUME UNCHANGED vars PROVE UNCHANGED <<complete, size, storage, frame,
    dummy, eframe, list, pc>>
    BY <1>3 DEF vars, poolVars, queueVars, scanVars, encoderVars
  <1> USE NFRAMESAssumption, SizesAssumption DEF DrawInv, Drawable, OwnerInv,
    ThreadInv, EncoderInv, QueueBound, Frames, Incomplete, EncGoto, IInv,
    TypeOK, None, Goto, poolVars, queueVars, scanVars, encoderVars
  <1>4. ASSUME UNCHANGED <<complete, size, storage, frame, dummy, eframe, list, pc>> PROVE DrawInv'
    BY <1>4
  <1>5. ASSUME NEW t \in AppThreads, CallGetFrame(t) PROVE DrawInv'
    BY <1>5 DEF CallGetFrame
  <1>6. ASSUME NEW t \in AppThreads, SendRefused(t) PROVE DrawInv'
    BY <1>6 DEF SendRefused, Abandon
  <1>7. ASSUME NEW t \in AppThreads, CopyEnter(t) PROVE DrawInv'
    BY <1>7 DEF CopyEnter
  <1>8. ASSUME NEW t \in AppThreads, Synchronize(t) PROVE DrawInv'
    BY <1>8 DEF Synchronize
  <1>9. ASSUME NEW t \in AppThreads, LockPool(t) PROVE DrawInv'
    BY <1>9 DEF LockPool
  <1>10. ASSUME NEW t \in AppThreads, NoFreeBuffer(t) PROVE DrawInv'
    BY <1>10 DEF NoFreeBuffer, LeaveMutex
  <1>11. ASSUME NEW t \in AppThreads, TakeBuffer(t) PROVE DrawInv'
    BY <1>11 DEF TakeBuffer, LeaveMutex
  <1>12. ASSUME NEW t \in AppThreads, NEW w \in Sizes, InitReuse(t, w) PROVE
    DrawInv'
    BY <1>12 DEF InitReuse
  <1>13. ASSUME NEW t \in AppThreads, NEW w \in Sizes, InitRefused(t, w) PROVE
    DrawInv'
    BY <1>13 DEF InitRefused, MustInit, Abandon
  <1>14. ASSUME NEW t \in AppThreads, NEW w \in Sizes, InitEnter(t, w) PROVE
    DrawInv'
    BY <1>14 DEF InitEnter, MustInit
  <1>15. ASSUME NEW t \in AppThreads, InitFinish(t) PROVE DrawInv'
    BY <1>15 DEF InitFinish, MakeVGLCurrent
  <1>16. ASSUME NEW t \in AppThreads, InitThrow(t) PROVE DrawInv'
    BY <1>16 DEF InitThrow, FailGL, Abandon
  <1>17. ASSUME NEW t \in AppThreads, CopyFinish(t) PROVE DrawInv'
    BY <1>17 DEF CopyFinish, MakeVGLCurrent
  <1>18. ASSUME NEW t \in AppThreads, CopyThrow(t) PROVE DrawInv'
    BY <1>18 DEF CopyThrow, FailGL, Abandon
  <1>19. ASSUME NEW t \in AppThreads, SpoilLock(t) PROVE DrawInv'
    BY <1>19 DEF SpoilLock
  <1>20. ASSUME NEW t \in AppThreads, Drain(t) PROVE DrawInv'
    <2>1. Len(list) > 0
      BY <1>20 DEF Drain, Claimed, deadYet, shutdown
    <2>2. /\ \A i \in 1 .. Len(list') : \E k \in 1 .. Len(list) : list'[i] = list[k]
          /\ dummy' = [dummy EXCEPT ![t] = list[1]]
      BY <1>20, <2>1 DEF Drain
    <2>3. UNCHANGED <<complete, size, storage, frame, eframe, pc>>
      BY <1>20 DEF Drain
    <2>4. \A f : Drawable(f)' <=> Drawable(f)
      BY <2>3
    <2>5. \A i \in 1 .. Len(list) : Drawable(list[i])
      OBVIOUS
    <2> HIDE DEF Drawable
    <2>6. \A i \in 1 .. Len(list') : Drawable(list'[i])
      BY <2>1, <2>2, <2>5
    <2> QED
      BY <2>1, <2>2, <2>3, <2>4, <2>5, <2>6
  <1>21. ASSUME NEW t \in AppThreads, SpoilFunction(t) PROVE DrawInv'
    BY <1>21 DEF SpoilFunction
  <1>22. ASSUME NEW t \in AppThreads, Enqueue(t) PROVE DrawInv'
    <2>1. frame[t] \in Frames /\ Drawable(frame[t])
      BY <1>22 DEF Enqueue, AddToQueue, Holding
    <2>2. \A i \in 1 .. Len(list') :
            list'[i] = frame[t] \/ \E k \in 1 .. Len(list) : list'[i] = list[k]
      BY <1>22, <2>1 DEF Enqueue, AddToQueue
    <2>3. /\ UNCHANGED <<complete, size, storage, dummy, eframe>>
          /\ frame' = [frame EXCEPT ![t] = None]
          /\ pc' = [pc EXCEPT ![t] = "app"]
      BY <1>22 DEF Enqueue, AddToQueue
    <2>4. \A f : Drawable(f)' <=> Drawable(f)
      BY <2>3
    <2>5. \A i \in 1 .. Len(list) : Drawable(list[i])
      OBVIOUS
    <2> HIDE DEF Drawable
    <2>6. ASSUME NEW i \in 1 .. Len(list') PROVE Drawable(list'[i])
      <3>1. CASE list'[i] = frame[t]
        BY <3>1, <2>1
      <3>2. CASE \E k \in 1 .. Len(list) : list'[i] = list[k]
        BY <3>2, <2>5
      <3> QED
        BY <3>1, <3>2, <2>2
    <2> QED
      BY <2>1, <2>2, <2>3, <2>4, <2>5, <2>6
  <1>23. ASSUME NEW t \in AppThreads, SyncWake(t) PROVE DrawInv'
    BY <1>23 DEF SyncWake
  <1>24. ASSUME PopItem PROVE DrawInv'
    <2>1. Len(list) > 0
      BY <1>24 DEF PopItem, Claimed
    <2>2. /\ \A i \in 1 .. Len(list') : \E k \in 1 .. Len(list) : list'[i] = list[k]
          /\ eframe' = list[1]
      BY <1>24, <2>1 DEF PopItem
    <2>3. UNCHANGED <<complete, size, storage, frame, dummy, pc>>
      BY <1>24 DEF PopItem
    <2>4. \A f : Drawable(f)' <=> Drawable(f)
      BY <2>3
    <2>5. \A i \in 1 .. Len(list) : Drawable(list[i])
      OBVIOUS
    <2> HIDE DEF Drawable
    <2>6. \A i \in 1 .. Len(list') : Drawable(list'[i])
      BY <2>1, <2>2, <2>5
    <2> QED
      BY <2>1, <2>2, <2>3, <2>4, <2>5, <2>6
  <1>25. ASSUME ReturnEarly PROVE DrawInv'
    BY <1>25 DEF ReturnEarly
  <1>26. ASSUME SignalComplete PROVE DrawInv'
    BY <1>26 DEF SignalComplete
  <1>27. ASSUME EncThrow PROVE DrawInv'
    BY <1>27 DEF EncThrow
  <1> QED
    BY <1>1, <1>2, <1>3, <1>4, <1>5, <1>6, <1>7, <1>8, <1>9, <1>10, <1>11,
      <1>12, <1>13, <1>14, <1>15, <1>16, <1>17, <1>18, <1>19, <1>20, <1>21,
      <1>22, <1>23, <1>24, <1>25, <1>26, <1>27 DEF Next, Call, GetFrame,
      SendFrame, Run, Destroy

(* The buffer that getFrame has found. *)
LEMMA ScanStep ==
  ASSUME IInv, [Next]_vars PROVE ScanInv'
  <1>1. ASSUME NEW t \in AppThreads, Drain(t) PROVE UNCHANGED <<complete, pc,
    index, scan>>
    BY <1>1 DEF poolVars, queueVars, scanVars, encoderVars, Drain
  <1>2. ASSUME Loop \/ Receive \/ ResetEncoder \/ Items \/ ClaimItem \/
    GetReleased \/ PopItem \/ ReturnEarly \/ SignalReady \/ MakeCurrent \/
    EncodeFrame \/ EncThrow \/ RRTransDestroy \/ ReleaseQueue \/ JoinThread \/
    Joined PROVE UNCHANGED <<complete, pc, index, scan>>
    BY <1>2 DEF poolVars, queueVars, scanVars, encoderVars, EncGoto, vars,
      Loop, Receive, ResetEncoder, Items, ClaimItem, GetReleased, PopItem,
      ReturnEarly, SignalReady, MakeCurrent, EncodeFrame, EncThrow,
      RRTransDestroy, ReleaseQueue, JoinThread, Joined
  <1>3. ASSUME UNCHANGED vars PROVE UNCHANGED <<complete, pc, index, scan>>
    BY <1>3 DEF vars, poolVars, queueVars, scanVars, encoderVars
  <1> USE NFRAMESAssumption DEF ThreadInv, ScanInv, WaitCompleteNeverBlocks,
    OwnerInv, EncoderInv, Frames, EncGoto, IInv, TypeOK, None, Goto, poolVars,
    queueVars, scanVars, encoderVars
  <1>4. ASSUME UNCHANGED <<complete, pc, index, scan>> PROVE ScanInv'
    BY <1>4
  <1>5. ASSUME NEW t \in AppThreads, CallGetFrame(t) PROVE ScanInv'
    BY <1>5 DEF CallGetFrame
  <1>6. ASSUME NEW t \in AppThreads, SendRefused(t) PROVE ScanInv'
    BY <1>6 DEF SendRefused, Abandon
  <1>7. ASSUME NEW t \in AppThreads, CopyEnter(t) PROVE ScanInv'
    BY <1>7 DEF CopyEnter
  <1>8. ASSUME NEW t \in AppThreads, Synchronize(t) PROVE ScanInv'
    BY <1>8 DEF Synchronize
  <1>9. ASSUME NEW t \in AppThreads, LockPool(t) PROVE ScanInv'
    BY <1>9 DEF LockPool
  <1>10. ASSUME NEW t \in AppThreads, ScanBuffer(t) PROVE ScanInv'
    BY <1>10 DEF ScanBuffer
  <1>11. ASSUME NEW t \in AppThreads, NoFreeBuffer(t) PROVE ScanInv'
    BY <1>11 DEF NoFreeBuffer, LeaveMutex
  <1>12. ASSUME NEW t \in AppThreads, TakeBuffer(t) PROVE ScanInv'
    BY <1>12 DEF TakeBuffer, LeaveMutex
  <1>13. ASSUME NEW t \in AppThreads, NEW w \in Sizes, InitReuse(t, w) PROVE
    ScanInv'
    BY <1>13 DEF InitReuse
  <1>14. ASSUME NEW t \in AppThreads, NEW w \in Sizes, InitRefused(t, w) PROVE
    ScanInv'
    BY <1>14 DEF InitRefused, MustInit, Abandon
  <1>15. ASSUME NEW t \in AppThreads, NEW w \in Sizes, InitEnter(t, w) PROVE
    ScanInv'
    BY <1>15 DEF InitEnter, MustInit
  <1>16. ASSUME NEW t \in AppThreads, InitFinish(t) PROVE ScanInv'
    BY <1>16 DEF InitFinish, MakeVGLCurrent
  <1>17. ASSUME NEW t \in AppThreads, InitThrow(t) PROVE ScanInv'
    BY <1>17 DEF InitThrow, FailGL, Abandon
  <1>18. ASSUME NEW t \in AppThreads, CopyFinish(t) PROVE ScanInv'
    BY <1>18 DEF CopyFinish, MakeVGLCurrent
  <1>19. ASSUME NEW t \in AppThreads, CopyThrow(t) PROVE ScanInv'
    BY <1>19 DEF CopyThrow, FailGL, Abandon
  <1>20. ASSUME NEW t \in AppThreads, SpoilLock(t) PROVE ScanInv'
    BY <1>20 DEF SpoilLock
  <1>21. ASSUME NEW t \in AppThreads, SpoilFunction(t) PROVE ScanInv'
    BY <1>21 DEF SpoilFunction
  <1>22. ASSUME NEW t \in AppThreads, Enqueue(t) PROVE ScanInv'
    BY <1>22 DEF Enqueue, AddToQueue
  <1>23. ASSUME NEW t \in AppThreads, SyncWake(t) PROVE ScanInv'
    BY <1>23 DEF SyncWake
  <1>24. ASSUME SignalComplete PROVE ScanInv'
    BY <1>24 DEF SignalComplete
  <1> QED
    BY <1>1, <1>2, <1>3, <1>4, <1>5, <1>6, <1>7, <1>8, <1>9, <1>10, <1>11,
      <1>12, <1>13, <1>14, <1>15, <1>16, <1>17, <1>18, <1>19, <1>20, <1>21,
      <1>22, <1>23, <1>24 DEF Next, Call, GetFrame, SendFrame, Run, Destroy

-----------------------------------------------------------------------------
(* The pool starts out in the invariant: every buffer is free. *)
LEMMA InitInvariant == Init => IInv
  <1> SUFFICES ASSUME Init PROVE IInv
    OBVIOUS
  <1> USE NFRAMESAssumption, ThreadsAssumption, SizesAssumption
      DEF Init, None, Own, Incomplete, Frames, Threads
  <1>1. TypeOK
    <2>1. list \in Seq(Frames) /\ hasItem \in Nat /\ phase = "alive"
      OBVIOUS
    <2>2. /\ current \in [Threads -> Frames \cup {Own}]
          /\ saved \in [AppThreads -> Frames \cup {Own}]
      OBVIOUS
    <2>3. /\ complete \in [Frames -> BOOLEAN]
          /\ size \in [Frames -> {0} \cup Sizes]
          /\ storage \in [Frames -> {Incomplete, 0} \cup Sizes]
      OBVIOUS
    <2>4. /\ pc \in [AppThreads -> Labels] /\ scan \in [AppThreads -> 0 .. NFRAMES]
          /\ frame \in [AppThreads -> Frames \cup {None}]
          /\ index \in [AppThreads -> Frames \cup {None}]
          /\ dummy \in [AppThreads -> Frames \cup {None}]
      BY DEF Labels
    <2> QED
      BY <2>1, <2>2, <2>3, <2>4 DEF TypeOK, EncLabels
  <1>2. ThreadInv /\ EncoderInv
    BY DEF ThreadInv, EncoderInv, Holding, shutdown
  <1>3. QueueBound
    BY DEF QueueBound, Claimed
  <1>4. OwnerInv
    BY DEF OwnerInv
  <1>5. ContextInv
    BY DEF ContextInv
  <1>6. DrawInv
    BY DEF DrawInv, Drawable
  <1>7. ScanInv
    BY DEF ScanInv, WaitCompleteNeverBlocks
  <1> QED
    BY <1>1, <1>2, <1>3, <1>4, <1>5, <1>6, <1>7 DEF IInv

(* No step of an application thread, the encoder or the destructor leaves   *)
(* the invariant.                                                           *)
LEMMA StepInvariant == IInv /\ [Next]_vars => IInv'
  BY TypeStep, ThreadStep, EncoderStep, QueueStep, OwnerStep, ContextStep,
    DrawStep, ScanStep DEF IInv

(* The inductive invariant holds in every state the threads can reach. *)
THEOREM Invariance == Spec => []IInv
  BY InitInvariant, StepInvariant, PTL DEF Spec

(* Every variable of the pool, of the queue and of the threads keeps its    *)
(* type; in particular getFrame never leaves an index outside buf.          *)
THEOREM TypeCorrect == Spec => []TypeOK
  <1>1. IInv => TypeOK
    BY DEF IInv
  <1> QED
    BY <1>1, Invariance, PTL

(* A buffer is in one place at a time and is complete only when it is in    *)
(* none: spoil never completes a frame that is being encoded.               *)
THEOREM Ownership == Spec => []OneOwner
  <1>1. IInv => OneOwner
    <2> SUFFICES ASSUME IInv PROVE OneOwner
      OBVIOUS
    <2> USE NFRAMESAssumption DEF IInv, TypeOK, OwnerInv, ThreadInv, None, Frames
    <2>1. ASSUME NEW f \in Frames, InUse(f) PROVE ~complete[f]
      <3>1. CASE Owners(f) # {}
        <4>1. PICK t \in AppThreads : frame[t] = f
          BY <3>1 DEF Owners
        <4>2. frame[t] # None
          BY <4>1
        <4>3. \A u \in AppThreads : frame[u] # None => ~complete[frame[u]]
          BY DEF OwnerInv
        <4> QED
          BY <4>1, <4>2, <4>3
      <3>2. CASE Unlinked(f) # {}
        <4>1. PICK t \in AppThreads : dummy[t] = f
          BY <3>2 DEF Unlinked
        <4>2. dummy[t] # None
          BY <4>1
        <4>3. \A u \in AppThreads : dummy[u] # None => ~complete[dummy[u]]
          BY DEF OwnerInv
        <4> QED
          BY <4>1, <4>2, <4>3
      <3>3. CASE f \in Pending
        <4>1. PICK i \in 1 .. Len(list) : list[i] = f
          BY <3>3 DEF Pending
        <4>2. ~complete[list[i]]
          OBVIOUS
        <4> QED
          BY <4>1, <4>2
      <3>4. CASE f = eframe
        BY <3>4
      <3> QED
        BY <3>1, <3>2, <3>3, <3>4, <2>1 DEF InUse
    <2>2. \A f \in Frames :
            f \in Pending \cup {eframe} => Owners(f) \cup Unlinked(f) = {}
      BY DEF Pending, Owners, Unlinked
    <2>3. eframe \notin Pending
      BY DEF Pending
    <2> QED
      BY <2>1, <2>2, <2>3 DEF OneOwner
  <1> QED
    BY <1>1, Invariance, PTL

(* waitComplete returns at once: what getFrame has found stays complete     *)
(* while it holds the mutex.                                                *)
THEOREM WaitComplete == Spec => []WaitCompleteNeverBlocks
  <1>1. IInv => WaitCompleteNeverBlocks
    BY DEF IInv, ScanInv
  <1> QED
    BY <1>1, Invariance, PTL

(* The context of a buffer is current on one thread at most, and on none    *)
(* when the buffer may be handed out.                                       *)
THEOREM Contexts == Spec => []ContextExclusive
  <1>1. IInv => ContextExclusive
    <2> SUFFICES ASSUME IInv PROVE ContextExclusive
      OBVIOUS
    <2> USE NFRAMESAssumption, ThreadsAssumption
        DEF IInv, TypeOK, OwnerInv, ThreadInv, EncoderInv, ContextInv, IsLost,
          None, Own, Frames, Threads, Holding
    <2>1. ASSUME NEW p \in Threads, NEW q \in Threads, p # q, current[p] # Own
          PROVE current[p] # current[q]
      <3>1. CASE p \in AppThreads /\ q \in AppThreads
        BY <3>1, <2>1
      <3>2. CASE p = Encoder /\ q \in AppThreads
        BY <3>2, <2>1
      <3>3. CASE p \in AppThreads /\ q = Encoder
        BY <3>3, <2>1
      <3> QED
        BY <3>1, <3>2, <3>3, <2>1
    <2>2. ASSUME NEW f \in Frames, complete[f], NEW p \in Threads
          PROVE current[p] # f
      <3>1. CASE p \in AppThreads
        <4>1. CASE pc[p] \in {"initGL", "copyGL"}
          <5>1. current[p] = frame[p] /\ frame[p] # None
            BY <3>1, <4>1
          <5>2. ~complete[frame[p]]
            BY <3>1, <5>1
          <5> QED
            BY <5>1, <5>2, <2>2
        <4>2. CASE pc[p] \notin {"initGL", "copyGL"}
          <5>1. current[p] = Own \/ ~complete[current[p]]
            BY <3>1, <4>2
          <5> QED
            BY <5>1, <2>2
        <4> QED
          BY <4>1, <4>2
      <3>2. CASE p = Encoder
        BY <3>2, <2>2
      <3> QED
        BY <3>1, <3>2
    <2> QED
      BY <2>1, <2>2 DEF ContextExclusive
  <1> QED
    BY <1>1, Invariance, PTL

(* The application finds its own context current when a call has returned,  *)
(* or that of a buffer that is out of use for good.                         *)
THEOREM ContextRestored == Spec => []AppContextRestored
  <1>1. ASSUME NEW f, IsLost(f), IInv PROVE f \in Lost
    BY <1>1 DEF IsLost, Lost, InUse, Owners, Unlinked, Pending
  <1>2. IInv => AppContextRestored
    BY <1>1 DEF IInv, ContextInv, AppContextRestored
  <1> QED
    BY <1>2, Invariance, PTL

(* What is queued or encoded, or handed out and initialised, has an FBO of  *)
(* the size the frame was asked for.                                        *)
THEOREM Drawables == Spec => []FrameDrawable
  <1>1. IInv => FrameDrawable
    BY DEF IInv, DrawInv, FrameDrawable, Pending
  <1> QED
    BY <1>1, Invariance, PTL

(* The list of the queue and its semaphore agree until the queue is         *)
(* released, and at most one frame waits behind the one being taken.        *)
THEOREM QueueBounded == Spec => []QueueBound
  <1>1. IInv => QueueBound
    BY DEF IInv
  <1> QED
    BY <1>1, Invariance, PTL

(* A buffer whose frame is dropped by an error never comes back: no later   *)
(* step puts it in use or completes it.                                     *)
THEOREM LostForGood == Spec => [][\A f : IsLost(f) => IsLost(f)']_vars
  <1>1. IInv /\ [Next]_vars => [\A f : IsLost(f) => IsLost(f)']_vars
    BY LostStep
  <1> QED
    BY <1>1, Invariance, PTL DEF Spec

-----------------------------------------------------------------------------
(* The refinement of FrameLifecycle. *)

(* Where a buffer is, one thread or item at a time. *)
IsDrawn(f) == \E t \in AppThreads : frame[t] = f

IsWaiting(f) ==
  \/ \E t \in AppThreads : dummy[t] = f
  \/ \E i \in 1 .. Len(list) : list[i] = f

Where(f) ==
  IF complete[f] THEN "free"
  ELSE IF IsDrawn(f) THEN "drawn"
  ELSE IF IsWaiting(f) THEN "waiting"
  ELSE IF f = eframe THEN "encoded" ELSE "lost"

(* A buffer is in one place at most, so the order of Status does not matter. *)
LEMMA StatusIsWhere == IInv => \A f \in Frames : Status(f) = Where(f)
  <1> SUFFICES ASSUME IInv, NEW f \in Frames PROVE Status(f) = Where(f)
    OBVIOUS
  <1>1. /\ Owners(f) # {} <=> IsDrawn(f)
        /\ Unlinked(f) # {} \/ f \in Pending <=> IsWaiting(f)
    BY DEF Owners, Unlinked, Pending, IsDrawn, IsWaiting
  <1> USE NFRAMESAssumption DEF IInv, TypeOK, OwnerInv, Frames, None
  <1>2. complete[f] => ~IsDrawn(f) /\ ~IsWaiting(f) /\ f # eframe
    <2>1. f # None
      OBVIOUS
    <2>2. ASSUME NEW t \in AppThreads, complete[f]
          PROVE frame[t] # f /\ dummy[t] # f
      <3>1. /\ frame[t] # None => ~complete[frame[t]]
            /\ dummy[t] # None => ~complete[dummy[t]]
        OBVIOUS
      <3> QED
        BY <2>1, <2>2, <3>1
    <2>3. \A i \in 1 .. Len(list) : complete[f] => list[i] # f
      OBVIOUS
    <2> QED
      BY <2>1, <2>2, <2>3 DEF IsDrawn, IsWaiting
  <1>3. IsDrawn(f) => ~IsWaiting(f) /\ f # eframe
    BY DEF IsDrawn, IsWaiting
  <1>4. IsWaiting(f) => f # eframe
    BY DEF IsWaiting
  <1> HIDE DEF IInv
  <1>5. /\ complete[f] \/ IsDrawn(f) \/ IsWaiting(f) \/ f = eframe
           => Status(f) = Where(f)
        /\ ~(complete[f] \/ IsDrawn(f) \/ IsWaiting(f) \/ f = eframe)
           => Status(f) = Where(f)
    BY <1>1, <1>2, <1>3, <1>4 DEF Status, Where
  <1> QED
    BY <1>5

(* Every buffer is free and none is queued when the plugin is loaded.       *)
LEMMA InitRefines == Init => Lifecycle!LInit
  <1> SUFFICES ASSUME Init PROVE Lifecycle!LInit
    OBVIOUS
  <1>1. IInv
    BY InitInvariant
  <1>2. \A f \in Frames : Status(f) = "free"
    BY <1>1, StatusIsWhere DEF Where, Init
  <1>3. Waiting = <<>>
    BY DEF Init, Waiting, Spoiled
  <1> QED
    BY <1>2, <1>3 DEF Lifecycle!LInit

(* The same of the next state. *)
LEMMA StatusPrimed == IInv' => (\A f \in Frames : Status(f) = Where(f))'
  BY StatusIsWhere, PTL

(* A step changes the status of one buffer. *)
LEMMA Moves ==
  ASSUME IInv, IInv', NEW f \in Frames,
         \A g \in Frames \ {f} : Where(g)' = Where(g)
  PROVE  /\ [g \in Frames |-> Status(g)]' =
              [[g \in Frames |-> Status(g)] EXCEPT ![f] = Where(f)']
         /\ [g \in Frames |-> Status(g)][f] = Where(f)
  <1>1. \A g \in Frames : Status(g) = Where(g)
    BY StatusIsWhere
  <1>2. \A g \in Frames : Status(g)' = Where(g)'
    BY StatusPrimed DEF Frames
  <1>3. Frames' = Frames
    BY DEF Frames
  <1> QED
    BY <1>1, <1>2, <1>3

(* The thread that is emptying the queue is the only one that can hold a    *)
(* frame it has unlinked.                                                   *)
LEMMA WaitingIs ==
  IInv => /\ (\A t \in AppThreads : dummy[t] = None) => Waiting = list
          /\ \A t \in AppThreads :
               dummy[t] # None => Waiting = <<dummy[t]>> \o list
  <1> SUFFICES ASSUME IInv PROVE
        /\ (\A t \in AppThreads : dummy[t] = None) => Waiting = list
        /\ \A t \in AppThreads : dummy[t] # None => Waiting = <<dummy[t]>> \o list
    OBVIOUS
  <1>1. (\A t \in AppThreads : dummy[t] = None) => Waiting = list
    BY DEF Waiting, Spoiled
  <1>2. ASSUME NEW t \in AppThreads, dummy[t] # None
        PROVE Waiting = <<dummy[t]>> \o list
    <2>1. Spoiled = {t}
      BY <1>2 DEF Spoiled, IInv, ThreadInv
    <2>2. (CHOOSE u \in Spoiled : TRUE) = t
      BY <2>1
    <2> QED
      BY <2>1, <2>2 DEF Waiting
  <1> QED
    BY <1>1, <1>2

(* The same of the next state. *)
LEMMA WaitingPrimed ==
  IInv' => /\ ((\A t \in AppThreads : dummy[t] = None) => Waiting = list)'
           /\ (\A t \in AppThreads : dummy[t] # None => Waiting = <<dummy[t]>> \o list)'
  BY WaitingIs, PTL

(* Nobody spoils while the lock of the queue is free, or while the thread   *)
(* inside it has not unlinked a frame.                                      *)
LEMMA NobodySpoils ==
  ASSUME IInv, queueLock = {} \/ \E t \in AppThreads : pc[t] = "drain" /\ dummy[t] = None
  PROVE  \A u \in AppThreads : dummy[u] = None
  BY DEF IInv, ThreadInv


(* The abstract step each step of the threads is, or that it is none.  Most *)
(* steps move no buffer.                                                    *)
LEMMA KeepStep ==
  ASSUME IInv, IInv', UNCHANGED <<complete, frame, dummy, eframe, list>>
  PROVE  UNCHANGED Lifecycle!lvars
  <1>1. \A g \in Frames : Where(g)' = Where(g)
    BY DEF Where, IsDrawn, IsWaiting
  <1>2. [g \in Frames |-> Status(g)]' = [g \in Frames |-> Status(g)]
    BY <1>1, StatusIsWhere, StatusPrimed DEF Frames
  <1>3. Waiting' = Waiting
    BY DEF Waiting, Spoiled
  <1> QED
    BY <1>2, <1>3 DEF Lifecycle!lvars

(* getFrame *)
LEMMA TakeBufferGives ==
  ASSUME IInv, IInv', NEW t \in AppThreads, TakeBuffer(t)
  PROVE  \E f \in Frames : Lifecycle!Give(f)
  <1>1. PICK f \in Frames : f = index[t]
    BY DEF TakeBuffer, IInv, TypeOK
  <1>2. /\ complete[f] /\ frame[t] = None
        /\ complete' = [complete EXCEPT ![f] = FALSE]
        /\ frame' = [frame EXCEPT ![t] = f]
        /\ UNCHANGED <<dummy, eframe, list>>
    BY <1>1 DEF TakeBuffer, LeaveMutex, IInv, ThreadInv, queueVars, encoderVars
  <1>3. Where(f) = "free" /\ Where(f)' = "drawn"
    BY <1>2 DEF Where, IsDrawn, IInv, TypeOK
  <1>4. ASSUME NEW g \in Frames \ {f} PROVE Where(g)' = Where(g)
    BY <1>2 DEF Where, IsDrawn, IsWaiting, IInv, TypeOK, Frames, None
  <1>5. Waiting' = Waiting
    BY <1>2 DEF Waiting, Spoiled
  <1>6. Lifecycle!Give(f)
    BY <1>3, <1>4, <1>5, Moves DEF Lifecycle!Give, Lifecycle!Become
  <1> QED
    BY <1>6

(* A thread whose call fails with a frame in its hands. *)
LEMMA AbandonLoses ==
  ASSUME IInv, IInv', NEW t \in AppThreads, frame[t] # None, Abandon(t),
         UNCHANGED <<complete, dummy, eframe, list>>
  PROVE  \E f \in Frames : Lifecycle!Lose(f)
  <1>1. PICK f \in Frames : f = frame[t]
    BY DEF IInv, TypeOK
  <1>2. frame' = [frame EXCEPT ![t] = None]
    BY DEF Abandon
  <1>3. /\ ~complete[f] /\ f # eframe /\ f # None
        /\ \A u \in AppThreads : (u # t => frame[u] # f) /\ dummy[u] # f
        /\ \A i \in 1 .. Len(list) : list[i] # f
    BY <1>1 DEF IInv, OwnerInv, Frames, None
  <1>4. Where(f) = "drawn"
    BY <1>1, <1>3 DEF Where, IsDrawn
  <1>5. Where(f)' = "lost"
    BY <1>2, <1>3 DEF Where, IsDrawn, IsWaiting, IInv, TypeOK
  <1>6. ASSUME NEW g \in Frames \ {f} PROVE Where(g)' = Where(g)
    BY <1>1, <1>2 DEF Where, IsDrawn, IsWaiting, IInv, TypeOK, Frames, None
  <1>7. Waiting' = Waiting
    BY DEF Waiting, Spoiled
  <1>8. Lifecycle!Lose(f)
    BY <1>4, <1>5, <1>6, <1>7, Moves DEF Lifecycle!Lose, Lifecycle!Become
  <1> QED
    BY <1>8

(* The encoder gives up, with or without a frame in its hands. *)
LEMMA EncoderLoses ==
  ASSUME IInv, IInv', eframe' = None, UNCHANGED <<complete, frame, dummy, list>>
  PROVE  (\E f \in Frames : Lifecycle!Lose(f)) \/ UNCHANGED Lifecycle!lvars
  <1>1. CASE eframe = None
    BY <1>1, KeepStep
  <1>2. CASE eframe # None
    <2>1. PICK f \in Frames : f = eframe
      BY <1>2 DEF IInv, TypeOK
    <2>2. /\ ~complete[f] /\ f # None
          /\ \A u \in AppThreads : frame[u] # f /\ dummy[u] # f
          /\ \A i \in 1 .. Len(list) : list[i] # f
      BY <2>1 DEF IInv, OwnerInv, Frames, None
    <2>3. Where(f) = "encoded"
      BY <2>1, <2>2 DEF Where, IsDrawn, IsWaiting
    <2>4. Where(f)' = "lost"
      BY <2>2 DEF Where, IsDrawn, IsWaiting
    <2>5. ASSUME NEW g \in Frames \ {f} PROVE Where(g)' = Where(g)
      BY <2>1 DEF Where, IsDrawn, IsWaiting, Frames, None
    <2>6. Waiting' = Waiting
      BY DEF Waiting, Spoiled
    <2>7. Lifecycle!Lose(f)
      BY <2>3, <2>4, <2>5, <2>6, Moves DEF Lifecycle!Lose, Lifecycle!Become
    <2> QED
      BY <2>7
  <1> QED
    BY <1>1, <1>2

(* signalComplete *)
LEMMA SignalReturns ==
  ASSUME IInv, IInv', SignalComplete
  PROVE  \E f \in Frames : Lifecycle!Return(f)
  <1>1. PICK f \in Frames : f = eframe
    BY DEF SignalComplete, EncGoto, IInv, TypeOK, EncoderInv
  <1>2. /\ complete' = [complete EXCEPT ![f] = TRUE] /\ eframe' = None
        /\ UNCHANGED <<frame, dummy, list>>
    BY <1>1 DEF SignalComplete, queueVars
  <1>3. /\ ~complete[f] /\ f # None
        /\ \A u \in AppThreads : frame[u] # f /\ dummy[u] # f
        /\ \A i \in 1 .. Len(list) : list[i] # f
    BY <1>1 DEF IInv, OwnerInv, Frames, None
  <1>4. Where(f) = "encoded"
    BY <1>1, <1>3 DEF Where, IsDrawn, IsWaiting
  <1>5. Where(f)' = "free"
    BY <1>2 DEF Where, IInv, TypeOK
  <1>6. ASSUME NEW g \in Frames \ {f} PROVE Where(g)' = Where(g)
    BY <1>1, <1>2 DEF Where, IsDrawn, IsWaiting, IInv, TypeOK, Frames, None
  <1>7. Waiting' = Waiting
    BY <1>2 DEF Waiting, Spoiled
  <1>8. Lifecycle!Return(f)
    BY <1>4, <1>5, <1>6, <1>7, Moves DEF Lifecycle!Return, Lifecycle!Become
  <1> QED
    BY <1>8

(* What the encoder or spoil finds when it unlinks the oldest frame. *)
LEMMA OldestIs ==
  ASSUME IInv, ~deadYet, hasItem + Claimed > 0
  PROVE  /\ Len(list) > 0 /\ list # <<>>
         /\ Head(list) = list[1] /\ Head(list) \in Frames
         /\ Tail(list) \in Seq(Frames)
         /\ Len(Tail(list)) = Len(list) - 1
         /\ \A i \in 1 .. Len(list) - 1 : Tail(list)[i] = list[i + 1]
         /\ <<Head(list)>> \o Tail(list) = list
  <1>1. list \in Seq(Frames) /\ Len(list) > 0
    BY DEF IInv, TypeOK, QueueBound, Claimed
  <1>2. <<Head(list)>> \o Tail(list) = list
    <2>1. /\ <<Head(list)>> \o Tail(list) \in Seq(Frames)
          /\ Len(<<Head(list)>> \o Tail(list)) = Len(list)
      BY <1>1
    <2>2. ASSUME NEW i \in 1 .. Len(list)
          PROVE (<<Head(list)>> \o Tail(list))[i] = list[i]
      BY <1>1
    <2> QED
      BY <1>1, <2>1, <2>2, SeqEqual
  <1> QED
    BY <1>1, <1>2

(* Unlinking the oldest frame takes that one off the list and no other.     *)
LEMMA OnList ==
  ASSUME IInv, ~deadYet, hasItem + Claimed > 0, NEW g
  PROVE  (\E i \in 1 .. Len(list) : list[i] = g)
           <=> \/ g = Head(list)
               \/ \E i \in 1 .. Len(Tail(list)) : Tail(list)[i] = g
  <1>1. /\ Len(list) \in Nat /\ Len(list) > 0
        /\ Head(list) = list[1]
        /\ Len(Tail(list)) = Len(list) - 1
        /\ \A i \in 1 .. Len(list) - 1 : Tail(list)[i] = list[i + 1]
    BY OldestIs DEF IInv, TypeOK
  <1>2. ASSUME NEW i \in 1 .. Len(list), list[i] = g, i # 1
        PROVE \E j \in 1 .. Len(Tail(list)) : Tail(list)[j] = g
    <2>1. i - 1 \in 1 .. Len(list) - 1 /\ (i - 1) + 1 = i
      BY <1>1, <1>2
    <2> QED
      BY <1>1, <1>2, <2>1
  <1>3. ASSUME NEW i \in 1 .. Len(Tail(list)), Tail(list)[i] = g
        PROVE \E j \in 1 .. Len(list) : list[j] = g
    <2>1. i + 1 \in 1 .. Len(list) /\ i \in 1 .. Len(list) - 1
      BY <1>1
    <2> QED
      BY <1>1, <1>3, <2>1
  <1>4. 1 \in 1 .. Len(list)
    BY <1>1
  <1> QED
    BY <1>1, <1>2, <1>3, <1>4

(* get *)
LEMMA PopEncodes ==
  ASSUME IInv, IInv', PopItem
  PROVE  \E f \in Frames : Lifecycle!Encode(f)
  <1>1. \A u \in AppThreads : dummy[u] = None
    BY NobodySpoils DEF PopItem
  <1>2. hasItem + Claimed > 0 /\ ~deadYet
    BY DEF PopItem, EncGoto, Claimed, IInv, TypeOK
  <1>3. PICK f \in Frames : f = Head(list)
    BY <1>2, OldestIs
  <1>4. /\ list # <<>> /\ f = list[1] /\ 1 \in 1 .. Len(list)
        /\ list' = Tail(list)
        /\ Len(list') = Len(list) - 1
        /\ \A i \in 1 .. Len(list) - 1 : list'[i] = list[i + 1]
    BY <1>2, <1>3, OldestIs DEF PopItem, IInv, TypeOK
  <1>5. /\ eframe = None /\ eframe' = f
        /\ UNCHANGED <<complete, frame, dummy>>
    BY <1>3 DEF PopItem, EncGoto, IInv, EncoderInv, poolVars
  <1>6. /\ ~complete[f] /\ f # None
        /\ \A u \in AppThreads : frame[u] # f /\ dummy[u] # f
        /\ \A i \in 2 .. Len(list) : list[i] # f
    BY <1>4 DEF IInv, OwnerInv, Frames, None
  <1>7. Where(f) = "waiting"
    BY <1>4, <1>6 DEF Where, IsDrawn, IsWaiting
  <1>8. Where(f)' = "encoded"
    BY <1>4, <1>5, <1>6 DEF Where, IsDrawn, IsWaiting, IInv, TypeOK
  <1>9. ASSUME NEW g \in Frames \ {f} PROVE Where(g)' = Where(g)
    <2>1. IsWaiting(g)' <=> IsWaiting(g)
      BY <1>2, <1>3, <1>4, <1>5, OnList DEF IsWaiting
    <2> QED
      BY <2>1, <1>5 DEF Where, IsDrawn, Frames, None
  <1>10. Waiting = list /\ Waiting' = list'
    BY <1>1, <1>5, WaitingIs, WaitingPrimed
  <1>11. Lifecycle!With("encoded") = {}
    <2>1. \A g \in Frames : Where(g) # "encoded"
      BY <1>5 DEF Where, Frames, None
    <2> QED
      BY <2>1, StatusIsWhere DEF Lifecycle!With
  <1>12. Lifecycle!Encode(f)
    BY <1>3, <1>4, <1>7, <1>8, <1>9, <1>10, <1>11, Moves
      DEF Lifecycle!Encode, Lifecycle!Become, Lifecycle!Oldest
  <1> QED
    BY <1>12

(* The frame spoil has unlinked still waits until it is signalled. *)
LEMMA DrainKeeps ==
  ASSUME IInv, IInv', NEW t \in AppThreads, Drain(t)
  PROVE  UNCHANGED Lifecycle!lvars
  <1>1. \A u \in AppThreads : dummy[u] = None
    BY NobodySpoils DEF Drain
  <1>2. hasItem + Claimed > 0 /\ ~deadYet
    BY DEF Drain, Claimed, IInv, TypeOK, ThreadInv, deadYet, shutdown
  <1>3. /\ list # <<>> /\ Head(list) \in Frames /\ Head(list) = list[1]
        /\ 1 \in 1 .. Len(list)
        /\ list' = Tail(list) /\ Len(list') = Len(list) - 1
        /\ \A i \in 1 .. Len(list) - 1 : list'[i] = list[i + 1]
        /\ dummy' = [dummy EXCEPT ![t] = Head(list)]
        /\ UNCHANGED <<complete, frame, eframe>>
    BY <1>2, OldestIs DEF Drain, IInv, TypeOK, poolVars, encoderVars
  <1>4. ASSUME NEW g \in Frames PROVE Where(g)' = Where(g)
    <2>1. dummy'[t] = Head(list) /\ \A u \in AppThreads \ {t} : dummy'[u] = None
      BY <1>1, <1>3 DEF IInv, TypeOK
    <2>2. IsWaiting(g)' <=> IsWaiting(g)
      BY <1>1, <1>2, <1>3, <2>1, OnList DEF IsWaiting, Frames, None
    <2> QED
      BY <1>3, <2>2 DEF Where, IsDrawn
  <1>5. [g \in Frames |-> Status(g)]' = [g \in Frames |-> Status(g)]
    BY <1>4, StatusIsWhere, StatusPrimed DEF Frames
  <1>6. Waiting = list
    BY <1>1, WaitingIs
  <1>7. Waiting' = <<Head(list)>> \o Tail(list)
    <2>1. dummy'[t] # None /\ dummy'[t] = Head(list) /\ list' = Tail(list)
      BY <1>3 DEF IInv, TypeOK, Frames, None
    <2> QED
      BY <2>1, WaitingPrimed
  <1>8. Waiting' = Waiting
    BY <1>2, <1>6, <1>7, OldestIs
  <1> QED
    BY <1>5, <1>8 DEF Lifecycle!lvars

(* spoilFunction: the frame in the hands of this thread is the newer one.   *)
LEMMA SpoilFunctionSpoils ==
  ASSUME IInv, IInv', NEW t \in AppThreads, SpoilFunction(t)
  PROVE  \E f \in Frames : Lifecycle!Spoil(f)
  <1>1. PICK f \in Frames : f = dummy[t]
    BY DEF SpoilFunction, IInv, TypeOK
  <1>2. /\ dummy[t] # None /\ frame[t] # None
        /\ complete' = [complete EXCEPT ![f] = TRUE]
        /\ dummy' = [dummy EXCEPT ![t] = None]
        /\ UNCHANGED <<frame, eframe, list>>
    BY <1>1 DEF SpoilFunction, IInv, ThreadInv, Holding, queueVars, encoderVars
  <1>3. /\ ~complete[f] /\ f # eframe
        /\ \A u \in AppThreads : frame[u] # f
    BY <1>1, <1>2 DEF IInv, OwnerInv
  <1>4. Where(f) = "waiting"
    BY <1>1, <1>3 DEF Where, IsDrawn, IsWaiting
  <1>5. Where(f)' = "free"
    BY <1>2 DEF Where, IInv, TypeOK
  <1>6. ASSUME NEW g \in Frames \ {f} PROVE Where(g)' = Where(g)
    BY <1>1, <1>2 DEF Where, IsDrawn, IsWaiting, IInv, TypeOK, Frames, None
  <1>7. \A u \in AppThreads : dummy'[u] = None
    <2>1. \A u \in AppThreads : dummy[u] # None => u = t
      BY <1>2 DEF IInv, ThreadInv
    <2> QED
      BY <1>2, <2>1 DEF IInv, TypeOK
  <1>8. Waiting = <<f>> \o list /\ Waiting' = list
    BY <1>1, <1>2, <1>7, WaitingIs, WaitingPrimed
  <1>9. Waiting # <<>> /\ Head(Waiting) = f /\ Tail(Waiting) = list
    <2>1. list \in Seq(Frames)
      BY DEF IInv, TypeOK
    <2>2. <<f>> \o list # <<>> /\ Head(<<f>> \o list) = f
      BY <2>1
    <2>3. Tail(<<f>> \o list) = list
      <3>1. Tail(<<f>> \o list) \in Seq(Frames) /\ Len(Tail(<<f>> \o list)) = Len(list)
        BY <2>1
      <3>2. \A i \in 1 .. Len(list) : Tail(<<f>> \o list)[i] = list[i]
        BY <2>1
      <3> QED
        BY <2>1, <3>1, <3>2, SeqEqual
    <2> QED
      BY <1>8, <2>2, <2>3
  <1>10. Lifecycle!With("drawn") # {}
    <2>1. PICK g \in Frames : g = frame[t]
      BY <1>2 DEF IInv, TypeOK
    <2>2. Where(g) = "drawn"
      BY <1>2, <2>1 DEF Where, IsDrawn, IInv, OwnerInv
    <2> QED
      BY <2>2, StatusIsWhere DEF Lifecycle!With
  <1>11. Lifecycle!Spoil(f)
    BY <1>4, <1>5, <1>6, <1>8, <1>9, <1>10, Moves
      DEF Lifecycle!Spoil, Lifecycle!Become, Lifecycle!Oldest
  <1> QED
    BY <1>11

(* add: the queue is empty but for a frame the encoder has claimed.         *)
LEMMA EnqueueSends ==
  ASSUME IInv, IInv', NEW t \in AppThreads, Enqueue(t)
  PROVE  \E f \in Frames : Lifecycle!Send(f)
  <1>1. PICK f \in Frames : f = frame[t]
    BY DEF Enqueue, IInv, TypeOK, ThreadInv, Holding
  <1>2. \A u \in AppThreads : dummy[u] = None
    BY NobodySpoils DEF Enqueue
  <1>3. /\ frame[t] # None
        /\ list' = Append(list, f)
        /\ frame' = [frame EXCEPT ![t] = None]
        /\ UNCHANGED <<complete, dummy, eframe>>
    BY <1>1 DEF Enqueue, AddToQueue, IInv, ThreadInv, Holding, poolVars, encoderVars
  <1>4. /\ ~complete[f] /\ f # eframe /\ f # None
        /\ \A u \in AppThreads \ {t} : frame[u] # f
    BY <1>1, <1>3 DEF IInv, OwnerInv, Frames, None
  <1>5. /\ list \in Seq(Frames) /\ Len(list) = Claimed
        /\ Len(list') = Len(list) + 1 /\ list'[Len(list) + 1] = f
        /\ \A i \in 1 .. Len(list) : list'[i] = list[i]
    <2>1. list \in Seq(Frames) /\ Len(list) = Claimed
      <3>1. hasItem = 0 /\ ~deadYet
        BY DEF Enqueue, IInv, ThreadInv, deadYet, shutdown
      <3> QED
        BY <3>1 DEF IInv, TypeOK, QueueBound, Claimed
    <2> QED
      BY <1>3, <2>1
  <1>6. Where(f) = "drawn"
    BY <1>1, <1>4 DEF Where, IsDrawn
  <1>7. Where(f)' = "waiting"
    <2>1. ~IsDrawn(f)'
      BY <1>3, <1>4 DEF IsDrawn, IInv, TypeOK
    <2>2. IsWaiting(f)'
      BY <1>5 DEF IsWaiting
    <2> QED
      BY <1>3, <1>4, <2>1, <2>2 DEF Where
  <1>8. ASSUME NEW g \in Frames \ {f} PROVE Where(g)' = Where(g)
    <2>1. IsWaiting(g)' <=> IsWaiting(g)
      BY <1>3, <1>5 DEF IsWaiting
    <2>2. IsDrawn(g)' <=> IsDrawn(g)
      BY <1>1, <1>3 DEF IsDrawn, IInv, TypeOK, Frames, None
    <2> QED
      BY <1>3, <2>1, <2>2 DEF Where
  <1>9. Waiting = list /\ Waiting' = list'
    BY <1>2, <1>3, WaitingIs, WaitingPrimed
  <1>10. Len(Waiting) + (IF Lifecycle!With("encoded") = {} THEN 0 ELSE 1) < 2
    <2>1. CASE epc = "pop"
      <3>1. \A g \in Frames : Where(g) # "encoded"
        BY <2>1 DEF Where, IInv, EncoderInv, Frames, None
      <3>2. Lifecycle!With("encoded") = {}
        BY <3>1, StatusIsWhere DEF Lifecycle!With
      <3> QED
        BY <1>5, <1>9, <2>1, <3>2 DEF Claimed
    <2>2. CASE epc # "pop"
      BY <1>5, <1>9, <2>2 DEF Claimed
    <2> QED
      BY <2>1, <2>2
  <1>11. Lifecycle!Send(f)
    BY <1>3, <1>6, <1>7, <1>8, <1>9, <1>10, Moves
      DEF Lifecycle!Send, Lifecycle!Become
  <1> QED
    BY <1>11

(* Every step of the threads and of the destructor is a step of the         *)
(* abstract frame pool, or changes nothing there.                           *)
LEMMA StepRefines ==
  ASSUME IInv, IInv', [Next]_vars PROVE [Lifecycle!LNext]_(Lifecycle!lvars)
  <1>1. ASSUME NEW t \in AppThreads, CallGetFrame(t) \/ CopyEnter(t) \/
    Synchronize(t) \/ LockPool(t) \/ ScanBuffer(t) \/ NoFreeBuffer(t) \/
    InitFinish(t) \/ CopyFinish(t) \/ SpoilLock(t) \/ SyncWake(t) PROVE
    UNCHANGED <<complete, frame, dummy, eframe, list>>
    BY <1>1 DEF poolVars, queueVars, scanVars, encoderVars, CallGetFrame,
      CopyEnter, Synchronize, LockPool, ScanBuffer, NoFreeBuffer, InitFinish,
      CopyFinish, SpoilLock, SyncWake
  <1>2. ASSUME NEW t \in AppThreads, NEW w \in Sizes, InitReuse(t, w) \/
    InitEnter(t, w) PROVE UNCHANGED <<complete, frame, dummy, eframe, list>>
    BY <1>2 DEF poolVars, queueVars, scanVars, encoderVars, InitReuse,
      InitEnter
  <1>3. ASSUME Loop \/ Receive \/ ResetEncoder \/ Items \/ ClaimItem \/
    GetReleased \/ SignalReady \/ MakeCurrent \/ EncodeFrame \/ RRTransDestroy
    \/ ReleaseQueue \/ JoinThread \/ Joined PROVE UNCHANGED <<complete,
    frame, dummy, eframe, list>>
    BY <1>3 DEF poolVars, queueVars, scanVars, encoderVars, EncGoto, vars,
      Loop, Receive, ResetEncoder, Items, ClaimItem, GetReleased, SignalReady,
      MakeCurrent, EncodeFrame, RRTransDestroy, ReleaseQueue, JoinThread,
      Joined
  <1>4. ASSUME UNCHANGED vars PROVE UNCHANGED <<complete, frame, dummy, eframe,
    list>>
    BY <1>4 DEF vars, poolVars, queueVars, scanVars, encoderVars
  <1>5. ASSUME NEW t \in AppThreads,
               SendRefused(t) \/ (\E w \in Sizes : InitRefused(t, w)) \/
                 InitThrow(t) \/ CopyThrow(t)
        PROVE \E f \in Frames : Lifecycle!Lose(f)
    <2>1. frame[t] # None
      BY <1>5 DEF SendRefused, InitRefused, MustInit, InitThrow, CopyThrow,
        IInv, ThreadInv, Holding
    <2>2. Abandon(t) /\ UNCHANGED <<complete, dummy, eframe, list>>
      BY <1>5 DEF SendRefused, InitRefused, MustInit, InitThrow, CopyThrow,
        poolVars, queueVars, encoderVars
    <2> QED
      BY <2>1, <2>2, AbandonLoses
  <1>6. ASSUME EncThrow \/ ReturnEarly
        PROVE (\E f \in Frames : Lifecycle!Lose(f)) \/ UNCHANGED Lifecycle!lvars
    <2>1. eframe' = None /\ UNCHANGED <<complete, frame, dummy, list>>
      BY <1>6 DEF EncThrow, ReturnEarly, poolVars, queueVars
    <2> QED
      BY <2>1, EncoderLoses
  <1> QED
    BY <1>1, <1>2, <1>3, <1>4, <1>5, <1>6, KeepStep, TakeBufferGives,
      DrainKeeps, SpoilFunctionSpoils, EnqueueSends, PopEncodes, SignalReturns
      DEF Next, Call, GetFrame, SendFrame, Run, Destroy, Lifecycle!LNext

(* The pool implements FrameLifecycle for any number of buffers and         *)
(* threads: whatever the interleaving, frames are encoded or dropped in the *)
(* order they were sent in, one is encoded at a time, and a frame is only   *)
(* dropped by a thread that has a newer one to send.                        *)
THEOREM Implements == Spec => Refines
  <1>1. Init => Lifecycle!LInit
    BY InitRefines
  <1>2. IInv /\ IInv' /\ [Next]_vars => [Lifecycle!LNext]_(Lifecycle!lvars)
    BY StepRefines
  <1> QED
    BY <1>1, <1>2, Invariance, PTL DEF Spec, Refines, Lifecycle!Spec

=============================================================================

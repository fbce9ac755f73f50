-------------------------- MODULE PoolSizeProofs --------------------------
(***************************************************************************)
(* How many buffers the pool needs: a counting argument on top of the      *)
(* invariant of GPUEncTransProofs.                                         *)
(***************************************************************************)
EXTENDS GPUEncTransProofs, FiniteSetTheorems

(* With every buffer in use there are too few of them, or too many are lost. *)
TooFew == NFRAMES <= Cardinality(Lost) + Cardinality(AppThreads) + 1

(* A scan that has found nothing so far will, unless there are too few.     *)
ScanFinds ==
  \A t \in AppThreads :
    pc[t] = "scan" /\ index[t] = None
      => TooFew \/ \E f \in Frames : f >= scan[t] /\ complete[f]

(* The set Lost holds the buffers that IsLost, as LostForGood has it, is    *)
(* true of.                                                                 *)
LEMMA LostIsLost ==
  ASSUME IInv PROVE \A f : f \in Lost <=> IsLost(f)
  <1>1. ASSUME NEW f \in Lost PROVE IsLost(f)
    BY NFRAMESAssumption
      DEF Lost, InUse, IsLost, Owners, Unlinked, Pending
  <1>2. ASSUME NEW f, IsLost(f) PROVE f \in Lost
    BY <1>2 DEF Lost, InUse, IsLost, Owners, Unlinked, Pending
  <1> QED
    BY <1>1, <1>2

(* The lost buffers are finitely many, so that they can be counted.         *)
LEMMA LostFinite == IsFiniteSet(Lost) /\ Cardinality(Lost) \in Nat
  <1>1. IsFiniteSet(Frames)
    BY NFRAMESAssumption, FS_Interval DEF Frames
  <1>2. Lost \in SUBSET Frames
    BY DEF Lost
  <1> QED
    BY <1>1, <1>2, FS_Subset, FS_CardinalityType

(* At most two buffers are in the queue, in spoil or in the encoder.        *)
LEMMA TwoQueued ==
  ASSUME IInv, ~deadYet
  PROVE  \E a, b :
           \A f \in Frames : Unlinked(f) # {} \/ f \in Pending \/ f = eframe
                               => f = a \/ f = b
  <1> USE NFRAMESAssumption
      DEF IInv, TypeOK, ThreadInv, EncoderInv, QueueBound, Claimed, None,
        Frames, Unlinked, Pending
  <1>1. CASE \E u \in AppThreads : dummy[u] # None
    <2>1. PICK u \in AppThreads : dummy[u] # None
      BY <1>1
    <2>2. \A v \in AppThreads : dummy[v] # None => v = u
      BY <2>1
    <2>3. hasItem = 0 /\ Len(list) = IF epc = "pop" THEN 1 ELSE 0
      <3>1. hasItem = 0
        BY <2>1
      <3> QED
        BY <3>1
    <2>4. CASE epc = "pop"
      <3>1. eframe = None /\ Len(list) = 1
        BY <2>3, <2>4
      <3>2. \A f \in Frames : Unlinked(f) # {} \/ f \in Pending \/ f = eframe
                                => f = dummy[u] \/ f = list[1]
        BY <2>2, <3>1
      <3> DEFINE x == dummy[u]
                 y == list[1]
      <3>3. \A f \in Frames : Unlinked(f) # {} \/ f \in Pending \/ f = eframe
                                => f = x \/ f = y
        BY <3>2
      <3> HIDE DEF x, y, IInv, Unlinked, Pending
      <3> QED
        BY <3>3
    <2>5. CASE epc # "pop"
      <3>1. Len(list) = 0
        BY <2>3, <2>5
      <3>2. \A f \in Frames : Unlinked(f) # {} \/ f \in Pending \/ f = eframe
                                => f = dummy[u] \/ f = eframe
        BY <2>2, <3>1
      <3> QED
        BY <3>2
    <2> QED
      BY <2>4, <2>5
  <1>2. CASE \A u \in AppThreads : dummy[u] = None
    <2>1. CASE epc = "pop"
      <3>1. eframe = None /\ Len(list) <= 2
        BY <2>1
      <3>2. \A f \in Frames : Unlinked(f) # {} \/ f \in Pending \/ f = eframe
                                => f = list[1] \/ f = list[2]
        BY <1>2, <3>1
      <3> QED
        BY <3>2
    <2>2. CASE epc # "pop"
      <3>1. Len(list) <= 1
        BY <2>2
      <3>2. \A f \in Frames : Unlinked(f) # {} \/ f \in Pending \/ f = eframe
                                => f = list[1] \/ f = eframe
        BY <1>2, <3>1
      <3> QED
        BY <3>2
    <2> QED
      BY <2>1, <2>2
  <1> QED
    BY <1>1, <1>2

(* A thread that holds nothing finds all buffers in use only when the other *)
(* threads, the queue and the encoder, and the lost ones, account for them. *)
LEMMA Counting ==
  ASSUME IInv, ~deadYet, NEW t \in AppThreads, frame[t] = None,
         \A f \in Frames : ~complete[f]
  PROVE  TooFew
  <1> DEFINE Others == AppThreads \ {t}
             Held == {frame[u] : u \in Others}
             holds == [u \in Others |-> frame[u]]
  <1>1. /\ IsFiniteSet(Others)
        /\ Cardinality(AppThreads) \in Nat /\ Cardinality(Others) \in Nat
        /\ Cardinality(Others) = Cardinality(AppThreads) - 1
    BY ThreadsAssumption, FS_RemoveElement, FS_CardinalityType
  <1>2. holds \in Surjection(Others, Held)
    BY DEF Surjection
  <1>3. /\ IsFiniteSet(Held) /\ Cardinality(Held) \in Nat
        /\ Cardinality(Held) <= Cardinality(Others)
    BY <1>1, <1>2, FS_Surjection, FS_CardinalityType
  <1>4. PICK a, b : \A f \in Frames :
          Unlinked(f) # {} \/ f \in Pending \/ f = eframe => f = a \/ f = b
    BY TwoQueued
  <1>5. ASSUME NEW f \in Frames, f \notin Lost
        PROVE f \in Held \cup {a} \cup {b}
    <2>1. CASE Owners(f) # {}
      <3>1. PICK u \in AppThreads : frame[u] = f
        BY <2>1 DEF Owners
      <3>2. u # t
        BY <3>1, NFRAMESAssumption DEF Frames, None
      <3> QED
        BY <3>1, <3>2
    <2>2. CASE Unlinked(f) # {} \/ f \in Pending \/ f = eframe
      BY <1>4, <2>2
    <2> QED
      BY <1>5, <2>1, <2>2 DEF Lost, InUse
  <1> DEFINE All == ((Lost \cup Held) \cup {a}) \cup {b}
  <1>6. /\ IsFiniteSet(Lost \cup Held) /\ Cardinality(Lost \cup Held) \in Nat
        /\ Cardinality(Lost \cup Held) <= Cardinality(Lost) + Cardinality(Held)
    <2>1. IsFiniteSet(Lost \cap Held) /\ Cardinality(Lost \cap Held) \in Nat
      BY LostFinite, FS_Intersection, FS_CardinalityType
    <2>2. /\ IsFiniteSet(Lost \cup Held)
          /\ Cardinality(Lost \cup Held)
               = Cardinality(Lost) + Cardinality(Held) - Cardinality(Lost \cap Held)
      BY <1>3, LostFinite, FS_Union
    <2> HIDE DEF Held
    <2> QED
      BY <2>1, <2>2, <1>3, LostFinite, FS_CardinalityType
  <1> HIDE DEF Held, Others
  <1>7. /\ IsFiniteSet((Lost \cup Held) \cup {a})
        /\ Cardinality((Lost \cup Held) \cup {a}) \in Nat
        /\ Cardinality((Lost \cup Held) \cup {a}) <= Cardinality(Lost \cup Held) + 1
    <2> DEFINE Sum == Lost \cup Held
    <2>1. IsFiniteSet(Sum) /\ Cardinality(Sum) \in Nat
      BY <1>6
    <2> HIDE DEF Sum
    <2>2. /\ IsFiniteSet(Sum \cup {a})
          /\ Cardinality(Sum \cup {a})
               = IF a \in Sum THEN Cardinality(Sum) ELSE Cardinality(Sum) + 1
      BY <2>1, FS_AddElement
    <2>3. /\ Cardinality(Sum \cup {a}) \in Nat
          /\ Cardinality(Sum \cup {a}) <= Cardinality(Sum) + 1
      BY <2>1, <2>2
    <2> QED
      BY <2>2, <2>3 DEF Sum
  <1>8. /\ IsFiniteSet(All) /\ Cardinality(All) \in Nat
        /\ Cardinality(All) <= Cardinality((Lost \cup Held) \cup {a}) + 1
    BY <1>7, FS_AddElement
  <1>9. Cardinality(Frames) = NFRAMES
    BY NFRAMESAssumption, FS_Interval DEF Frames
  <1>10. Frames \in SUBSET All
    BY <1>5
  <1>11. Cardinality(Frames) <= Cardinality(All)
    BY <1>8, <1>10, FS_Subset
  <1> HIDE DEF All
  <1> QED
    BY <1>1, <1>3, <1>6, <1>7, <1>8, <1>9, <1>11, LostFinite, NFRAMESAssumption
      DEF TooFew

(* No step makes room again: lost buffers stay lost. *)
LEMMA TooFewStep ==
  ASSUME IInv, [Next]_vars, TooFew PROVE TooFew'
  <1>1. IInv'
    BY StepInvariant
  <1>2. \A f : IsLost(f) => IsLost(f)'
    BY LostStep
  <1>3. Lost \subseteq Lost'
    <2>1. \A f : f \in Lost <=> IsLost(f)
      BY LostIsLost
    <2>2. (\A f : f \in Lost <=> IsLost(f))'
      BY <1>1, LostIsLost, PTL
    <2> QED
      BY <1>2, <2>1, <2>2
  <1>4. IsFiniteSet(Lost') /\ Cardinality(Lost') \in Nat
    <2>1. (IsFiniteSet(Lost) /\ Cardinality(Lost) \in Nat)'
      BY LostFinite, PTL
    <2> QED
      BY <2>1
  <1>5. Cardinality(Lost) <= Cardinality(Lost')
    BY <1>3, <1>4, FS_Subset
  <1>6. Cardinality(AppThreads) \in Nat
    BY ThreadsAssumption, FS_CardinalityType
  <1> QED
    BY <1>4, <1>5, <1>6, LostFinite, NFRAMESAssumption DEF TooFew

(* A scan that looks at the buffers one after the other, while the encoder  *)
(* and spoil only ever complete some, does not miss one.                    *)
LEMMA RoomStep ==
  ASSUME IInv, ScanFinds, [Next]_vars PROVE ScanFinds'
  <1>1. ASSUME NEW t \in AppThreads, Drain(t) PROVE UNCHANGED <<complete, pc,
    index, scan>>
    BY <1>1 DEF poolVars, queueVars, scanVars, encoderVars, Drain
  <1>2. ASSUME Loop \/ Receive \/ ResetEncoder \/ Items \/ ClaimItem \/
    GetReleased \/ PopItem \/ ReturnEarly \/ SignalReady \/ MakeCurrent \/
    EncodeFrame \/ EncThrow \/ RRTransDestroy \/ ReleaseQueue \/ JoinThread \/
    Joined PROVE UNCHANGED <<complete, pc, index, scan>>
    BY <1>2 DEF poolVars, queueVars, scanVars, encoderVars, EncGoto, vars,
      Loop, Receive, ResetEncoder, Items, ClaimItem, GetReleased, PopItem,
      ReturnEarly, SignalReady, MakeCurrent, EncodeFrame, EncThrow,
      RRTransDestroy, ReleaseQueue, JoinThread, Joined
  <1>3. ASSUME UNCHANGED vars PROVE UNCHANGED <<complete, pc, index, scan>>
    BY <1>3 DEF vars, poolVars, queueVars, scanVars, encoderVars
  <1> USE NFRAMESAssumption
      DEF ScanFinds, IInv, TypeOK, ThreadInv, ScanInv, Frames, None, Goto,
        EncGoto, poolVars, queueVars, scanVars, encoderVars
  <1>T. TooFew => TooFew'
    BY TooFewStep
  <1>4. ASSUME UNCHANGED <<complete, pc, index, scan>> PROVE ScanFinds'
    BY <1>T, <1>4
  <1>5. ASSUME NEW t \in AppThreads, CallGetFrame(t) PROVE ScanFinds'
    BY <1>T, <1>5 DEF CallGetFrame
  <1>6. ASSUME NEW t \in AppThreads, SendRefused(t) PROVE ScanFinds'
    BY <1>T, <1>6 DEF SendRefused, Abandon
  <1>7. ASSUME NEW t \in AppThreads, CopyEnter(t) PROVE ScanFinds'
    BY <1>T, <1>7 DEF CopyEnter
  <1>8. ASSUME NEW t \in AppThreads, Synchronize(t) PROVE ScanFinds'
    BY <1>T, <1>8 DEF Synchronize
  <1>9. ASSUME NEW t \in AppThreads, LockPool(t) PROVE ScanFinds'
    <2>1. CASE \A f \in Frames : ~complete[f]
      <3>1. ~deadYet /\ frame[t] = None
        BY <1>9 DEF LockPool, deadYet, shutdown
      <3>2. TooFew'
        BY <1>T, <2>1, <3>1, Counting
      <3> QED
        BY <3>2
    <2>2. CASE \E f \in Frames : complete[f]
      <3>1. scan[t] = 0
        BY <1>9 DEF LockPool
      <3>2. /\ UNCHANGED <<complete, scan, index>>
            /\ pc' = [pc EXCEPT ![t] = "scan"]
        BY <1>9 DEF LockPool
      <3>3. \E f \in Frames : f >= scan[t] /\ complete[f]
        BY <2>2, <3>1
      <3> HIDE DEF TooFew
      <3> QED
        BY <1>T, <3>1, <3>2, <3>3
    <2> QED
      BY <2>1, <2>2
  <1>10. ASSUME NEW t \in AppThreads, ScanBuffer(t) PROVE ScanFinds'
    BY <1>T, <1>10 DEF ScanBuffer
  <1>11. ASSUME NEW t \in AppThreads, NoFreeBuffer(t) PROVE ScanFinds'
    BY <1>T, <1>11 DEF NoFreeBuffer, LeaveMutex
  <1>12. ASSUME NEW t \in AppThreads, TakeBuffer(t) PROVE ScanFinds'
    BY <1>T, <1>12 DEF TakeBuffer, LeaveMutex
  <1>13. ASSUME NEW t \in AppThreads, NEW w \in Sizes, InitReuse(t, w) PROVE
    ScanFinds'
    BY <1>T, <1>13 DEF InitReuse
  <1>14. ASSUME NEW t \in AppThreads, NEW w \in Sizes, InitRefused(t, w) PROVE
    ScanFinds'
    BY <1>T, <1>14 DEF InitRefused, MustInit, Abandon
  <1>15. ASSUME NEW t \in AppThreads, NEW w \in Sizes, InitEnter(t, w) PROVE
    ScanFinds'
    BY <1>T, <1>15 DEF InitEnter, MustInit
  <1>16. ASSUME NEW t \in AppThreads, InitFinish(t) PROVE ScanFinds'
    BY <1>T, <1>16 DEF InitFinish, MakeVGLCurrent
  <1>17. ASSUME NEW t \in AppThreads, InitThrow(t) PROVE ScanFinds'
    BY <1>T, <1>17 DEF InitThrow, FailGL, Abandon
  <1>18. ASSUME NEW t \in AppThreads, CopyFinish(t) PROVE ScanFinds'
    BY <1>T, <1>18 DEF CopyFinish, MakeVGLCurrent
  <1>19. ASSUME NEW t \in AppThreads, CopyThrow(t) PROVE ScanFinds'
    BY <1>T, <1>19 DEF CopyThrow, FailGL, Abandon
  <1>20. ASSUME NEW t \in AppThreads, SpoilLock(t) PROVE ScanFinds'
    BY <1>T, <1>20 DEF SpoilLock
  <1>21. ASSUME NEW t \in AppThreads, SpoilFunction(t) PROVE ScanFinds'
    BY <1>T, <1>21 DEF SpoilFunction
  <1>22. ASSUME NEW t \in AppThreads, Enqueue(t) PROVE ScanFinds'
    BY <1>T, <1>22 DEF Enqueue, AddToQueue
  <1>23. ASSUME NEW t \in AppThreads, SyncWake(t) PROVE ScanFinds'
    BY <1>T, <1>23 DEF SyncWake
  <1>24. ASSUME SignalComplete PROVE ScanFinds'
    BY <1>T, <1>24 DEF SignalComplete
  <1> QED
    BY <1>1, <1>2, <1>3, <1>4, <1>5, <1>6, <1>7, <1>8, <1>9, <1>10, <1>11,
      <1>12, <1>13, <1>14, <1>15, <1>16, <1>17, <1>18, <1>19, <1>20, <1>21,
      <1>22, <1>23, <1>24 DEF Next, Call, GetFrame, SendFrame, Run, Destroy

(* getFrame fails for want of a free buffer only when the pool is smaller    *)
(* than the threads plus two, counting the lost buffers out.                *)
THEOREM PoolSize == Spec => []ExhaustedOnlyAfterLoss
  <1>1. Init => ScanFinds
    BY DEF Init, ScanFinds
  <1>2. IInv /\ ScanFinds /\ [Next]_vars => ScanFinds'
    BY RoomStep
  <1>3. IInv /\ ScanFinds => ExhaustedOnlyAfterLoss
    BY NFRAMESAssumption
      DEF IInv, TypeOK, ScanFinds, ExhaustedOnlyAfterLoss, TooFew, Frames
  <1>4. Spec => []ScanFinds
    BY <1>1, <1>2, Invariance, PTL DEF Spec
  <1> QED
    BY <1>3, <1>4, Invariance, PTL

=============================================================================

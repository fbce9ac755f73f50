--------------------------- MODULE XCaptureProofs ---------------------------
(* What holds of the walk, the file and the calls of NvIFR for any number   *)
(* of windows, sizes and frames, whichever calls fail and windows go.       *)
EXTENDS XCapture, SequenceTheorems, WellFoundedInduction, TLAPS

Searching == {"walk", "print", "context", "bind", "gl", "file", "session"}

Capturing == {"transfer", "lock", "write", "release"}

Ended == {"exited", "returned", "crashed"}

(* The program has its transfer object from the call that makes it on.  A   *)
(* frame may wait in the queue when another one is transferred.             *)
ObjectInv ==
  /\ pc \in Searching \cup {"object"} \cup Capturing \cup Ended
  /\ DOMAIN config = Objects
  /\ count \in [Objects -> Nat] /\ taken \in [Objects -> Nat]
  /\ taken[Transfer] <= count[Transfer]
  /\ pc \in Searching \cup {"object"} =>
       /\ live = {} /\ locked = {} /\ config[Transfer] = Api!NoConfig
       /\ open <=> pc = "object"
  /\ pc \in Capturing => Transfer \in live
  /\ pc = "lock" => taken[Transfer] < count[Transfer]
  /\ pc \in {"write", "release"} => Transfer \in locked
  /\ pc = "write" => taken[Transfer] >= 1

(* The context is current from the moment it is bound to the window on, as  *)
(* nothing goes back before that.                                           *)
ContextInv ==
  pc \in {"gl", "file", "session", "object"} \cup Capturing => context = "current"

FileInv == file \in Seq(Nat) /\ FileInOrder

IInv == ObjectInv /\ FileInv

USE SizesAssumption, NAssumption, FramesAssumption
USE DEF Objects, Transfer, Searching, Capturing, Ended, xserver, search, glx, nvifr, Goto,
        Api!Needs

-----------------------------------------------------------------------------
(* What does not call NvIFR leaves the transfer object where it was. *)
LEMMA OtherStep ==
  ASSUME IInv, UNCHANGED <<nvifr, file>>,
         \/ pc' = pc
         \/ pc \in Searching /\ pc' \in (Searching \cup Ended)
         \/ pc = "object" /\ pc' \in Ended
         \/ pc \in Capturing \ {"write"} /\ pc' \in {"transfer"} \cup Ended
  PROVE  IInv'
<1>1. ObjectInv'
  BY DEF IInv, ObjectInv
<1>2. FileInv'
  BY DEF IInv, FileInv, FileInOrder
<1> QED
  BY <1>1, <1>2 DEF IInv

(* What calls nothing of NvIFR preserves the invariant. *)
LEMMA SearchStep ==
  ASSUME IInv,
         \/ XServer \/ Main
         \/ CreateContext \/ MakeCurrent \/ MakeCurrentError \/ InitializeGL
         \/ OpenFile \/ CreateFails \/ TransferFails \/ LockFails \/ ReleaseFails
         \/ Stopped \/ UNCHANGED vars
  PROVE  IInv'
<1>1. UNCHANGED <<nvifr, file>>
  BY DEF XServer, Destroy, Resize, Main, Walk, WalkDone, PrintWindowName, BadWindow,
         NvIFROGLInitialize, CreateContext, MakeCurrent, MakeCurrentError, InitializeGL,
         OpenFile, CreateFails, TransferFails, LockFails, ReleaseFails, Stopped, vars
<1>2. \/ pc' = pc
      \/ pc \in Searching /\ pc' \in (Searching \cup Ended)
      \/ pc = "object" /\ pc' \in Ended
      \/ pc \in Capturing \ {"write"} /\ pc' \in {"transfer"} \cup Ended
  BY DEF XServer, Destroy, Resize, Main, Walk, WalkDone, PrintWindowName, BadWindow,
         NvIFROGLInitialize, CreateContext, MakeCurrent, MakeCurrentError, InitializeGL,
         OpenFile, CreateFails, TransferFails, LockFails, ReleaseFails, Stopped, vars,
         XErrorFunc, TryAgain
<1> QED
  BY <1>1, <1>2, OtherStep

(* The calls of NvIFR, and the write between two of them *)
LEMMA CaptureStep ==
  ASSUME IInv,
         \/ CreateSession \/ CreateObject \/ TransferFrame \/ Lock \/ Write \/ Release
  PROVE  IInv'
<1> USE DEF IInv, ObjectInv, FileInv, FileInOrder
<1>1. CASE CreateSession
  BY <1>1 DEF CreateSession, Api!CreateSession
<1>2. CASE CreateObject
  BY <1>2 DEF CreateObject, Api!CreateTransferToHwEncObject
<1>3. CASE TransferFrame
  BY <1>3 DEF TransferFrame, Api!TransferFramebufferToHwEnc
<1>4. CASE Lock
  BY <1>4 DEF Lock, Api!LockTransferData
<1>5. CASE Write
  BY <1>5 DEF Write
<1>6. CASE Release
  BY <1>6 DEF Release, Api!ReleaseTransferData
<1> QED
  BY <1>1, <1>2, <1>3, <1>4, <1>5, <1>6

-----------------------------------------------------------------------------
(* All begins without a session and with an empty file. *)
LEMMA Start == Init => IInv
  BY DEF Init, Api!Init, IInv, ObjectInv, FileInv, FileInOrder

(* Every step preserves the inductive invariant. *)
LEMMA Step ==
  ASSUME IInv, [Next]_vars
  PROVE  IInv'
  BY SearchStep, CaptureStep DEF Next, Setup, CaptureSync

(* The inductive invariant holds in every state. *)
THEOREM Invariance == Spec => []IInv
  BY Start, Step, PTL DEF Spec

(* The file has the first frames of the stream in their order, each of them *)
(* once, whichever locks and releases fail.                                 *)
THEOREM FramesInOrder == Spec => []FileInOrder
<1>1. IInv => FileInOrder
  BY DEF IInv, FileInv
<1> QED
  BY <1>1, Invariance, PTL

(* No step of the program takes its context away again. *)
LEMMA ContextStep ==
  ASSUME ContextInv, [Next]_vars
  PROVE  ContextInv'
  BY DEF ContextInv, Next, XServer, Destroy, Resize, Main, Walk, WalkDone, PrintWindowName,
         BadWindow, NvIFROGLInitialize, Setup, CreateContext, MakeCurrent,
         MakeCurrentError, InitializeGL, OpenFile, CreateSession, CreateObject,
         CreateFails, CaptureSync, TransferFrame, TransferFails, Lock, LockFails, Write,
         Release, ReleaseFails, Stopped, vars, XErrorFunc, TryAgain

(* The program is the client that NvIFROpenGL.h asks for, although it does  *)
(* not look at what CaptureSync returns: none of its calls is one that a    *)
(* client may not make.                                                     *)
THEOREM Refinement == Spec => UsesNvIFR
<1>1. Init => Api!Init /\ ContextInv
  BY DEF Init, ContextInv
<1>2. IInv /\ ContextInv /\ [Next]_vars => [Api!Next]_(Api!vars)
  <2> SUFFICES ASSUME IInv, ContextInv, [Next]_vars PROVE Api!Next \/ UNCHANGED Api!vars
    OBVIOUS
  <2> USE DEF Api!vars, Api!Next, Api!CallSession, Api!CallObject, IInv, ObjectInv
  <2>1. CASE CreateSession
    BY <2>1 DEF CreateSession, Api!CreateSession, ContextInv
  <2>2. CASE CreateObject
    <3>1. /\ Api!CreateTransferToHwEncObject(Transfer, config'[Transfer])
          /\ Api!Fresh(Transfer) /\ misused' = misused
      BY <2>2 DEF CreateObject, Api!CreateTransferToHwEncObject, Api!Fresh
    <3> QED
      BY <3>1
  <2>3. CASE TransferFrame
    <3>1. Api!TransferFramebufferToHwEnc(Transfer) /\ misused' = misused
      BY <2>3 DEF TransferFrame, Api!TransferFramebufferToHwEnc, ContextInv
    <3> QED
      BY <3>1
  <2>4. CASE Lock
    <3>1. Api!LockTransferData(Transfer) /\ misused' = misused
      BY <2>4 DEF Lock, Api!LockTransferData
    <3> QED
      BY <3>1
  <2>5. CASE Release
    <3>1. Api!ReleaseTransferData(Transfer) /\ misused' = misused
      BY <2>5 DEF Release, Api!ReleaseTransferData
    <3> QED
      BY <3>1
  <2>6. CASE UNCHANGED nvifr
    BY <2>6
  <2> QED
    BY <2>1, <2>2, <2>3, <2>4, <2>5, <2>6
       DEF Next, XServer, Destroy, Resize, Main, Walk, WalkDone, PrintWindowName,
           BadWindow, NvIFROGLInitialize, Setup, CreateContext, MakeCurrent,
           MakeCurrentError, InitializeGL, OpenFile, CreateFails, CaptureSync,
           TransferFails, LockFails, Write, ReleaseFails, Stopped, vars
<1> QED
  BY <1>1, <1>2, ContextStep, Invariance, PTL DEF Spec, UsesNvIFR, Api!Spec

-----------------------------------------------------------------------------
(* The walk through the windows *)

(* What is in the list matches, and a window goes only after all those      *)
(* below it.                                                                *)
Listed ==
  /\ TypeOK /\ Numbering
  /\ \A w \in 1 .. N : parent[w] \in gone => w \in gone
  /\ \A i \in 1 .. Len(windowList) : windowList[i] \in 1 .. N /\ Matches(windowList[i])
  /\ pc \in {"context", "bind", "gl"} => windowList # <<>>

(* The stack has the windows in their order, all of them after those of the *)
(* list, and each below a window that comes before the whole stack.         *)
Stacked ==
  /\ Ascending(todo) /\ Ascending(windowList)
  /\ \A i \in 1 .. Len(windowList), j \in 1 .. Len(todo) : windowList[i] < todo[j]
  /\ \A i, j \in 1 .. Len(todo) : i < j => parent[todo[j]] < todo[i]
  /\ pc \notin {"walk", "exited"} => todo = <<>>

(* V are the windows that were visited: those of them that are still there  *)
(* and match are in the list, and what is below them is visited or on the   *)
(* stack.                                                                   *)
Covers(V) ==
  /\ Root \in V \cup Range(todo)
  /\ \A w \in (1 .. N) \ gone : parent[w] \in V => w \in V \cup Range(todo)
  /\ \A w \in V \ gone : Matches(w) => w \in Range(windowList)

Visited == \E V \in SUBSET Windows : Covers(V)

WalkInv == Listed /\ Stacked /\ Visited

(* A set of natural numbers has a least one. *)
LEMMA Least ==
  ASSUME NEW T, T \subseteq Nat, T # {}
  PROVE  \E x \in T : \A y \in T : x <= y
<1>1. PICK x \in T : \A y \in T : ~ (<<y, x>> \in OpToRel(<, Nat))
  BY WFMin, NatLessThanWellFounded
<1>2. \A y \in Nat : <<y, x>> \in OpToRel(<, Nat) <=> y < x
  BY <1>1 DEF OpToRel
<1>3. ASSUME NEW y \in T PROVE x <= y
  <2>1. x \in Nat /\ y \in Nat /\ ~ (y < x)
    BY <1>1, <1>2
  <2> QED
    BY <2>1
<1> QED
  BY <1>1, <1>3

(* The values of a sequence are those at its places. *)
LEMMA Values ==
  ASSUME NEW S, NEW s \in Seq(S)
  PROVE  /\ \A i \in 1 .. Len(s) : s[i] \in Range(s)
         /\ \A x \in Range(s) : \E i \in 1 .. Len(s) : s[i] = x
  BY RangeEquality

(* One more window at the end. *)
LEMMA AscendingAppend ==
  ASSUME NEW s \in Seq(Nat), NEW n \in Nat, Ascending(s), \A i \in 1 .. Len(s) : s[i] < n
  PROVE  Ascending(Append(s, n)) /\ Range(Append(s, n)) = Range(s) \cup {n}
<1> DEFINE t == Append(s, n)
<1>1. /\ t \in Seq(Nat) /\ Len(s) \in Nat /\ Len(t) = Len(s) + 1 /\ t[Len(s) + 1] = n
      /\ \A i \in 1 .. Len(s) : t[i] = s[i]
  OBVIOUS
<1> HIDE DEF t
<1>2. \A i \in 1 .. Len(t) : i \in 1 .. Len(s) \/ i = Len(s) + 1
  BY <1>1
<1>3. Ascending(t)
  <2> SUFFICES ASSUME NEW i \in 1 .. Len(t), NEW j \in 1 .. Len(t), i < j
               PROVE  t[i] < t[j]
    BY DEF Ascending
  <2>1. i \in 1 .. Len(s)
    BY <1>1
  <2> QED
    BY <1>1, <1>2, <2>1 DEF Ascending
<1>4. Range(t) = Range(s) \cup {n}
  <2>1. /\ \A i \in 1 .. Len(s) : s[i] \in Range(s)
        /\ \A x \in Range(s) : \E i \in 1 .. Len(s) : s[i] = x
    BY Values
  <2>2. /\ \A i \in 1 .. Len(t) : t[i] \in Range(t)
        /\ \A x \in Range(t) : \E i \in 1 .. Len(t) : t[i] = x
    BY <1>1, Values
  <2>3. ASSUME NEW x \in Range(t) PROVE x \in Range(s) \cup {n}
    BY <1>1, <1>2, <2>1, <2>2
  <2>4. ASSUME NEW x \in Range(s) \cup {n} PROVE x \in Range(t)
    <3>1. 1 .. Len(s) \subseteq 1 .. Len(t) /\ Len(s) + 1 \in 1 .. Len(t)
      BY <1>1
    <3> QED
      BY <1>1, <2>1, <2>2, <3>1
  <2> QED
    BY <2>3, <2>4
<1> QED
  BY <1>3, <1>4 DEF t

(* Every set of windows can be put in ascending order. *)
LEMMA Sorting ==
  ASSUME NEW S, S \subseteq 1 .. N
  PROVE  \E s \in SeqOf(1 .. N, N) : Range(s) = S /\ Ascending(s)
<1> DEFINE Has(n) == \E s \in Seq(1 .. N) :
                        Len(s) <= n /\ Range(s) = S \cap (1 .. n) /\ Ascending(s)
           T == {n \in 0 .. N : ~ Has(n)}
<1>1. T = {}
  <2> SUFFICES ASSUME T # {} PROVE FALSE
    OBVIOUS
  <2>1. PICK n \in T : \A m \in T : n <= m
    <3>1. T \subseteq Nat
      OBVIOUS
    <3> HIDE DEF T
    <3> QED
      BY <3>1, Least
  <2>2. n # 0
    <3>1. <<>> \in Seq(1 .. N) /\ Len(<<>>) <= 0 /\ Ascending(<<>>)
      BY DEF Ascending
    <3>2. Range(<<>>) = S \cap (1 .. 0)
      BY DEF Range
    <3> QED
      BY <3>1, <3>2
  <2>3. n \in 1 .. N /\ n - 1 \in 0 .. N /\ n - 1 \notin T
    <3>1. n \in 0 .. N
      BY <2>1
    <3>2. n \in 1 .. N /\ n - 1 \in 0 .. N
      BY <2>2, <3>1
    <3> HIDE DEF T
    <3> QED
      BY <2>1, <3>2
  <2>4. PICK s \in Seq(1 .. N) :
          Len(s) <= n - 1 /\ Range(s) = S \cap (1 .. n - 1) /\ Ascending(s)
    BY <2>3
  <2>5. Len(s) \in Nat /\ Len(s) <= n
    BY <2>3, <2>4
  <2>6. CASE n \notin S
    <3>1. S \cap (1 .. n) = S \cap (1 .. n - 1)
      BY <2>3, <2>6
    <3> QED
      BY <2>1, <2>4, <2>5, <3>1
  <2>7. CASE n \in S
    <3>1. S \cap (1 .. n) = (S \cap (1 .. n - 1)) \cup {n}
      BY <2>3, <2>7
    <3>2. s \in Seq(Nat) /\ n \in Nat
      BY <2>3
    <3>3. \A i \in 1 .. Len(s) : s[i] < n
      <4>1. \A i \in 1 .. Len(s) : s[i] \in S \cap (1 .. n - 1)
        BY <2>4, Values, Zenon
      <4> QED
        BY <2>3, <4>1
    <3>4. Ascending(Append(s, n)) /\ Range(Append(s, n)) = S \cap (1 .. n)
      BY <2>4, <3>1, <3>2, <3>3, AscendingAppend
    <3>5. Append(s, n) \in Seq(1 .. N) /\ Len(Append(s, n)) <= n
      BY <2>3, <2>4, <2>5
    <3> QED
      BY <2>1, <3>4, <3>5
  <2> QED
    BY <2>6, <2>7
<1>2. Has(N)
  <2>1. N \in 0 .. N
    OBVIOUS
  <2> HIDE DEF Has
  <2> QED
    BY <1>1, <2>1
<1>3. PICK s \in Seq(1 .. N) : Len(s) <= N /\ Range(s) = S \cap (1 .. N) /\ Ascending(s)
  BY <1>2
<1>4. s \in [1 .. Len(s) -> 1 .. N] /\ Len(s) \in 0 .. N
  BY <1>3
<1>5. s \in SeqOf(1 .. N, N)
  BY <1>4 DEF SeqOf
<1>6. S \cap (1 .. N) = S
  OBVIOUS
<1> QED
  BY <1>3, <1>5, <1>6

(* What XQueryTree returns. *)
LEMMA ChildrenOf ==
  ASSUME NEW w
  PROVE  /\ Children(w) \in Seq(1 .. N) /\ Ascending(Children(w))
         /\ Range(Children(w)) = {c \in (1 .. N) \ gone : parent[c] = w}
<1>1. \E s \in SeqOf(1 .. N, N) :
        Range(s) = {c \in (1 .. N) \ gone : parent[c] = w} /\ Ascending(s)
  BY Sorting
<1>2. /\ Children(w) \in SeqOf(1 .. N, N) /\ Ascending(Children(w))
      /\ Range(Children(w)) = {c \in (1 .. N) \ gone : parent[c] = w}
  BY <1>1 DEF Children
<1>3. ASSUME NEW s \in SeqOf(1 .. N, N) PROVE s \in Seq(1 .. N)
  <2>1. PICK m \in 0 .. N : s \in [1 .. m -> 1 .. N]
    BY DEF SeqOf
  <2> QED
    BY <2>1
<1> QED
  BY <1>2, <1>3

(* The stack after a call: those for the children, and then the others. *)
LEMMA Pushed ==
  ASSUME NEW s \in Seq(Windows), s # <<>>, NEW k \in Seq(1 .. N), NEW t, t = k \o Tail(s)
  PROVE  /\ Head(s) \in Windows /\ Head(s) = s[1] /\ Len(s) \in Nat \ {0} /\ Len(k) \in Nat
         /\ t \in Seq(Windows) /\ Len(t) = Len(k) + (Len(s) - 1)
         /\ \A i \in 1 .. Len(t) :
              \/ i \in 1 .. Len(k) /\ t[i] = k[i]
              \/ /\ i \notin 1 .. Len(k) /\ i - Len(k) + 1 \in 2 .. Len(s)
                 /\ t[i] = s[i - Len(k) + 1]
         /\ Range(s) = {Head(s)} \cup Range(Tail(s))
         /\ Range(t) = Range(k) \cup Range(Tail(s))
<1>1. /\ Head(s) \in Windows /\ Head(s) = s[1] /\ Len(s) \in Nat \ {0} /\ Len(k) \in Nat
  BY EmptySeq, HeadTailProperties
<1>2. /\ Tail(s) \in Seq(Windows) /\ Len(Tail(s)) = Len(s) - 1
      /\ \A i \in 1 .. Len(s) - 1 : Tail(s)[i] = s[i + 1]
  BY HeadTailProperties
<1>3. k \in Seq(Windows)
  BY DEF Windows, Root
<1> DEFINE u == Tail(s)
<1>4. /\ k \o u \in Seq(Windows) /\ Len(k \o u) = Len(k) + Len(u)
      /\ \A i \in 1 .. Len(k) + Len(u) :
           (k \o u)[i] = IF i <= Len(k) THEN k[i] ELSE u[i - Len(k)]
  BY <1>2, <1>3, ConcatProperties
<1>5. t \in Seq(Windows) /\ Len(t) = Len(k) + (Len(s) - 1)
  BY <1>2, <1>4
<1>6. ASSUME NEW i \in 1 .. Len(t)
      PROVE  \/ i \in 1 .. Len(k) /\ t[i] = k[i]
             \/ /\ i \notin 1 .. Len(k) /\ i - Len(k) + 1 \in 2 .. Len(s)
                /\ t[i] = s[i - Len(k) + 1]
  <2>1. CASE i <= Len(k)
    BY <1>1, <1>2, <1>4, <1>5, <2>1
  <2>2. CASE ~ (i <= Len(k))
    <3>1. i - Len(k) \in 1 .. Len(s) - 1 /\ i - Len(k) + 1 \in 2 .. Len(s)
      BY <1>1, <1>5, <2>2
    <3>2. t[i] = u[i - Len(k)]
      BY <1>2, <1>4, <1>5, <2>2
    <3> QED
      BY <1>1, <1>2, <2>2, <3>1, <3>2
  <2> QED
    BY <2>1, <2>2
<1>7. Range(s) = {Head(s)} \cup Range(u)
  <2>1. /\ \A i \in 1 .. Len(s) : i = 1 \/ i - 1 \in 1 .. Len(u)
        /\ \A i \in 1 .. Len(u) : i + 1 \in 1 .. Len(s) /\ u[i] = s[i + 1]
    BY <1>1, <1>2
  <2>2. \A i \in 1 .. Len(s) : i = 1 \/ s[i] = u[i - 1]
    BY <1>1, <1>2
  <2>3. /\ Range(s) = {s[i] : i \in 1 .. Len(s)}
        /\ Range(u) = {u[i] : i \in 1 .. Len(u)}
    BY <1>2, RangeEquality
  <2> HIDE DEF u
  <2>4. 1 \in 1 .. Len(s) /\ s[1] = Head(s)
    BY <1>1
  <2>5. \A x \in Range(s) : x = Head(s) \/ x \in Range(u)
    BY <2>1, <2>2, <2>3, <2>4
  <2>6. \A x \in Range(u) : x \in Range(s)
    BY <2>1, <2>3
  <2>7. Head(s) \in Range(s)
    BY <2>3, <2>4
  <2> QED
    BY <2>5, <2>6, <2>7
<1>8. Range(t) = Range(k) \cup Range(u)
  <2>1. Range(k \o u) = Range(k) \cup Range(u)
    BY <1>2, <1>3, RangeConcatenation
  <2> QED
    BY <2>1
<1> QED
  BY <1>1, <1>5, <1>6, <1>7, <1>8

(* A call of GetWindowWithGivenName keeps the order of the stack and of the *)
(* list, and loses no window.                                               *)
LEMMA WalkStep ==
  ASSUME WalkInv, Walk
  PROVE  WalkInv'
<1> DEFINE w == Head(todo)
           k == Children(w)
<1>1. /\ UNCHANGED <<parent, named, size, gone, printed, hasAlpha, context, dims, nvifr, file>>
      /\ pc = "walk" /\ pc' = "walk" /\ todo # <<>> /\ w \notin gone
      /\ todo' = k \o Tail(todo)
      /\ windowList' = IF Matches(w) THEN Append(windowList, w) ELSE windowList
  BY DEF Walk, Visit
<1>2. /\ todo \in Seq(Windows) /\ windowList \in Seq(1 .. N) /\ named \subseteq 1 .. N
      /\ parent \in [1 .. N -> Windows] /\ Numbering
      /\ Ascending(todo) /\ Ascending(windowList)
  <2>1. windowList \in Seq(Windows) /\ \A i \in 1 .. Len(windowList) : windowList[i] \in 1 .. N
    BY DEF WalkInv, Listed, TypeOK
  <2>2. windowList \in Seq(1 .. N)
    BY <2>1
  <2> QED
    BY <2>2 DEF WalkInv, Listed, Stacked, TypeOK
<1>3. /\ k \in Seq(1 .. N) /\ Ascending(k)
      /\ Range(k) = {c \in (1 .. N) \ gone : parent[c] = w}
  BY ChildrenOf
<1>4. \A i \in 1 .. Len(k) : k[i] \in (1 .. N) \ gone /\ parent[k[i]] = w
  BY <1>3, RangeEquality
<1> HIDE DEF k
<1>5. /\ w \in Windows /\ w = todo[1] /\ Len(todo) \in Nat \ {0} /\ Len(k) \in Nat
      /\ todo' \in Seq(Windows) /\ Len(todo') = Len(k) + (Len(todo) - 1)
      /\ \A i \in 1 .. Len(todo') :
           \/ i \in 1 .. Len(k) /\ todo'[i] = k[i]
           \/ /\ i \notin 1 .. Len(k) /\ i - Len(k) + 1 \in 2 .. Len(todo)
              /\ todo'[i] = todo[i - Len(k) + 1]
      /\ Range(todo) = {w} \cup Range(Tail(todo))
      /\ Range(todo') = Range(k) \cup Range(Tail(todo))
  <2>1. PICK t : t = k \o Tail(todo)
    OBVIOUS
  <2>2. todo' = t
    BY <1>1, <2>1
  <2>3. k \in Seq(1 .. N) /\ todo \in Seq(Windows) /\ todo # <<>>
    BY <1>1, <1>2, <1>3
  <2> HIDE DEF w
  <2>4. /\ Head(todo) \in Windows /\ Head(todo) = todo[1]
        /\ Len(todo) \in Nat \ {0} /\ Len(k) \in Nat
        /\ t \in Seq(Windows) /\ Len(t) = Len(k) + (Len(todo) - 1)
    BY <2>1, <2>3, Pushed
  <2>5. \A i \in 1 .. Len(t) :
          \/ i \in 1 .. Len(k) /\ t[i] = k[i]
          \/ /\ i \notin 1 .. Len(k) /\ i - Len(k) + 1 \in 2 .. Len(todo)
             /\ t[i] = todo[i - Len(k) + 1]
    BY <2>1, <2>3, Pushed
  <2>6. /\ Range(todo) = {Head(todo)} \cup Range(Tail(todo))
        /\ Range(t) = Range(k) \cup Range(Tail(todo))
    BY <2>1, <2>3, Pushed
  <2> QED
    BY <2>2, <2>4, <2>5, <2>6, Zenon DEF w
<1> HIDE DEF w
<1>6. \A m \in 2 .. Len(todo) : /\ todo[m] \in 1 .. N /\ w < todo[m]
                               /\ parent[todo[m]] \in Windows /\ parent[todo[m]] < w
  <2> SUFFICES ASSUME NEW m \in 2 .. Len(todo)
               PROVE  /\ todo[m] \in 1 .. N /\ w < todo[m]
                      /\ parent[todo[m]] \in Windows /\ parent[todo[m]] < w
    OBVIOUS
  <2>1. 1 \in 1 .. Len(todo) /\ m \in 1 .. Len(todo) /\ 1 < m
    BY <1>5
  <2>2. todo[1] < todo[m] /\ parent[todo[m]] < todo[1]
    BY <2>1 DEF WalkInv, Stacked, Ascending
  <2>3. todo[m] \in Windows /\ w \in Windows
    BY <1>2, <1>5, <2>1
  <2>4. todo[m] \in 1 .. N
    BY <1>5, <2>2, <2>3 DEF Windows, Root
  <2> QED
    BY <1>2, <1>5, <2>2, <2>4
<1>7. \A i \in 1 .. Len(k) : k[i] \in 1 .. N /\ parent[k[i]] = w /\ w < k[i]
  BY <1>2, <1>4, <1>5 DEF Numbering, Windows, Root
<1>8. \A i \in 1 .. Len(k), m \in 2 .. Len(todo) : k[i] < todo[m]
  <2> SUFFICES ASSUME NEW i \in 1 .. Len(k), NEW m \in 2 .. Len(todo), ~ (k[i] < todo[m])
               PROVE  FALSE
    OBVIOUS
  <2>1. /\ k[i] \in 1 .. N /\ parent[k[i]] = w /\ todo[m] \in 1 .. N
        /\ w < todo[m] /\ parent[todo[m]] < w
        /\ w \in Windows /\ parent[todo[m]] \in Windows
    BY <1>5, <1>6, <1>7
  <2>2. todo[m] # k[i]
    BY <2>1 DEF Windows, Root
  <2>3. todo[m] < k[i]
    BY <2>1, <2>2
  <2>4. w <= parent[todo[m]]
    BY <1>2, <2>1, <2>3 DEF Numbering
  <2> QED
    BY <2>1, <2>4 DEF Windows, Root
<1>15. /\ w \in Int
       /\ \A i \in 1 .. Len(k) : k[i] \in Int
       /\ \A m \in 2 .. Len(todo) : todo[m] \in Int /\ parent[todo[m]] \in Int
  BY <1>5, <1>6, <1>7 DEF Windows, Root
<1>9. \A i \in 1 .. Len(windowList) : windowList[i] \in 1 .. N /\ windowList[i] < w
  <2>1. 1 \in 1 .. Len(todo)
    BY <1>5
  <2> QED
    BY <1>2, <1>5, <2>1 DEF WalkInv, Stacked
<1>10. Matches(w) => w \in 1 .. N
  BY <1>2 DEF Matches
<1>11. /\ windowList' \in Seq(1 .. N) /\ Ascending(windowList')
       /\ Range(windowList') = Range(windowList) \cup (IF Matches(w) THEN {w} ELSE {})
       /\ Len(windowList) <= Len(windowList') /\ Len(windowList') \in Nat
       /\ \A i \in 1 .. Len(windowList') : \/ i \in 1 .. Len(windowList)
                                              /\ windowList'[i] = windowList[i]
                                           \/ windowList'[i] = w /\ Matches(w)
  <2>1. CASE ~ Matches(w)
    BY <1>1, <1>2, <2>1
  <2>2. CASE Matches(w)
    <3>1. windowList \in Seq(Nat) /\ w \in Nat
      BY <1>2, <1>10, <2>2
    <3>2. /\ windowList' = Append(windowList, w)
          /\ Ascending(windowList') /\ Range(windowList') = Range(windowList) \cup {w}
      BY <1>1, <1>2, <1>9, <2>2, <3>1, AscendingAppend
    <3>3. /\ windowList' \in Seq(1 .. N) /\ Len(windowList') = Len(windowList) + 1
          /\ \A i \in 1 .. Len(windowList) : windowList'[i] = windowList[i]
          /\ windowList'[Len(windowList) + 1] = w
      BY <1>2, <1>10, <2>2, <3>2
    <3>4. \A i \in 1 .. Len(windowList) + 1 : i \in 1 .. Len(windowList) \/ i = Len(windowList) + 1
      OBVIOUS
    <3> QED
      BY <1>2, <2>2, <3>2, <3>3, <3>4
  <2> QED
    BY <2>1, <2>2
<1>12. Listed'
  <2>1. \A i \in 1 .. Len(windowList') : windowList'[i] \in 1 .. N /\ Matches(windowList'[i])
    BY <1>2, <1>10, <1>11 DEF WalkInv, Listed
  <2>2. \A x : Matches(x)' = Matches(x)
    BY <1>1 DEF Matches
  <2>3. windowList' \in Seq(Windows) /\ printed' \in 0 .. Len(windowList')
    <3>1. windowList' \in Seq(Windows)
      BY <1>11 DEF Windows, Root
    <3>2. printed \in 0 .. Len(windowList) /\ Len(windowList) \in Nat
      BY <1>2 DEF WalkInv, Listed, TypeOK
    <3> QED
      BY <1>1, <1>11, <3>1, <3>2
  <2>4. TypeOK'
    BY <1>1, <1>5, <2>3 DEF WalkInv, Listed, TypeOK
  <2> QED
    BY <1>1, <2>1, <2>2, <2>4 DEF WalkInv, Listed, Numbering
<1>13. Stacked'
  <2>1. ASSUME NEW i \in 1 .. Len(todo'), NEW j \in 1 .. Len(todo'), i < j
        PROVE  todo'[i] < todo'[j] /\ parent[todo'[j]] < todo'[i]
    <3>1. CASE i \in 1 .. Len(k) /\ j \in 1 .. Len(k)
      <4>1. todo'[i] = k[i] /\ todo'[j] = k[j]
        BY <1>5, <3>1
      <4>2. k[i] < k[j]
        BY <1>3, <2>1, <3>1 DEF Ascending
      <4> QED
        BY <1>7, <3>1, <4>1, <4>2
    <3>2. CASE i \in 1 .. Len(k) /\ j \notin 1 .. Len(k)
      <4> DEFINE m == j - Len(k) + 1
      <4>1. todo'[i] = k[i] /\ todo'[j] = todo[m] /\ m \in 2 .. Len(todo)
        BY <1>5, <3>2
      <4> HIDE DEF m
      <4>2. /\ k[i] < todo[m] /\ w < k[i] /\ parent[todo[m]] < w
            /\ k[i] \in Int /\ w \in Int /\ parent[todo[m]] \in Int
        BY <1>6, <1>7, <1>8, <1>15, <3>2, <4>1
      <4> QED
        BY <4>1, <4>2
    <3>3. CASE i \notin 1 .. Len(k) /\ j \notin 1 .. Len(k)
      <4> DEFINE l == i - Len(k) + 1
                 m == j - Len(k) + 1
      <4>1. /\ todo'[i] = todo[l] /\ l \in 2 .. Len(todo) /\ todo'[j] = todo[m]
            /\ m \in 2 .. Len(todo) /\ l < m
        BY <1>5, <2>1, <3>3
      <4> HIDE DEF l, m
      <4>2. todo[l] < todo[m] /\ parent[todo[m]] < todo[l]
        BY <1>5, <4>1 DEF WalkInv, Stacked, Ascending
      <4> QED
        BY <4>1, <4>2
    <3>4. ~ (i \notin 1 .. Len(k) /\ j \in 1 .. Len(k))
      BY <1>5, <2>1
    <3> QED
      BY <3>1, <3>2, <3>3, <3>4
  <2>2. ASSUME NEW i \in 1 .. Len(windowList'), NEW j \in 1 .. Len(todo')
        PROVE  windowList'[i] < todo'[j]
    <3>1. windowList'[i] \in Int /\ windowList'[i] <= w
      <4>1. \A n \in 1 .. Len(windowList) : windowList[n] \in Int /\ windowList[n] <= w
        BY <1>9, <1>15
      <4>2. CASE i \in 1 .. Len(windowList) /\ windowList'[i] = windowList[i]
        BY <4>1, <4>2
      <4>3. CASE windowList'[i] = w
        BY <1>15, <4>3
      <4> QED
        BY <1>11, <4>2, <4>3
    <3>2. w < todo'[j] /\ todo'[j] \in Int
      <4>1. CASE j \in 1 .. Len(k) /\ todo'[j] = k[j]
        BY <1>7, <1>15, <4>1
      <4>2. CASE j \notin 1 .. Len(k)
        <5> DEFINE m == j - Len(k) + 1
        <5>1. todo'[j] = todo[m] /\ m \in 2 .. Len(todo)
          BY <1>5, <4>2
        <5> HIDE DEF m
        <5> QED
          BY <1>6, <1>15, <5>1
      <4> QED
        BY <1>5, <4>1, <4>2
    <3>3. windowList'[i] = w \/ windowList'[i] < w
      BY <1>15, <3>1
    <3>4. \A a, b, c \in Int : a <= b /\ b < c => a < c
      OBVIOUS
    <3> QED
      BY <1>15, <3>1, <3>2, <3>4
  <2>3. Ascending(todo)'
    BY <2>1 DEF Ascending
  <2>4. Ascending(windowList)'
    BY <1>11 DEF Ascending
  <2> QED
    BY <1>1, <2>1, <2>2, <2>3, <2>4 DEF Stacked
<1>14. Visited'
  <2>1. PICK V \in SUBSET Windows : Covers(V)
    BY DEF WalkInv, Visited
  <2>2. PICK x : x = w
    OBVIOUS
  <2> DEFINE U == V \cup {x}
  <2>3. U \in SUBSET Windows
    BY <1>5, <2>2
  <2>4. \A y : y \in V \cup Range(todo) => y \in U \cup Range(todo')
    BY <1>5, <2>2
  <2>5. \A y \in (1 .. N) \ gone : parent[y] = x => y \in Range(todo')
    BY <1>3, <1>5, <2>2
  <2>6. Covers(U)'
    <3>1. Root \in U \cup Range(todo')
      BY <2>1, <2>4 DEF Covers
    <3>2. \A y \in (1 .. N) \ gone : parent[y] \in U => y \in U \cup Range(todo')
      BY <2>1, <2>4, <2>5 DEF Covers
    <3>3. \A y \in U \ gone : Matches(y) => y \in Range(windowList')
      BY <1>11, <2>1, <2>2 DEF Covers
    <3>4. \A y : Matches(y)' = Matches(y)
      BY <1>1 DEF Matches
    <3> QED
      BY <1>1, <3>1, <3>2, <3>3, <3>4 DEF Covers
  <2> QED
    BY <2>3, <2>6 DEF Visited, Windows, Root
<1> QED
  BY <1>12, <1>13, <1>14 DEF WalkInv

(* What the other steps of main and of captureThreadSync change has its type. *)
LEMMA SetupType ==
  ASSUME Listed, IInv,
         \/ WalkDone \/ PrintWindowName \/ BadWindow \/ NvIFROGLInitialize
         \/ Setup \/ CaptureSync
  PROVE  TypeOK'
<1> USE DEF Steps
<1>1. UNCHANGED <<parent, named, size, gone, todo, windowList>>
  BY DEF WalkDone, PrintWindowName, BadWindow, NvIFROGLInitialize, Setup, CreateContext,
         MakeCurrent, MakeCurrentError, InitializeGL, OpenFile, CreateSession, CreateObject,
         CreateFails, CaptureSync, TransferFrame, TransferFails, Lock, LockFails, Write,
         Release, ReleaseFails
<1>2. TypeOK
  BY DEF Listed
<1>3. CASE WalkDone \/ BadWindow \/ NvIFROGLInitialize \/ OpenFile \/ CreateFails
           \/ TransferFails \/ LockFails \/ ReleaseFails
  <2>1. UNCHANGED <<search, glx, file, nvifr>>
    BY <1>3 DEF WalkDone, BadWindow, NvIFROGLInitialize, OpenFile, CreateFails,
                TransferFails, LockFails, ReleaseFails
  <2>2. pc' \in Steps
    BY <1>2, <1>3 DEF WalkDone, BadWindow, NvIFROGLInitialize, OpenFile, CreateFails,
                TransferFails, LockFails, ReleaseFails, XErrorFunc, TypeOK
  <2> QED
    BY <1>1, <1>2, <2>1, <2>2 DEF TypeOK
<1>4. CASE PrintWindowName
  <2>1. Len(windowList) \in Nat
    BY <1>2 DEF TypeOK
  <2> QED
    BY <1>1, <1>2, <1>4, <2>1 DEF PrintWindowName, TypeOK
<1>5. CASE CreateContext \/ MakeCurrent \/ MakeCurrentError
  <2>1. UNCHANGED <<search, dims, file, nvifr>>
    BY <1>5 DEF CreateContext, MakeCurrent, MakeCurrentError
  <2>2. /\ pc' \in Steps /\ hasAlpha' \in BOOLEAN
        /\ context' \in {"null", "made", "current"}
    BY <1>2, <1>5 DEF CreateContext, MakeCurrent, MakeCurrentError, TryAgain, XErrorFunc, TypeOK
  <2> QED
    BY <1>1, <1>2, <2>1, <2>2 DEF TypeOK
<1>6. CASE InitializeGL
  <2>1. 1 \in 1 .. Len(windowList)
    <3>1. windowList # <<>> /\ windowList \in Seq(Windows)
      BY <1>2, <1>6 DEF InitializeGL, Listed, TypeOK
    <3> QED
      BY <3>1, EmptySeq
  <2>2. windowList[1] \in 1 .. N
    BY <2>1 DEF Listed
  <2>3. dims' \in Sizes
    BY <1>2, <1>6, <2>2 DEF InitializeGL, TypeOK
  <2> QED
    BY <1>1, <1>2, <1>6, <2>3 DEF InitializeGL, TypeOK
<1>7. CASE CreateSession
  BY <1>1, <1>2, <1>7 DEF CreateSession, Api!CreateSession, TypeOK
<1>8. CASE CreateObject
  <2> DEFINE C == [size : {Padded(s) : s \in Sizes \cup {0}}, rate : {0}]
             c == [size |-> Padded(dims), rate |-> 0]
  <2>1. c \in C
    BY <1>2 DEF TypeOK
  <2>2. config \in [Objects -> C] /\ config' = [config EXCEPT ![Transfer] = c]
    BY <1>2, <1>8 DEF CreateObject, Api!CreateTransferToHwEncObject, TypeOK
  <2> HIDE DEF C, c
  <2>3. config' \in [Objects -> C]
    BY <2>1, <2>2
  <2> QED
    BY <1>1, <1>2, <1>8, <2>3 DEF CreateObject, Api!CreateTransferToHwEncObject, TypeOK, C
<1>9. CASE TransferFrame
  BY <1>1, <1>2, <1>9 DEF TransferFrame, Api!TransferFramebufferToHwEnc, TypeOK
<1>10. CASE Lock
  <2>1. taken[Transfer] < count[Transfer]
    BY <1>10 DEF Lock, IInv, ObjectInv
  <2> QED
    BY <1>1, <1>2, <1>10, <2>1 DEF Lock, Api!LockTransferData, TypeOK
<1>11. CASE Write
  <2>1. taken[Transfer] \in 1 .. MaxFrames
    BY <1>2, <1>11 DEF Write, IInv, ObjectInv, TypeOK
  <2> QED
    BY <1>1, <1>2, <1>11, <2>1 DEF Write, TypeOK
<1>12. CASE Release
  BY <1>1, <1>2, <1>12 DEF Release, Api!ReleaseTransferData, TypeOK
<1> QED
  BY <1>3, <1>4, <1>5, <1>6, <1>7, <1>8, <1>9, <1>10, <1>11, <1>12 DEF Setup, CaptureSync

(* A step that leaves the windows and the walk alone, and does not go back  *)
(* to it.                                                                   *)
LEMMA WalkKept ==
  ASSUME WalkInv, TypeOK', UNCHANGED <<parent, named, size, gone, todo, windowList>>,
         pc' \notin {"walk", "exited"} => todo = <<>>,
         pc' \in {"context", "bind", "gl"} => windowList # <<>>
  PROVE  WalkInv'
<1>1. Listed'
  BY DEF WalkInv, Listed, Numbering, Matches
<1>2. Stacked'
  BY DEF WalkInv, Stacked, Ascending
<1>3. Visited'
  BY DEF WalkInv, Visited, Covers, Matches, Windows, Root
<1> QED
  BY <1>1, <1>2, <1>3 DEF WalkInv

(* What the program does after the walk, and what does nothing. *)
LEMMA SetupStep ==
  ASSUME WalkInv, IInv,
         \/ WalkDone \/ PrintWindowName \/ BadWindow \/ NvIFROGLInitialize
         \/ Setup \/ CaptureSync \/ Stopped \/ UNCHANGED vars
  PROVE  WalkInv'
<1>1. UNCHANGED <<parent, named, size, gone, todo, windowList>>
  BY DEF WalkDone, PrintWindowName, BadWindow, NvIFROGLInitialize, Setup, CreateContext,
         MakeCurrent, MakeCurrentError, InitializeGL, OpenFile, CreateSession, CreateObject,
         CreateFails, CaptureSync, TransferFrame, TransferFails, Lock, LockFails, Write,
         Release, ReleaseFails, Stopped, vars
<1>2. TypeOK'
  <2>1. CASE Stopped \/ UNCHANGED vars
    BY <2>1 DEF Stopped, vars, WalkInv, Listed, TypeOK
  <2> QED
    BY <2>1, SetupType DEF WalkInv
<1>3. /\ pc' \notin {"walk", "exited"} => todo = <<>>
      /\ pc' \in {"context", "bind", "gl"} => windowList # <<>>
  <2>1. /\ pc \notin {"walk", "exited"} => todo = <<>>
        /\ pc \in {"context", "bind", "gl"} => windowList # <<>>
    BY DEF WalkInv, Stacked, Listed
  <2>2. CASE Stopped \/ UNCHANGED vars
    BY <2>1, <2>2 DEF Stopped, vars
  <2>3. CASE WalkDone \/ PrintWindowName \/ BadWindow \/ NvIFROGLInitialize
    BY <2>1, <2>3 DEF WalkDone, PrintWindowName, BadWindow, NvIFROGLInitialize, XErrorFunc
  <2>4. CASE Setup
    BY <2>1, <2>4 DEF Setup, CreateContext, MakeCurrent, MakeCurrentError, InitializeGL,
         OpenFile, CreateSession, CreateObject, CreateFails, TryAgain, XErrorFunc
  <2>5. CASE CaptureSync
    BY <2>1, <2>5 DEF CaptureSync, TransferFrame, TransferFails, Lock, LockFails, Write,
         Release, ReleaseFails
  <2> QED
    BY <2>2, <2>3, <2>4, <2>5
<1> QED
  BY <1>1, <1>2, <1>3, WalkKept

(* Windows that go are missed by nobody: what is below them went before. *)
LEMMA DestroyStep ==
  ASSUME WalkInv, NEW w \in 1 .. N, Destroy(w)
  PROVE  WalkInv'
<1>1. /\ UNCHANGED <<parent, named, size, pc, search, glx, file, nvifr>>
      /\ gone' = gone \cup {w}
      /\ \A c \in 1 .. N : parent[c] = w => c \in gone
  BY DEF Destroy
<1>2. Listed'
  BY <1>1 DEF WalkInv, Listed, TypeOK, Numbering, Matches
<1>3. Stacked'
  BY <1>1 DEF WalkInv, Stacked, Ascending
<1>4. Visited'
  BY <1>1 DEF WalkInv, Visited, Covers, Matches, Windows, Root
<1> QED
  BY <1>2, <1>3, <1>4 DEF WalkInv

(* A window that matches does so in another size, too. *)
LEMMA ResizeStep ==
  ASSUME WalkInv, NEW w \in 1 .. N, Resize(w)
  PROVE  WalkInv'
<1>1. /\ UNCHANGED <<parent, named, gone, pc, search, glx, file, nvifr>>
      /\ size[w] # 0 /\ \E s \in Sizes \ {0} : size' = [size EXCEPT ![w] = s]
  BY DEF Resize
<1>2. size \in [1 .. N -> Sizes] /\ named \subseteq 1 .. N
  BY DEF WalkInv, Listed, TypeOK
<1>3. size' \in [1 .. N -> Sizes]
  BY <1>1, <1>2
<1>4. \A x \in named : size'[x] # 0 <=> size[x] # 0
  BY <1>1, <1>2
<1>5. \A x : Matches(x)' = Matches(x)
  BY <1>1, <1>4 DEF Matches
<1>6. Listed'
  BY <1>1, <1>3, <1>5 DEF WalkInv, Listed, TypeOK, Numbering
<1>7. Stacked'
  BY <1>1 DEF WalkInv, Stacked, Ascending
<1>8. Visited'
  BY <1>1, <1>5 DEF WalkInv, Visited, Covers, Windows, Root
<1> QED
  BY <1>6, <1>7, <1>8 DEF WalkInv

(* The program starts with the root on its stack, and no other window has   *)
(* been seen.                                                               *)
LEMMA WalkStart == Init => WalkInv
<1> SUFFICES ASSUME Init PROVE WalkInv
  OBVIOUS
<1>1. /\ todo = <<Root>> /\ windowList = <<>> /\ gone = {} /\ pc = "walk" /\ Numbering
      /\ parent \in [1 .. N -> Windows]
  BY DEF Init
<1>2. /\ Len(windowList) = 0 /\ Len(todo) = 1 /\ todo[1] = Root
      /\ todo \in Seq(Windows) /\ windowList \in Seq(Windows)
  BY <1>1 DEF Windows, Root
<1>3. TypeOK
  <2>1. Api!NoConfig \in [size : {Padded(s) : s \in Sizes \cup {0}}, rate : {0}]
    BY DEF Api!NoConfig, Padded
  <2>2. config \in [Objects -> [size : {Padded(s) : s \in Sizes \cup {0}}, rate : {0}]]
    BY <2>1 DEF Init, Api!Init
  <2>3. file \in Seq(1 .. MaxFrames)
    BY DEF Init
  <2>4. parent \in [1 .. N -> Windows] /\ named \subseteq 1 .. N /\ size \in [1 .. N -> Sizes]
        /\ gone \subseteq 1 .. N
    BY DEF Init
  <2>5. printed \in 0 .. Len(windowList)
    BY <1>2 DEF Init
  <2>6. pc \in Steps
    BY DEF Init, Steps
  <2>7. /\ hasAlpha \in BOOLEAN /\ context \in {"null", "made", "current"}
        /\ dims \in Sizes \cup {0}
    BY DEF Init
  <2>8. /\ open \in BOOLEAN /\ live \subseteq Objects /\ locked \subseteq Objects
        /\ misused \in Nat
    BY DEF Init, Api!Init
  <2>9. /\ count \in [Objects -> 0 .. MaxFrames]
        /\ taken \in [Objects -> 0 .. MaxFrames]
    BY DEF Init, Api!Init
  <2> QED
    BY <1>2, <2>2, <2>3, <2>4, <2>5, <2>6, <2>7, <2>8, <2>9, Zenon DEF TypeOK
<1>4. Listed
  BY <1>1, <1>2, <1>3 DEF Listed
<1>5. Stacked
  BY <1>1, <1>2 DEF Stacked, Ascending
<1>6. Covers({})
  <2>1. Range(todo) = {todo[i] : i \in 1 .. Len(todo)}
    BY <1>2, RangeEquality
  <2>2. Root \in Range(todo)
    BY <1>2, <2>1
  <2> QED
    BY <2>2 DEF Covers
<1> QED
  BY <1>4, <1>5, <1>6 DEF WalkInv, Visited

(* The invariant of the walk holds in every state. *)
LEMMA WalkInvariance == Spec => []WalkInv
<1>1. IInv /\ WalkInv /\ [Next]_vars => WalkInv'
  BY WalkStep, SetupStep, DestroyStep, ResizeStep DEF Next, XServer, Main
<1> QED
  BY <1>1, WalkStart, Invariance, PTL DEF Spec

(* Every variable has its type, with any number of windows. *)
THEOREM TypeCorrect == Spec => []TypeOK
<1>1. WalkInv => TypeOK
  BY DEF WalkInv, Listed
<1> QED
  BY <1>1, WalkInvariance, PTL

(* The walk finds the windows that match, in the order of the document, and *)
(* misses none that is still there: in any tree, whichever windows go while *)
(* it lasts.                                                                *)
THEOREM FoundInOrder == Spec => []WindowsInOrder
<1>1. WalkInv => WindowsInOrder
  <2> SUFFICES ASSUME WalkInv, pc \notin {"walk", "exited"}
               PROVE  /\ Ascending(windowList)
                      /\ {w \in Windows \ gone : Matches(w)} \subseteq Range(windowList)
                      /\ \A w \in Range(windowList) : Matches(w)
    BY DEF WindowsInOrder
  <2>1. PICK V \in SUBSET Windows : Covers(V)
    BY DEF WalkInv, Visited
  <2>2. todo = <<>>
    BY DEF WalkInv, Stacked
  <2>3. Range(todo) = {}
    BY <2>2 DEF Range
  <2>4. Windows \ gone \subseteq V
    <3> DEFINE T == (Windows \ gone) \ V
    <3>1. T = {}
      <4> SUFFICES ASSUME T # {} PROVE FALSE
        OBVIOUS
      <4>1. T \subseteq Nat
        BY DEF Windows, Root
      <4>2. PICK x \in T : \A y \in T : x <= y
        <5> HIDE DEF T
        <5> QED
          BY <4>1, Least
      <4>3. x # Root
        BY <2>1, <2>3 DEF Covers
      <4>4. x \in (1 .. N) \ gone /\ x \notin V
        BY <4>3 DEF Windows, Root
      <4>5. /\ parent[x] \in Windows /\ parent[x] < x /\ parent[x] \notin gone
        BY <4>4 DEF WalkInv, Listed, TypeOK, Numbering
      <4>6. parent[x] \notin T
        <5> HIDE DEF T
        <5>1. parent[x] \in Int /\ x \in Int
          BY <4>4, <4>5 DEF Windows, Root
        <5> QED
          BY <4>2, <4>5, <5>1
      <4>7. parent[x] \in V
        BY <4>5, <4>6
      <4> QED
        BY <2>1, <2>3, <4>4, <4>7 DEF Covers
    <3> QED
      BY <3>1
  <2>5. {w \in Windows \ gone : Matches(w)} \subseteq Range(windowList)
    BY <2>1, <2>4 DEF Covers
  <2>6. \A w \in Range(windowList) : Matches(w)
    <3>1. Range(windowList) = {windowList[i] : i \in 1 .. Len(windowList)}
      BY RangeEquality DEF WalkInv, Listed, TypeOK
    <3> QED
      BY <3>1 DEF WalkInv, Listed
  <2> QED
    BY <2>5, <2>6 DEF WalkInv, Stacked
<1> QED
  BY <1>1, WalkInvariance, PTL

=============================================================================

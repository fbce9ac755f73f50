------------------------------ MODULE XCapture ------------------------------
(***************************************************************************)
(* The standalone program of nvifr-encoder: main of encoder.cpp and        *)
(* XCapture.cpp.  It walks through the tree of X windows, opens a GLX      *)
(* context for the first one that has the right name, and encodes what it  *)
(* shows into a file, for ever.  The program is composed with NvIFR.       *)
(*                                                                         *)
(* The X server is external.  Meanwhile other programs may destroy and     *)
(* resize their windows.  A request for a window that is gone is an X      *)
(* error, and XErrorFunc ends the program for all but two kinds of them.   *)
(* One number stands for both the width and the height of a window, and     *)
(* windows are numbered in the order of a document, which the walk follows. *)
(***************************************************************************)
EXTENDS Integers, SequencesExt

CONSTANTS
  N,         \* bound: windows below the root
  Sizes,     \* sizes of windows, 0 if there is nothing of it
  MaxFrames  \* bound: frames transferred

ASSUME NAssumption == N \in Nat
ASSUME SizesAssumption == Sizes \subseteq Nat
ASSUME FramesAssumption == MaxFrames \in Nat

Root    == 0
Windows == Root .. N

VARIABLES
  parent,     \* parent[w], a window below which w is
  named,      \* the windows whose name contains window_name; the root has no name
  size,       \* size[w]
  gone,       \* the windows that are destroyed
  pc,         \* where the program is
  todo,       \* the calls of GetWindowWithGivenName to come
  windowList,
  printed,    \* how many names of windowList are printed
  hasAlpha,   \* the second attempt to make a GLX context
  context,    \* m_glxCtx: "null", "made", and "current" for the window
  dims,       \* m_iWidth and m_iHeight
  file,       \* m_fpOut: the frames written to it
  open, live, config, count, taken, locked, misused   \* NvIFR

xserver == <<parent, named, size, gone>>
search  == <<todo, windowList, printed>>
glx     == <<hasAlpha, context, dims>>
nvifr   == <<open, live, config, count, taken, locked, misused>>
vars == <<xserver, pc, search, glx, file, nvifr>>

-----------------------------------------------------------------------------
Objects == {1}   \* the program creates one transfer object
Transfer == 1    \* m_hTransferObject

Api == INSTANCE NvIFR WITH current <- context = "current"

(* A window comes after the one it is below, and those between the two are  *)
(* below that one, too.  Any tree can be numbered in this way.              *)
Numbering ==
  \A w \in 1 .. N :
    /\ parent[w] < w
    /\ \A v \in 1 .. N : parent[w] < v /\ v < w => parent[w] <= parent[v]

Init ==
  /\ parent \in [1 .. N -> Windows] /\ Numbering
  /\ named \in SUBSET (1 .. N) /\ size \in [1 .. N -> Sizes]
  /\ gone = {}
  /\ pc = "walk" /\ todo = <<Root>> /\ windowList = <<>> /\ printed = 0
  /\ hasAlpha = FALSE /\ context = "null" /\ dims = 0
  /\ file = <<>>
  /\ Api!Init

Goto(from, to) == pc = from /\ pc' = to

-----------------------------------------------------------------------------
(* The X server *)

Ascending(s) == \A i, j \in 1 .. Len(s) : i < j => s[i] < s[j]

(* What XQueryTree returns, from the first child to the last. *)
Children(w) ==
  CHOOSE s \in SeqOf(1 .. N, N) :
    Range(s) = {c \in (1 .. N) \ gone : parent[c] = w} /\ Ascending(s)

(* Windows go from the leaves up, also when a whole branch is destroyed. *)
Destroy(w) ==
  /\ w \notin gone
  /\ \A c \in 1 .. N : parent[c] = w => c \in gone
  /\ gone' = gone \cup {w}
  /\ UNCHANGED <<parent, named, size, pc, search, glx, file, nvifr>>

Resize(w) ==
  /\ w \notin gone /\ size[w] # 0
  /\ \E s \in Sizes \ {0, size[w]} : size' = [size EXCEPT ![w] = s]
  /\ UNCHANGED <<parent, named, gone, pc, search, glx, file, nvifr>>

(* What XErrorFunc does with an error: it returns from two kinds of them. *)
XErrorFunc(code, next) ==
  pc' = IF code \in {"BadMatch", "GLXBadDrawable"} THEN next ELSE "exited"

-----------------------------------------------------------------------------
(* main, and GetWindowWithGivenName.  Its recursion is a stack of calls: a  *)
(* call puts those for the children in front of the others.                 *)

Matches(w) == w \in named /\ size[w] # 0

(* Variant: the children come after all the windows that are known. *)
VisitQueue ==
  LET w == Head(todo)
  IN  /\ windowList' = IF Matches(w) THEN Append(windowList, w) ELSE windowList
      /\ todo' = Tail(todo) \o Children(w)

Visit ==
  LET w == Head(todo)
  IN  /\ windowList' = IF Matches(w) THEN Append(windowList, w) ELSE windowList
      /\ todo' = Children(w) \o Tail(todo)

(* XGetWMName, XGetWindowAttributes and XQueryTree: if the window goes      *)
(* between two of them the next one fails, as in BadWindow.                 *)
Walk ==
  /\ Goto("walk", "walk")
  /\ todo # <<>> /\ Head(todo) \notin gone
  /\ Visit
  /\ UNCHANGED <<xserver, printed, glx, file, nvifr>>

WalkDone ==
  /\ todo = <<>> /\ Goto("walk", "print")
  /\ UNCHANGED <<xserver, search, glx, file, nvifr>>

PrintWindowName ==
  /\ Goto("print", "print")
  /\ printed < Len(windowList) /\ windowList[printed + 1] \notin gone
  /\ printed' = printed + 1
  /\ UNCHANGED <<xserver, todo, windowList, glx, file, nvifr>>

(* A request for a window that is gone is a BadWindow error. *)
BadWindow ==
  /\ \/ pc = "walk" /\ todo # <<>> /\ Head(todo) \in gone
     \/ pc = "print" /\ printed < Len(windowList) /\ windowList[printed + 1] \in gone
     \/ pc = "gl" /\ windowList[1] \in gone
  /\ XErrorFunc("BadWindow", pc)
  /\ UNCHANGED <<xserver, search, glx, file, nvifr>>

(* NvIFROGLInitialize, and then windowList[0] *)
NvIFROGLInitialize ==
  /\ printed = Len(windowList)
  /\ \/ windowList # <<>> /\ Goto("print", "context")
     \/ windowList = <<>> /\ Goto("print", "crashed")
     \/ Goto("print", "exited")
  /\ UNCHANGED <<xserver, search, glx, file, nvifr>>

-----------------------------------------------------------------------------
(* captureThreadSync until its loop *)

(* InitializeGLXContext has failed: it is tried again with alpha, and then  *)
(* the program returns.                                                     *)
TryAgain ==
  /\ pc' = IF hasAlpha THEN "returned" ELSE "context"
  /\ hasAlpha' = TRUE

(* glXChooseVisual finds none, or glXCreateContext is called. *)
CreateContext ==
  /\ pc = "context"
  /\ \/ TryAgain /\ UNCHANGED context
     \/ Goto("context", "bind") /\ context' \in {"null", "made"} /\ UNCHANGED hasAlpha
  /\ UNCHANGED <<xserver, search, dims, file, nvifr>>

MakeCurrent ==
  /\ Goto("bind", "gl")
  /\ context = "made" /\ windowList[1] \notin gone
  /\ context' = "current"
  /\ UNCHANGED <<xserver, search, hasAlpha, dims, file, nvifr>>

(* glXMakeCurrent fails, with one error or another.  To destroy a context   *)
(* that is NULL may be one, too.                                            *)
MakeCurrentError ==
  /\ pc = "bind"
  /\ \/ context' = "null" /\ TryAgain
     \/ XErrorFunc("GLXBadContext", "bind") /\ UNCHANGED <<hasAlpha, context>>
  /\ UNCHANGED <<xserver, search, dims, file, nvifr>>

InitializeGL ==
  /\ Goto("gl", "file")
  /\ windowList[1] \notin gone
  /\ dims' = size[windowList[1]]
  /\ UNCHANGED <<xserver, search, hasAlpha, context, file, nvifr>>

(* NvIFROGLCreateEncSession: fopen, nvIFROGLCreateSession and               *)
(* nvIFROGLCreateTransferToHwEncObject; if one of them fails all ends.      *)
OpenFile ==
  /\ Goto("file", "session")
  /\ UNCHANGED <<xserver, search, glx, file, nvifr>>

CreateSession ==
  /\ Goto("session", "object")
  /\ Api!CreateSession
  /\ UNCHANGED <<xserver, search, glx, file>>

Padded(n) == 32 * ((n + 31) \div 32)

(* Variant: the size of the window is left as it is. *)
CreateObjectUnpadded ==
  /\ Goto("object", "transfer")
  /\ Api!CreateTransferToHwEncObject(Transfer, [size |-> dims, rate |-> 0])
  /\ UNCHANGED <<xserver, search, glx, file>>

(* The bit rate is the 0 that captureThreadSync asks for. *)
CreateObject ==
  /\ Goto("object", "transfer")
  /\ Api!CreateTransferToHwEncObject(Transfer, [size |-> Padded(dims), rate |-> 0])
  /\ UNCHANGED <<xserver, search, glx, file>>

CreateFails ==
  /\ Goto("file", "exited") \/ Goto("session", "exited") \/ Goto("object", "exited")
  /\ UNCHANGED <<xserver, search, glx, file, nvifr>>

-----------------------------------------------------------------------------
(* CaptureSync, whose result the loop of captureThreadSync does not look at *)

TransferFrame ==
  /\ Goto("transfer", "lock")
  /\ count[Transfer] < MaxFrames
  /\ Api!TransferFramebufferToHwEnc(Transfer)
  /\ UNCHANGED <<xserver, search, glx, file>>

TransferFails ==
  /\ Goto("transfer", "exited")
  /\ UNCHANGED <<xserver, search, glx, file, nvifr>>

Lock ==
  /\ Goto("lock", "write")
  /\ Api!LockTransferData(Transfer)
  /\ UNCHANGED <<xserver, search, glx, file>>

(* Variant: what cannot be locked is written all the same. *)
LockFailsWrites ==
  /\ Goto("lock", "write")
  /\ UNCHANGED <<xserver, search, glx, file, nvifr>>

(* Variant: what could not be locked is released all the same. *)
LockFailsReleases ==
  /\ Goto("lock", "release")
  /\ UNCHANGED <<xserver, search, glx, file, nvifr>>

LockFails ==
  /\ Goto("lock", "transfer")
  /\ UNCHANGED <<xserver, search, glx, file, nvifr>>

Write ==
  /\ Goto("write", "release")
  /\ file' = Append(file, taken[Transfer])
  /\ UNCHANGED <<xserver, search, glx, nvifr>>

Release ==
  /\ Goto("release", "transfer")
  /\ Api!ReleaseTransferData(Transfer)
  /\ UNCHANGED <<xserver, search, glx, file>>

ReleaseFails ==
  /\ Goto("release", "transfer")
  /\ UNCHANGED <<xserver, search, glx, file, nvifr>>

Stopped == pc \in {"exited", "returned", "crashed"} /\ UNCHANGED vars

-----------------------------------------------------------------------------
XServer == \E w \in 1 .. N : Destroy(w) \/ Resize(w)

Main == Walk \/ WalkDone \/ PrintWindowName \/ BadWindow \/ NvIFROGLInitialize

Setup ==
  \/ CreateContext \/ MakeCurrent \/ MakeCurrentError \/ InitializeGL
  \/ OpenFile \/ CreateSession \/ CreateObject \/ CreateFails

CaptureSync ==
  \/ TransferFrame \/ TransferFails \/ Lock \/ LockFails
  \/ Write \/ Release \/ ReleaseFails

Next == XServer \/ Main \/ Setup \/ CaptureSync \/ Stopped

Spec == Init /\ [][Next]_vars

-----------------------------------------------------------------------------
(* Properties *)

Steps == {"walk", "print", "context", "bind", "gl", "file", "session", "object",
          "transfer", "lock", "write", "release", "exited", "returned", "crashed"}

(* Every variable has its type: the stack and the list hold windows, the    *)
(* file and the queue of NvIFR no more frames than were transferred.        *)
TypeOK ==
  /\ parent \in [1 .. N -> Windows] /\ named \subseteq 1 .. N
  /\ size \in [1 .. N -> Sizes] /\ gone \subseteq 1 .. N
  /\ pc \in Steps
  /\ todo \in Seq(Windows) /\ windowList \in Seq(Windows) /\ printed \in 0 .. Len(windowList)
  /\ hasAlpha \in BOOLEAN /\ context \in {"null", "made", "current"} /\ dims \in Sizes \cup {0}
  /\ file \in Seq(1 .. MaxFrames)
  /\ open \in BOOLEAN /\ live \subseteq Objects /\ locked \subseteq Objects
  /\ misused \in Nat
  /\ config \in [Objects -> [size : {Padded(s) : s \in Sizes \cup {0}}, rate : {0}]]
  /\ count \in [Objects -> 0 .. MaxFrames] /\ taken \in [Objects -> 0 .. MaxFrames]

(* When the walk is over, windowList has windows that match, in the order   *)
(* of the document, and all of those that are still there: windows that go  *)
(* while it lasts end the program, or are left out, but no other is.        *)
WindowsInOrder ==
  pc \notin {"walk", "exited"} =>
    /\ Ascending(windowList)
    /\ {w \in Windows \ gone : Matches(w)} \subseteq Range(windowList)
    /\ \A w \in Range(windowList) : Matches(w)

(* The file has the first frames of the stream, each of them once: a lock   *)
(* or a release that fails makes it late, and leaves no gap.                *)
FileInOrder ==
  /\ \A i \in 1 .. Len(file) : file[i] = i
  /\ Len(file) = IF pc = "write" THEN taken[Transfer] - 1 ELSE taken[Transfer]

(* The program makes each call of NvIFR only when it may: with its context  *)
(* current, on the object that it has, and with a segment in the queue or   *)
(* locked, although the loop goes on after a lock or a release that fails.  *)
UsesNvIFR == Api!Spec

=============================================================================

-------------------------- MODULE PluginInstances --------------------------
(***************************************************************************)
(* The life of the plugin's instances, one for each window, in one         *)
(* application process: RRTransInit and the constructors it runs,          *)
(* RRTransDestroy and the destructors, and what all instances share: the   *)
(* log (debug), the NvIFR entry points (XCapture::nvIFR) and the handler   *)
(* of X errors.                                                            *)
(*                                                                         *)
(* The calls for one window come one after the other.  Those for different *)
(* windows come from different threads, and each instance has its encoder  *)
(* thread.  The members of GPUEncTrans are constructed in the order of     *)
(* their declaration, the buffers first and VglMightyIPC last, and are     *)
(* destroyed in reverse order, by an exception as well.  The sockets of    *)
(* VglMightyIPC are plain pointers: nothing deletes them.                  *)
(***************************************************************************)
EXTENDS Integers, FiniteSets

CONSTANTS
  Windows,   \* the windows VirtualGL makes an instance for
  NFRAMES,   \* buffers of an instance (3 in the code)
  MaxInits   \* bound: calls of RRTransInit for one window

ASSUME WindowsAssumption == IsFiniteSet(Windows)
ASSUME BufferAssumption == NFRAMES \in Nat \ {0}
ASSUME InitsAssumption == MaxInits \in Nat

VARIABLES
  pc,       \* pc[w]: where the thread is that makes the calls for w
  why,      \* why[w]: what destroys the members of w: an exception, RRTransDestroy
  inits,    \* inits[w]: calls of RRTransInit so far
  built,    \* built[w]: the GPUEncBuffers that are constructed
  glx,      \* glx[w]: the GLX contexts that exist for buffers of w
  context,  \* context[w]: zmq_context of w is open
  sockets,  \* sockets[w]: the sockets open in that context
  display,  \* display[w]: dpy3DClone is open
  encoder,  \* encoder[w]: the encoder thread of w
  debug,    \* the log file the pointer debug points to, Null at first
  files,    \* the log files that are open
  raced,    \* history: two windows have been about to open a log at once
  denied,   \* history: a log could not be opened
  loaded,   \* XCapture::nvIFR has its entry points
  handler,  \* X errors of the process go to VglXErrorFunc
  crashed   \* what the process died of, "no" while it lives

instanceVars == <<why, inits, built, glx, context, sockets, display>>
sharedVars   == <<debug, files, raced, denied, loaded, handler>>
vars == <<pc, instanceVars, encoder, sharedVars, crashed>>

-----------------------------------------------------------------------------
Null  == 0
Files == 1 .. MaxInits * Cardinality(Windows)   \* a call opens one log at most

Init ==
  /\ pc = [w \in Windows |-> "none"]
  /\ why = [w \in Windows |-> "nothing"]
  /\ inits = [w \in Windows |-> 0]
  /\ built = [w \in Windows |-> 0]
  /\ glx = [w \in Windows |-> 0]
  /\ context = [w \in Windows |-> FALSE]
  /\ sockets = [w \in Windows |-> 0]
  /\ display = [w \in Windows |-> FALSE]
  /\ encoder = [w \in Windows |-> "none"]
  /\ debug = Null /\ files = {} /\ raced = FALSE /\ denied = FALSE
  /\ loaded = FALSE /\ handler = FALSE
  /\ crashed = "no"

Goto(w, label) == pc' = [pc EXCEPT ![w] = label]

Alive == crashed = "no"

At(w, from, to) == Alive /\ pc[w] = from /\ Goto(w, to)

(* An exception leaves the constructor; the members made so far go away.    *)
Throw(w, from, error, to) ==
  /\ At(w, from, to)
  /\ why' = [why EXCEPT ![w] = error]

-----------------------------------------------------------------------------
(* RRTransInit *)

RRTransInit(w) ==
  /\ At(w, "none", "log")
  /\ inits[w] < MaxInits
  /\ inits' = [inits EXCEPT ![w] = @ + 1]
  /\ UNCHANGED <<why, built, glx, context, sockets, display, encoder, sharedVars,
                 crashed>>

FindsNoLog(w) ==
  /\ At(w, "log", "fopen")
  /\ raced' = (raced \/ \E v \in Windows : pc[v] = "fopen")
  /\ UNCHANGED <<instanceVars, encoder, debug, files, denied, loaded, handler, crashed>>

(* Variant: a log is opened for each instance. *)
CheckLogNot(w) == FindsNoLog(w)

(* if (debug == nullptr), which two windows may both find true *)
CheckLog(w) ==
  \/ debug = Null /\ FindsNoLog(w)
  \/ /\ debug # Null /\ At(w, "log", "buffers")
     /\ UNCHANGED <<instanceVars, encoder, sharedVars, crashed>>

(* debug = fopen(...), which forgets the file that debug points to, if      *)
(* there is one by now, also when it fails.                                 *)
OpenLog(w) ==
  /\ At(w, "fopen", "buffers")
  /\ \/ \E f \in Files \ files :
          /\ \A g \in Files : g < f => g \in files
          /\ debug' = f /\ files' = files \cup {f} /\ UNCHANGED denied
     \/ debug' = Null /\ denied' = TRUE /\ UNCHANGED files
  /\ UNCHANGED <<instanceVars, encoder, raced, loaded, handler, crashed>>

(* GPUEncBuffer(): a context and a Pbuffer of its own for each buffer *)
BuildBuffer(w) ==
  /\ At(w, "buffers", IF built[w] + 1 = NFRAMES THEN "context" ELSE "buffers")
  /\ built' = [built EXCEPT ![w] = @ + 1]
  /\ glx' = [glx EXCEPT ![w] = @ + 1]
  /\ UNCHANGED <<why, inits, context, sockets, display, encoder, sharedVars, crashed>>

(* Variant: the buffers made so far are not destroyed with the exception. *)
BufferThrowKeep(w) ==
  /\ Throw(w, "buffers", "error", "catch")
  /\ UNCHANGED <<inits, built, glx, context, sockets, display, encoder, sharedVars,
                 crashed>>

(* VirtualGL's context is invalid, or the context or the Pbuffer cannot be  *)
(* created.  A context without a Pbuffer belongs to no buffer: it stays.    *)
BufferThrow(w) ==
  /\ Throw(w, "buffers", "error", "unwind")
  /\ \E left \in {0, 1} : glx' = [glx EXCEPT ![w] = @ + left]
  /\ UNCHANGED <<inits, built, context, sockets, display, encoder, sharedVars, crashed>>

-----------------------------------------------------------------------------
(* VglMightyIPC(false), context_t() and socket_t() *)

NewContext(w) ==
  /\ At(w, "context", "sockets")
  /\ context' = [context EXCEPT ![w] = TRUE]
  /\ UNCHANGED <<why, inits, built, glx, sockets, display, encoder, sharedVars, crashed>>

NewContextThrow(w) ==
  /\ Throw(w, "context", "error_t", "unwind")
  /\ UNCHANGED <<inits, built, glx, context, sockets, display, encoder, sharedVars,
                 crashed>>

(* Variant: one socket too many. *)
NewSocketOffByOne(w) ==
  /\ At(w, "sockets", IF sockets[w] = 2 THEN "body" ELSE "sockets")
  /\ sockets' = [sockets EXCEPT ![w] = @ + 1]
  /\ UNCHANGED <<why, inits, built, glx, context, display, encoder, sharedVars, crashed>>

(* zmq_frame_response_socket, then zmq_frame_request_socket *)
NewSocket(w) ==
  /\ At(w, "sockets", IF sockets[w] = 1 THEN "body" ELSE "sockets")
  /\ sockets' = [sockets EXCEPT ![w] = @ + 1]
  /\ UNCHANGED <<why, inits, built, glx, context, display, encoder, sharedVars, crashed>>

(* There is no socket to be had, or it is there and connect or setsockopt   *)
(* fails.                                                                   *)
NewSocketThrow(w) ==
  /\ Throw(w, "sockets", "error_t", "close")
  /\ \E left \in {0, 1} : sockets' = [sockets EXCEPT ![w] = @ + left]
  /\ UNCHANGED <<inits, built, glx, context, display, encoder, sharedVars, crashed>>

-----------------------------------------------------------------------------
(* the body of GPUEncTrans() and the return from RRTransInit *)

StartThread(w) ==
  /\ At(w, "body", "alive")
  /\ display' = [display EXCEPT ![w] = TRUE]
  /\ handler' = TRUE
  /\ encoder' = [encoder EXCEPT ![w] = "running"]
  /\ UNCHANGED <<why, inits, built, glx, context, sockets, debug, files, raced, denied,
                 loaded, crashed>>

(* There is no display to clone, or the clone is there and no thread.       *)
BodyThrow(w) ==
  /\ Throw(w, "body", "error", "close")
  /\ \/ UNCHANGED <<display, handler>>
     \/ display' = [display EXCEPT ![w] = TRUE] /\ handler' = TRUE
  /\ UNCHANGED <<inits, built, glx, context, sockets, encoder, debug, files, raced, denied,
                 loaded, crashed>>

(* the catch block, when there is a log to print to; NULL is returned *)
Catch(w) ==
  /\ At(w, "catch", "none")
  /\ debug # Null
  /\ UNCHANGED <<instanceVars, encoder, sharedVars, crashed>>

-----------------------------------------------------------------------------
(* Destruction: RRTransDestroy up to the join, and then, as after an        *)
(* exception, ~VglMightyIPC with context_t::close, and ~GPUEncBuffer.       *)

(* fclose(debug), and shutdown is set.  The pointer is left as it is.       *)
RRTransDestroy(w) ==
  /\ At(w, "alive", "stop")
  /\ debug # Null
  /\ files' = files \ {debug}
  /\ why' = [why EXCEPT ![w] = "destroy"]
  /\ UNCHANGED <<inits, built, glx, context, sockets, display, encoder, debug, raced,
                 denied, loaded, handler, crashed>>

(* Variant: the thread is told to stop and not waited for. *)
JoinThreadNot(w) ==
  /\ At(w, "stop", "close")
  /\ display' = [display EXCEPT ![w] = FALSE]
  /\ UNCHANGED <<why, inits, built, glx, context, sockets, encoder, sharedVars, crashed>>

(* thread->stop(), XCloseDisplay(dpy3DClone) *)
JoinThread(w) ==
  /\ At(w, "stop", "close")
  /\ encoder[w] = "stopped"
  /\ display' = [display EXCEPT ![w] = FALSE]
  /\ UNCHANGED <<why, inits, built, glx, context, sockets, encoder, sharedVars, crashed>>

(* zmq_ctx_destroy, which blocks while a socket of the context is open *)
CloseContext(w) ==
  /\ At(w, "close", "unwind")
  /\ sockets[w] = 0
  /\ context' = [context EXCEPT ![w] = FALSE]
  /\ UNCHANGED <<why, inits, built, glx, sockets, display, encoder, sharedVars, crashed>>

DestroyBuffers(w) ==
  /\ built' = [built EXCEPT ![w] = 0]
  /\ glx' = [glx EXCEPT ![w] = @ - built[w]]

(* Variant: whatever destroys the members joins the encoder thread first. *)
UnwindJoin(w) ==
  /\ encoder[w] = "stopped"
  /\ DestroyBuffers(w)
  /\ At(w, "unwind", IF why[w] = "destroy" THEN "none" ELSE "catch")
  /\ UNCHANGED <<why, inits, context, sockets, display, encoder, sharedVars, crashed>>

(* Then RRTransDestroy returns, or its catch block or that of RRTransInit   *)
(* gets an Error.                                                           *)
Unwind(w) ==
  /\ why[w] # "error_t"
  /\ DestroyBuffers(w)
  /\ At(w, "unwind", IF why[w] = "destroy" THEN "none" ELSE "catch")
  /\ UNCHANGED <<why, inits, context, sockets, display, encoder, sharedVars, crashed>>

-----------------------------------------------------------------------------
(* the encoder thread of w, as far as it is seen from here *)

Running(w) == encoder[w] = "running"

(* XCapture::nvIFR.initialize(), whose result is not looked at: when it     *)
(* fails, the pointers of an earlier success are still there.               *)
InitNVIFR(w) ==
  /\ Alive /\ Running(w)
  /\ loaded' = TRUE
  /\ UNCHANGED <<pc, instanceVars, encoder, debug, files, raced, denied, handler, crashed>>

(* It sees shutdown, or it has caught an Error. *)
StopThread(w) ==
  /\ Alive /\ Running(w)
  /\ encoder' = [encoder EXCEPT ![w] = "stopped"]
  /\ UNCHANGED <<pc, instanceVars, sharedVars, crashed>>

-----------------------------------------------------------------------------
(* What ends the process. *)

Closed == debug # Null /\ debug \notin files

(* log_info looks whether there is a log, and cannot tell that it is        *)
(* closed.  RRTransInit and the encoder thread call it.                     *)
LogInfo(w) ==
  /\ Closed
  /\ Running(w) \/ (pc[w] = "buffers" /\ built[w] = 0)

(* The calls on an instance print to the log when they fail, RRTransReady   *)
(* and RRTransSynchronize in any case, and RRTransDestroy closes it.  They  *)
(* and the catch block of RRTransInit do not look whether there is one.     *)
LogCall(w) == (Closed \/ debug = Null) /\ pc[w] \in {"alive", "catch"}

(* C does not define what happens then. *)
BadLog(w) ==
  /\ Alive
  /\ LogInfo(w) \/ LogCall(w)
  /\ crashed' = "log"
  /\ UNCHANGED <<pc, instanceVars, encoder, sharedVars>>

(* An X error, on any thread of the application: the handler logs it, even  *)
(* when the instance is gone that installed it.                             *)
VglXErrorFunc ==
  /\ Alive /\ handler /\ Closed
  /\ crashed' = "log"
  /\ UNCHANGED <<pc, instanceVars, encoder, sharedVars>>

(* error_t is no Error: no catch block takes it. *)
Uncaught(w) ==
  /\ Alive /\ pc[w] = "unwind" /\ why[w] = "error_t"
  /\ crashed' = "error_t"
  /\ UNCHANGED <<pc, instanceVars, encoder, sharedVars>>

(* initialize() fails and nvIFROGLCreateSession is called through NULL. *)
NullEntryPoint(w) ==
  /\ Alive /\ Running(w) /\ ~loaded
  /\ crashed' = "nvifr"
  /\ UNCHANGED <<pc, instanceVars, encoder, sharedVars>>

-----------------------------------------------------------------------------
Construct(w) ==
  \/ CheckLog(w) \/ OpenLog(w) \/ BuildBuffer(w) \/ BufferThrow(w)
  \/ NewContext(w) \/ NewContextThrow(w) \/ NewSocket(w) \/ NewSocketThrow(w)
  \/ StartThread(w) \/ BodyThrow(w)

Destruct(w) == JoinThread(w) \/ CloseContext(w) \/ Unwind(w) \/ Catch(w)

Die(w) == BadLog(w) \/ Uncaught(w) \/ NullEntryPoint(w)

Step(w) ==
  \/ RRTransInit(w) \/ Construct(w)
  \/ RRTransDestroy(w) \/ Destruct(w)
  \/ InitNVIFR(w) \/ StopThread(w)
  \/ Die(w)

Next == VglXErrorFunc \/ \E w \in Windows : Step(w)

Spec == Init /\ [][Next]_vars

(* A call that has begun goes on, and an encoder thread that is told to     *)
(* stop does: the server keeps sending.                                     *)
Fairness ==
  \A w \in Windows :
    /\ WF_vars(Construct(w) \/ Destruct(w) \/ Die(w))
    /\ WF_vars(pc[w] = "stop" /\ StopThread(w))

FairSpec == Spec /\ Fairness

-----------------------------------------------------------------------------
(* Properties *)

Labels == {"none", "log", "fopen", "buffers", "context", "sockets", "body", "alive",
           "stop", "close", "unwind", "catch"}

(* Every variable has its type: an instance never has more than its buffers *)
(* and its two sockets.                                                     *)
TypeOK ==
  /\ pc \in [Windows -> Labels]
  /\ why \in [Windows -> {"nothing", "error", "error_t", "destroy"}]
  /\ inits \in [Windows -> 0 .. MaxInits]
  /\ built \in [Windows -> 0 .. NFRAMES]
  /\ glx \in [Windows -> Nat]
  /\ context \in [Windows -> BOOLEAN]
  /\ sockets \in [Windows -> 0 .. 2]
  /\ display \in [Windows -> BOOLEAN]
  /\ encoder \in [Windows -> {"none", "running", "stopped"}]
  /\ debug \in Files \cup {Null} /\ files \subseteq Files
  /\ raced \in BOOLEAN /\ denied \in BOOLEAN
  /\ loaded \in BOOLEAN /\ handler \in BOOLEAN
  /\ crashed \in {"no", "log", "error_t", "nvifr"}

(* The encoder thread runs only while all it uses is there: the buffers,    *)
(* the sockets and their context, and its display.  No exception and no     *)
(* destructor takes them away under it.                                     *)
NothingOutlives ==
  \A w \in Windows : Running(w) =>
    /\ pc[w] \in {"alive", "stop"}
    /\ built[w] = NFRAMES /\ glx[w] >= NFRAMES
    /\ context[w] /\ sockets[w] = 2 /\ display[w]

(* When RRTransInit has returned NULL nothing is left of the instance, but  *)
(* for one GLX context each time a Pbuffer was not to be had.  It only ever *)
(* gets that far when a buffer could not be made.                           *)
FailedInitClean ==
  \A w \in Windows : pc[w] = "none" =>
    /\ built[w] = 0 /\ glx[w] <= inits[w]
    /\ ~context[w] /\ sockets[w] = 0 /\ ~display[w]
    /\ ~Running(w)

(* What becomes of the log that all windows share.  Only RRTransDestroy     *)
(* closes the file that debug points to.  A file is forgotten, and stays    *)
(* open, only after two windows have found no log at the same time: as long *)
(* as one RRTransInit follows the other none is, whichever fail and are     *)
(* tried again.  When both open a log that is all the harm they do: the     *)
(* process dies of its log only when RRTransDestroy has closed it, or when  *)
(* a log could not be opened.  The window that could not may be one of the  *)
(* two, and then it is the open log of the other one that it takes away.    *)
LogLost ==
  /\ Closed => \E w \in Windows : why[w] = "destroy"
  /\ files \ {debug} # {} => raced
  /\ crashed = "log" => denied \/ \E w \in Windows : why[w] = "destroy"

(* RRTransInit returns or takes the process with it, unless it has failed   *)
(* with a socket open.                                                      *)
InitReturns ==
  \A w \in Windows :
    pc[w] = "log" ~> \/ pc[w] \in {"none", "alive"} \/ ~Alive
                     \/ pc[w] = "close" /\ sockets[w] > 0

(* What zmq.hpp says of context_t::close, which RRTransDestroy runs as soon *)
(* as it has joined the encoder thread: the context is terminated.          *)
ContextTerminates ==
  \A w \in Windows :
    pc[w] = "close" /\ why[w] = "destroy" ~> ~context[w] \/ ~Alive

=============================================================================

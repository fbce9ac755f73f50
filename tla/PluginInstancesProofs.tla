----------------------- MODULE PluginInstancesProofs -----------------------
(* What holds of any number of windows and buffers: the invariants of       *)
(* PluginInstances, and that RRTransDestroy never returns.                  *)
EXTENDS PluginInstances, TLAPS

(* The contexts of w that belong to no buffer *)
Stray(w) == glx[w] - built[w]

(* What a thread finds of its instance at each place in the code.           *)
Early(w) ==
  pc[w] \in {"none", "log", "fopen", "buffers", "catch"} =>
    /\ pc[w] = "buffers" \/ built[w] = 0
    /\ ~context[w] /\ sockets[w] = 0 /\ ~display[w]

Middle(w) ==
  /\ pc[w] = "buffers" => built[w] < NFRAMES
  /\ pc[w] = "context" => ~context[w]
  /\ pc[w] \in {"context", "unwind"} => sockets[w] = 0 /\ ~display[w]
  /\ pc[w] = "unwind" => ~context[w]
  /\ pc[w] \in {"context", "sockets", "body", "alive", "stop"} => built[w] = NFRAMES
  /\ pc[w] \in {"sockets", "body", "alive", "stop", "close"} => context[w]
  /\ pc[w] = "sockets" => sockets[w] <= 1 /\ ~display[w]
  /\ pc[w] \in {"body", "alive", "stop"} => sockets[w] = 2
  /\ pc[w] \in {"alive", "stop"} => display[w]

(* A clone of the display that is open when the members are destroyed was   *)
(* opened after both sockets.                                               *)
Late(w) == pc[w] = "close" /\ display[w] => sockets[w] = 2

EncoderInv(w) == Running(w) => pc[w] \in {"alive", "stop"}

GlxInv(w) ==
  /\ 0 <= Stray(w) /\ Stray(w) <= inits[w]
  /\ pc[w] \in {"log", "fopen", "buffers"} => Stray(w) < inits[w]

(* Once RRTransDestroy has begun, the two sockets are open for ever. *)
DestroyInv(w) ==
  why[w] = "destroy" => pc[w] \in {"stop", "close"} /\ sockets[w] = 2

WindowInv(w) ==
  Early(w) /\ Middle(w) /\ Late(w) /\ EncoderInv(w) /\ GlxInv(w) /\ DestroyInv(w)

(* A window that is about to open a log although there is one, or another   *)
(* window that is, too, has raced.  Past that place there is a log, or it   *)
(* could not be opened.                                                     *)
Past(w) == pc[w] \notin {"none", "log", "fopen"}

LogInv ==
  /\ LogLost
  /\ \A w \in Windows : pc[w] = "fopen" /\ debug # Null => raced
  /\ \A v, w \in Windows : v # w /\ pc[v] = "fopen" /\ pc[w] = "fopen" => raced
  /\ \A w \in Windows : Past(w) /\ debug = Null => denied

IInv == TypeOK /\ (\A w \in Windows : WindowInv(w)) /\ LogInv

USE BufferAssumption, InitsAssumption

-----------------------------------------------------------------------------
(* Each step of a window keeps the types. *)
LEMMA TypeStep ==
  ASSUME TypeOK, \A w \in Windows : WindowInv(w), NEW v \in Windows, Step(v)
  PROVE  TypeOK'
<1> USE DEF TypeOK, Labels, At, Goto, instanceVars, sharedVars
<1>1. WindowInv(v)
  OBVIOUS
<1>2. CASE RRTransInit(v) \/ CheckLog(v) \/ OpenLog(v)
  <2>1. raced' \in BOOLEAN /\ denied' \in BOOLEAN
    <3>1. /\ raced' = raced \/ raced' = (raced \/ \E w \in Windows : pc[w] = "fopen")
          /\ denied' = denied \/ denied' = TRUE
      BY <1>2, Zenon DEF RRTransInit, CheckLog, FindsNoLog, OpenLog
    <3> QED
      BY <3>1, Zenon
  <2> QED
    BY <1>2, <2>1 DEF RRTransInit, CheckLog, FindsNoLog, OpenLog
<1>3. CASE BuildBuffer(v) \/ BufferThrow(v)
  BY <1>1, <1>3 DEF BuildBuffer, BufferThrow, Throw, WindowInv, Middle
<1>4. CASE NewContext(v) \/ NewContextThrow(v)
  BY <1>4 DEF NewContext, NewContextThrow, Throw
<1>5. CASE NewSocket(v) \/ NewSocketThrow(v)
  BY <1>1, <1>5 DEF NewSocket, NewSocketThrow, Throw, WindowInv, Middle
<1>6. CASE StartThread(v) \/ BodyThrow(v) \/ Catch(v)
  BY <1>6 DEF StartThread, BodyThrow, Throw, Catch
<1>7. CASE RRTransDestroy(v) \/ JoinThread(v) \/ CloseContext(v)
  BY <1>7 DEF RRTransDestroy, JoinThread, CloseContext
<1>8. CASE Unwind(v)
  BY <1>1, <1>8 DEF Unwind, DestroyBuffers, WindowInv, GlxInv, Stray
<1>9. CASE InitNVIFR(v) \/ StopThread(v) \/ Die(v)
  BY <1>9 DEF InitNVIFR, StopThread, Die, BadLog, LogInfo, LogCall, Uncaught,
              NullEntryPoint
<1> QED
  BY <1>2, <1>3, <1>4, <1>5, <1>6, <1>7, <1>8, <1>9 DEF Step, Construct, Destruct

(* A step of one window leaves the instance of another one alone. *)
LEMMA OtherWindow ==
  ASSUME TypeOK, NEW v \in Windows, Step(v), NEW w \in Windows \ {v}, WindowInv(w)
  PROVE  WindowInv(w)'
<1>1. /\ pc'[w] = pc[w] /\ why'[w] = why[w] /\ inits'[w] = inits[w]
      /\ built'[w] = built[w] /\ glx'[w] = glx[w] /\ context'[w] = context[w]
      /\ sockets'[w] = sockets[w] /\ display'[w] = display[w]
      /\ encoder'[w] = encoder[w]
  <2> USE DEF TypeOK, At, Goto, Throw, instanceVars, sharedVars
  <2>1. CASE RRTransInit(v) \/ Construct(v)
    BY <2>1 DEF RRTransInit, Construct, CheckLog, FindsNoLog, OpenLog, BuildBuffer, BufferThrow,
                NewContext, NewContextThrow, NewSocket, NewSocketThrow, StartThread,
                BodyThrow
  <2>2. CASE RRTransDestroy(v) \/ Destruct(v)
    BY <2>2 DEF RRTransDestroy, Destruct, JoinThread, CloseContext, Unwind,
                DestroyBuffers, Catch
  <2>3. CASE InitNVIFR(v) \/ StopThread(v) \/ Die(v)
    BY <2>3 DEF InitNVIFR, StopThread, Die, BadLog, LogInfo, LogCall, Uncaught,
                NullEntryPoint
  <2> QED
    BY <2>1, <2>2, <2>3 DEF Step
<1> QED
  BY <1>1 DEF WindowInv, Early, Middle, Late, EncoderInv, GlxInv, Stray, DestroyInv,
              Running

(* A step of a window's own keeps what is known of its instance. *)
LEMMA OwnWindow ==
  ASSUME TypeOK, NEW v \in Windows, Step(v), WindowInv(v)
  PROVE  WindowInv(v)'
<1> USE DEF TypeOK, At, Goto, Throw, instanceVars, sharedVars, WindowInv, Early,
            Middle, Late, EncoderInv, GlxInv, Stray, DestroyInv, Running
<1>1. CASE RRTransInit(v)
  BY <1>1 DEF RRTransInit
<1>2. CASE CheckLog(v) \/ OpenLog(v)
  BY <1>2 DEF CheckLog, FindsNoLog, OpenLog
<1>3. CASE BuildBuffer(v)
  BY <1>3 DEF BuildBuffer
<1>4. CASE BufferThrow(v)
  BY <1>4 DEF BufferThrow
<1>5. CASE NewContext(v) \/ NewContextThrow(v)
  BY <1>5 DEF NewContext, NewContextThrow
<1>6. CASE NewSocket(v)
  BY <1>6 DEF NewSocket
<1>7. CASE NewSocketThrow(v)
  BY <1>7 DEF NewSocketThrow
<1>8. CASE StartThread(v)
  BY <1>8 DEF StartThread
<1>9. CASE BodyThrow(v) \/ Catch(v)
  BY <1>9 DEF BodyThrow, Catch
<1>10. CASE RRTransDestroy(v) \/ JoinThread(v)
  BY <1>10 DEF RRTransDestroy, JoinThread
<1>11. CASE CloseContext(v)
  BY <1>11 DEF CloseContext
<1>12. CASE Unwind(v)
  BY <1>12 DEF Unwind, DestroyBuffers
<1>13. CASE InitNVIFR(v) \/ StopThread(v) \/ Die(v)
  BY <1>13 DEF InitNVIFR, StopThread, Die, BadLog, LogInfo, LogCall, Uncaught,
               NullEntryPoint
<1> QED
  BY <1>1, <1>2, <1>3, <1>4, <1>5, <1>6, <1>7, <1>8, <1>9, <1>10, <1>11, <1>12, <1>13
     DEF Step, Construct, Destruct

(* A step of v moves v only, and an instance that is being destroyed stays  *)
(* one.                                                                     *)
LEMMA StepFrame ==
  ASSUME TypeOK, NEW v \in Windows, WindowInv(v), Step(v)
  PROVE  /\ \A w \in Windows \ {v} : pc'[w] = pc[w]
         /\ \A w \in Windows : why[w] = "destroy" => why'[w] = "destroy"
<1> USE DEF TypeOK, At, Goto, Throw, instanceVars, sharedVars
<1>1. why[v] = "destroy" => pc[v] \in {"stop", "close"}
  BY DEF WindowInv, DestroyInv
<1>2. CASE RRTransInit(v) \/ Construct(v)
  BY <1>1, <1>2 DEF RRTransInit, Construct, CheckLog, FindsNoLog, OpenLog, BuildBuffer,
         BufferThrow, NewContext, NewContextThrow, NewSocket, NewSocketThrow,
         StartThread, BodyThrow
<1>3. CASE RRTransDestroy(v) \/ Destruct(v)
  BY <1>3 DEF RRTransDestroy, Destruct, JoinThread, CloseContext, Unwind, DestroyBuffers,
              Catch
<1>4. CASE InitNVIFR(v) \/ StopThread(v) \/ Die(v)
  BY <1>4 DEF InitNVIFR, StopThread, Die, BadLog, LogInfo, LogCall, Uncaught,
              NullEntryPoint
<1> QED
  BY <1>2, <1>3, <1>4 DEF Step

(* A step that leaves the log alone keeps what is known of it, unless it is *)
(* one into fopen or past it.                                               *)
LEMMA LogAlone ==
  ASSUME IInv, NEW v \in Windows, Step(v),
         UNCHANGED <<debug, files, raced, denied>>,
         pc'[v] # "fopen" \/ pc'[v] = pc[v],
         Past(v)' => Past(v) \/ debug # Null,
         crashed' = "log" => crashed = "log" \/ Closed \/ denied
  PROVE  LogInv'
<1>1. /\ \A w \in Windows \ {v} : pc'[w] = pc[w]
      /\ \A w \in Windows : why[w] = "destroy" => why'[w] = "destroy"
  BY StepFrame DEF IInv
<1>2. LogLost'
  BY <1>1 DEF IInv, LogInv, LogLost, Closed
<1> QED
  BY <1>1, <1>2 DEF IInv, LogInv, Past

(* The log is lost in no other way than LogLost says.                       *)
LEMMA LogStep ==
  ASSUME IInv, NEW v \in Windows, Step(v)
  PROVE  LogInv'
<1> USE DEF At, Goto, Throw, instanceVars, sharedVars
<1>1. /\ TypeOK /\ LogInv
      /\ \A w \in Windows \ {v} : pc'[w] = pc[w]
      /\ \A w \in Windows : why[w] = "destroy" => why'[w] = "destroy"
  BY StepFrame DEF IInv
<1>2. CASE FindsNoLog(v) /\ debug = Null
  <2>1. /\ UNCHANGED <<debug, files, denied, crashed>> /\ pc'[v] = "fopen"
        /\ raced' <=> (raced \/ \E w \in Windows : pc[w] = "fopen")
    BY <1>1, <1>2 DEF FindsNoLog, TypeOK
  <2>2. LogLost'
    BY <1>1, <2>1 DEF LogInv, LogLost, Closed
  <2> QED
    BY <1>1, <1>2, <2>1, <2>2 DEF LogInv, Past
<1>3. CASE OpenLog(v)
  <2>1. /\ pc[v] = "fopen" /\ pc'[v] = "buffers" /\ UNCHANGED <<raced, crashed>>
        /\ \/ debug' \in Files \ files /\ files' = files \cup {debug'} /\ denied' = denied
           \/ debug' = Null /\ denied' /\ files' = files
    BY <1>1, <1>3 DEF OpenLog, TypeOK
  <2>2. files # {} => raced
    BY <1>1, <2>1 DEF LogInv, LogLost, TypeOK, Null, Files
  <2>3. LogLost'
    BY <1>1, <2>1, <2>2 DEF LogInv, LogLost, Closed, Null, Files
  <2>4. \A w \in Windows : pc'[w] = "fopen" => pc[w] = "fopen" /\ raced
    BY <1>1, <2>1 DEF LogInv
  <2> QED
    BY <1>1, <2>1, <2>3, <2>4 DEF LogInv, Past, Null, Files
<1>4. CASE RRTransDestroy(v)
  <2>1. /\ UNCHANGED <<debug, raced, denied, crashed>> /\ why'[v] = "destroy"
        /\ debug # Null /\ files' = files \ {debug} /\ pc'[v] = "stop"
    BY <1>1, <1>4 DEF RRTransDestroy, TypeOK
  <2>2. LogLost'
    BY <1>1, <2>1 DEF LogInv, LogLost, Closed
  <2> QED
    BY <1>1, <2>1, <2>2 DEF LogInv, Past
<1>5. CASE Die(v)
  <2>1. UNCHANGED <<pc, debug, files, raced, denied>>
    BY <1>5 DEF Die, BadLog, Uncaught, NullEntryPoint
  <2>2. crashed' = "log" => Closed \/ denied
    BY <1>1, <1>5 DEF Die, BadLog, LogInfo, LogCall, Uncaught, NullEntryPoint, LogInv, Past
  <2> QED
    BY <2>1, <2>2, LogAlone DEF Past
<1>6. CASE /\ UNCHANGED <<debug, files, raced, denied, crashed>>
           /\ pc'[v] # "fopen" \/ pc'[v] = pc[v]
           /\ Past(v)' => Past(v) \/ debug # Null
  BY <1>6, LogAlone
<1>7. CASE \/ RRTransInit(v) \/ (debug # Null /\ CheckLog(v))
           \/ InitNVIFR(v) \/ StopThread(v)
  BY <1>1, <1>6, <1>7 DEF RRTransInit, CheckLog, FindsNoLog, InitNVIFR, StopThread, Past, TypeOK
<1>8. CASE \/ BuildBuffer(v) \/ BufferThrow(v) \/ NewContext(v) \/ NewContextThrow(v)
           \/ NewSocket(v) \/ NewSocketThrow(v) \/ StartThread(v) \/ BodyThrow(v)
  BY <1>1, <1>6, <1>8 DEF BuildBuffer, BufferThrow, NewContext, NewContextThrow, NewSocket,
         NewSocketThrow, StartThread, BodyThrow, Past, TypeOK
<1>9. CASE Destruct(v)
  BY <1>1, <1>6, <1>9 DEF Destruct, JoinThread, CloseContext, Unwind, DestroyBuffers, Catch,
         Past, TypeOK
<1> QED
  BY <1>2, <1>3, <1>4, <1>5, <1>7, <1>8, <1>9 DEF Step, Construct, CheckLog

(* The inductive invariant holds in every state. *)
THEOREM Invariance == Spec => []IInv
<1>1. Init => IInv
  <2> SUFFICES ASSUME Init PROVE IInv
    OBVIOUS
  <2>1. TypeOK
    <3>1. /\ context \in [Windows -> BOOLEAN] /\ display \in [Windows -> BOOLEAN]
          /\ loaded \in BOOLEAN /\ handler \in BOOLEAN
          /\ raced \in BOOLEAN /\ denied \in BOOLEAN
      BY Zenon DEF Init
    <3>2. 0 \in 0 .. MaxInits /\ 0 \in 0 .. NFRAMES /\ 0 \in Nat /\ 0 \in 0 .. 2
      OBVIOUS
    <3>3. /\ inits \in [Windows -> 0 .. MaxInits] /\ built \in [Windows -> 0 .. NFRAMES]
          /\ glx \in [Windows -> Nat] /\ sockets \in [Windows -> 0 .. 2]
      BY <3>2, Zenon DEF Init
    <3>4. /\ pc \in [Windows -> Labels]
          /\ why \in [Windows -> {"nothing", "error", "error_t", "destroy"}]
          /\ encoder \in [Windows -> {"none", "running", "stopped"}]
      BY DEF Init, Labels
    <3> QED
      BY <3>1, <3>3, <3>4 DEF Init, TypeOK
  <2>2. LogInv
    BY DEF Init, LogLost, LogInv, Past, Closed
  <2>3. ASSUME NEW w \in Windows PROVE WindowInv(w)
    <3>1. /\ pc[w] = "none" /\ why[w] = "nothing" /\ inits[w] = 0 /\ built[w] = 0
          /\ glx[w] = 0 /\ ~context[w] /\ sockets[w] = 0 /\ ~display[w]
          /\ encoder[w] = "none"
      BY <2>3 DEF Init
    <3> QED
      BY <3>1 DEF WindowInv, Early, Middle, Late, EncoderInv, GlxInv, Stray, DestroyInv,
                  Running
  <2> QED
    BY <2>1, <2>2, <2>3 DEF IInv
<1>2. IInv /\ [Next]_vars => IInv'
  <2> SUFFICES ASSUME IInv, [Next]_vars PROVE IInv'
    OBVIOUS
  <2>1. ASSUME NEW v \in Windows, Step(v) PROVE IInv'
    <3>1. TypeOK'
      BY <2>1, TypeStep DEF IInv
    <3>2. \A w \in Windows : WindowInv(w)'
      BY <2>1, OtherWindow, OwnWindow DEF IInv
    <3> QED
      BY <2>1, <3>1, <3>2, LogStep DEF IInv
  <2>2. CASE UNCHANGED vars
    BY <2>2 DEF vars, instanceVars, sharedVars, IInv, TypeOK, LogInv, LogLost, Past,
                Closed, WindowInv, Early, Middle, Late, EncoderInv, GlxInv, Stray, DestroyInv,
                Running
  <2>3. CASE VglXErrorFunc
    BY <2>3 DEF VglXErrorFunc, instanceVars, sharedVars, IInv, TypeOK, LogInv, LogLost, Past,
                Closed, WindowInv, Early, Middle, Late, EncoderInv, GlxInv, Stray, DestroyInv,
                Running
  <2> QED
    BY <2>1, <2>2, <2>3 DEF Next
<1> QED
  BY <1>1, <1>2, PTL DEF Spec

-----------------------------------------------------------------------------
(* Every variable of PluginInstances keeps its type. *)
THEOREM TypeCorrect == Spec => []TypeOK
<1>1. IInv => TypeOK
  BY DEF IInv
<1> QED
  BY <1>1, Invariance, PTL

(* No encoder thread runs without its buffers, sockets and display. *)
THEOREM EncoderSafe == Spec => []NothingOutlives
<1>1. IInv => NothingOutlives
  BY DEF IInv, NothingOutlives, TypeOK, WindowInv, Middle, EncoderInv, GlxInv, Stray
<1> QED
  BY <1>1, Invariance, PTL

(* An RRTransInit that returns NULL leaves at most a GLX context behind.    *)
THEOREM FailedInit == Spec => []FailedInitClean
<1>1. ASSUME IInv, NEW w \in Windows, pc[w] = "none"
      PROVE  /\ built[w] = 0 /\ glx[w] <= inits[w]
             /\ ~context[w] /\ sockets[w] = 0 /\ ~display[w]
             /\ ~Running(w)
  <2>1. glx[w] \in Nat /\ inits[w] \in Nat
    BY <1>1 DEF IInv, TypeOK
  <2>2. Early(w) /\ EncoderInv(w) /\ GlxInv(w)
    BY <1>1 DEF IInv, WindowInv
  <2> QED
    BY <1>1, <2>1, <2>2 DEF Early, EncoderInv, GlxInv, Stray
<1>2. IInv => FailedInitClean
  BY <1>1 DEF FailedInitClean
<1> QED
  BY <1>2, Invariance, PTL

(* With any number of windows a log is forgotten only after a race of two   *)
(* of them, and the process dies of it only when RRTransDestroy has closed  *)
(* it or fopen has failed.                                                  *)
THEOREM LogKept == Spec => []LogLost
<1>1. IInv => LogLost
  BY DEF IInv, LogInv
<1> QED
  BY <1>1, Invariance, PTL

(* RRTransDestroy never returns: the context of VglMightyIPC is not closed  *)
(* (shared_mem_comm.cpp leaves the deletion of the sockets as a TODO).      *)
THEOREM DestroyNeverReturns ==
  Spec => [](\A w \in Windows : why[w] = "destroy" => pc[w] \in {"stop", "close"})
<1>1. IInv => \A w \in Windows : why[w] = "destroy" => pc[w] \in {"stop", "close"}
  BY DEF IInv, WindowInv, DestroyInv
<1> QED
  BY <1>1, Invariance, PTL

=============================================================================

----------------------------- MODULE ZmqBinding -----------------------------
(***************************************************************************)
(* zmq.hpp, the C++ binding through which VglMightyIPC uses ZeroMQ: which  *)
(* C++ object holds which context, socket and message of the C library,    *)
(* while objects are made, moved, swapped, closed and destroyed in any     *)
(* order.  The C library is external.                                      *)
(*                                                                         *)
(* A context_t or socket_t that is not there and one that holds nothing    *)
(* are the same here.  One of the socket_t is the member _monitor_socket   *)
(* of a monitor_t.                                                         *)
(***************************************************************************)
EXTENDS Integers, FiniteSets

CONSTANTS
  Contexts,    \* objects of class context_t
  Sockets,     \* objects of class socket_t
  Monitor,     \* one of them, _monitor_socket
  Messages,    \* objects of class message_t
  MaxContexts, \* bound: contexts the C library makes
  MaxHandles,  \* bound: sockets it makes
  MaxBlocks    \* bound: contents of messages it keeps at a time

ASSUME FiniteAssumption == IsFiniteSet(Messages)
ASSUME MonitorAssumption == Monitor \in Sockets
ASSUME BoundsAssumption ==
  MaxContexts \in Nat /\ MaxHandles \in Nat /\ MaxBlocks \in Nat

Null  == 0
Users == Sockets \ {Monitor}   \* the socket_t of the program

VARIABLES
  ptr,      \* ptr[c]: the C context that c holds
  handle,   \* handle[s]: _handle, the C socket that s holds
  ctxptr,   \* ctxptr[s]: the C context that s believes its socket is in
  assigned, \* the socket_t whose C socket came by the move assignment
  ref,      \* _socket of the monitor_t, the C socket that is monitored
  alive,    \* the C contexts that exist; addresses are used again
  down,     \* those that are shut down
  home,     \* home[h]: the C context of the C socket h, Null if it is not open
  block,    \* block[m]: what the message_t m holds
  refs      \* refs[b]: how often the C library thinks that b is held

contextVars == <<ptr, alive, down>>
socketVars  == <<handle, ctxptr, assigned, ref, home>>
messageVars == <<block, refs>>
vars == <<contextVars, socketVars, messageVars>>

-----------------------------------------------------------------------------
Blocks == 1 .. MaxBlocks
Empty  == 0
Gone   == -1   \* there is no message_t
Broken == -2   \* closed and not initialized again

Init ==
  /\ ptr = [c \in Contexts |-> Null] /\ alive = {} /\ down = {}
  /\ handle = [s \in Sockets |-> Null] /\ ctxptr = [s \in Sockets |-> Null]
  /\ assigned = {} /\ ref = Null
  /\ home = [h \in 1 .. MaxHandles |-> Null]
  /\ block = [m \in Messages |-> Gone]
  /\ refs = [b \in Blocks |-> 0]

(* f with the values of x and y exchanged *)
Swapped(f, x, y) == [f EXCEPT ![x] = f[y], ![y] = f[x]]

-----------------------------------------------------------------------------
(* context_t *)

(* zmq_ctx_new; a context_t() that throws changes nothing. *)
NewContext(c) ==
  /\ ptr[c] = Null
  /\ \E k \in (1 .. MaxContexts) \ alive :
       /\ 1 .. k - 1 \subseteq alive
       /\ ptr' = [ptr EXCEPT ![c] = k]
       /\ alive' = alive \cup {k}
  /\ UNCHANGED <<down, socketVars, messageVars>>

(* zmq_ctx_destroy waits until no socket is open in the context, for as     *)
(* long as that takes: close() calls it again after a signal.               *)
Terminate(k) ==
  /\ \A h \in DOMAIN home : home[h] # k \/ k = Null
  /\ alive' = alive \ {k} /\ down' = down \ {k}

(* close() and ~context_t() *)
CloseContext(c) ==
  /\ ptr[c] # Null
  /\ Terminate(ptr[c])
  /\ ptr' = [ptr EXCEPT ![c] = Null]
  /\ UNCHANGED <<socketVars, messageVars>>

(* operator=(context_t &&), the constructor if c holds nothing *)
MoveContext(c, rhs) ==
  /\ Terminate(ptr[c])
  /\ ptr' = Swapped([ptr EXCEPT ![c] = Null], c, rhs)
  /\ UNCHANGED <<socketVars, messageVars>>

SwapContexts(c, other) ==
  /\ ptr' = Swapped(ptr, c, other)
  /\ UNCHANGED <<alive, down, socketVars, messageVars>>

ShutdownContext(c) ==
  /\ ptr[c] # Null
  /\ down' = down \cup {ptr[c]}
  /\ UNCHANGED <<ptr, alive, socketVars, messageVars>>

-----------------------------------------------------------------------------
(* socket_t *)

(* zmq_socket(k, type) returns h.  It returns NULL for no context or one    *)
(* that is shut down; error_t is thrown then.                               *)
zmq_socket(k, h) ==
  /\ k \in alive \ down
  /\ home[h] = Null /\ \A g \in 1 .. h - 1 : home[g] # Null

NewSocket(s, c) ==
  \E h \in DOMAIN home :
    /\ handle[s] = Null
    /\ zmq_socket(ptr[c], h)
    /\ home' = [home EXCEPT ![h] = ptr[c]]
    /\ handle' = [handle EXCEPT ![s] = h]
    /\ ctxptr' = [ctxptr EXCEPT ![s] = ptr[c]]
    /\ assigned' = assigned \ {s}
    /\ UNCHANGED <<ref, contextVars, messageVars>>

(* home after close() of s *)
ClosedHome(s) == [h \in DOMAIN home |-> IF h = handle[s] THEN Null ELSE home[h]]

(* close() and ~socket_t() *)
CloseSocket(s) ==
  /\ handle[s] # Null
  /\ home' = ClosedHome(s)
  /\ handle' = [handle EXCEPT ![s] = Null]
  /\ UNCHANGED <<ctxptr, assigned, ref, contextVars, messageVars>>

(* socket_t(socket_t &&) *)
MoveConstructSocket(s, rhs) ==
  /\ s # rhs /\ handle[s] = Null
  /\ handle' = Swapped(handle, s, rhs)
  /\ ctxptr' = [ctxptr EXCEPT ![s] = ctxptr[rhs], ![rhs] = Null]
  /\ assigned' = IF rhs \in assigned THEN (assigned \cup {s}) \ {rhs} ELSE assigned \ {s}
  /\ UNCHANGED <<ref, home, contextVars, messageVars>>

(* Variant: the socket that s has is not closed. *)
MoveAssignSocketLeak(s, rhs) ==
  /\ home' = home
  /\ handle' = [handle EXCEPT ![s] = handle[rhs], ![rhs] = Null]
  /\ assigned' = (assigned \cup {s}) \ {rhs}
  /\ UNCHANGED <<ctxptr, ref, contextVars, messageVars>>

(* operator=(socket_t &&) exchanges the handles and not ctxptr. *)
MoveAssignSocket(s, rhs) ==
  /\ home' = ClosedHome(s)
  /\ handle' = Swapped([handle EXCEPT ![s] = Null], s, rhs)
  /\ assigned' = (assigned \cup {s}) \ {rhs}
  /\ UNCHANGED <<ctxptr, ref, contextVars, messageVars>>

SwapSockets(s, other) ==
  /\ handle' = Swapped(handle, s, other)
  /\ ctxptr' = Swapped(ctxptr, s, other)
  /\ assigned' = {t \in Sockets : \/ t = s /\ other \in assigned
                                  \/ t = other /\ s \in assigned
                                  \/ t \notin {s, other} /\ t \in assigned}
  /\ UNCHANGED <<ref, home, contextVars, messageVars>>

-----------------------------------------------------------------------------
(* monitor_t *)

(* init(): the pair socket is made in the context that s believes in, and   *)
(* then assigned to _monitor_socket, whose last C socket that closes.  When *)
(* it cannot be made, or not connected, s counts as monitored all the same. *)
InitMonitor(s) ==
  /\ handle[s] # Null
  /\ ref' = handle[s]
  /\ \/ \E h \in DOMAIN home :
          /\ zmq_socket(ctxptr[s], h)
          /\ home' = [ClosedHome(Monitor) EXCEPT ![h] = ctxptr[s]]
          /\ handle' = [handle EXCEPT ![Monitor] = h]
          /\ assigned' = assigned \cup {Monitor}
     \/ UNCHANGED <<home, handle, assigned>>
  /\ UNCHANGED <<ctxptr, contextVars, messageVars>>

(* abort() *)
AbortMonitor ==
  /\ ref # Null /\ ref' = Null
  /\ UNCHANGED <<handle, ctxptr, assigned, home, contextVars, messageVars>>

(* close() and ~monitor_t() *)
CloseMonitor ==
  /\ ref' = Null
  /\ home' = ClosedHome(Monitor)
  /\ handle' = [handle EXCEPT ![Monitor] = Null]
  /\ UNCHANGED <<ctxptr, assigned, contextVars, messageVars>>

-----------------------------------------------------------------------------
(* message_t.  Held by two messages, after copy(), a content is freed when  *)
(* both are closed.                                                         *)

There(m) == block[m] # Gone

(* refs after m is closed, and then b is held once more *)
Refs(m, b) ==
  [x \in Blocks |-> refs[x] + (IF x = b THEN 1 ELSE 0) - (IF x = block[m] THEN 1 ELSE 0)]

Hold(m, b) == block' = [block EXCEPT ![m] = b] /\ refs' = Refs(m, b)

(* the next content that the C library makes *)
Fresh(b) == refs[b] = 0 /\ \A x \in 1 .. b - 1 : refs[x] # 0

(* message_t() and message_t(size) *)
NewMessage(m) ==
  /\ ~There(m)
  /\ \E b \in {Empty} \cup {x \in Blocks : Fresh(x)} : Hold(m, b)
  /\ UNCHANGED <<contextVars, socketVars>>

(* ~message_t(); of a Broken message the assertion fails. *)
DestroyMessage(m) ==
  /\ There(m) /\ block[m] # Broken
  /\ Hold(m, Gone)
  /\ UNCHANGED <<contextVars, socketVars>>

(* rebuild(): the message is closed, and may then not be initialized. *)
Rebuild(m) ==
  /\ There(m) /\ block[m] # Broken
  /\ \E b \in {Empty, Broken} \cup {x \in Blocks : Fresh(x)} : Hold(m, b)
  /\ UNCHANGED <<contextVars, socketVars>>

(* Variant: the message that is moved from is not initialized again. *)
MoveConstructMessageTwice(m, rhs) ==
  /\ ~There(m) /\ There(rhs)
  /\ block' = [block EXCEPT ![m] = block[rhs]]
  /\ UNCHANGED <<refs, contextVars, socketVars>>

(* message_t(message_t &&) *)
MoveConstructMessage(m, rhs) ==
  /\ ~There(m) /\ There(rhs)
  /\ block' = [block EXCEPT ![m] = block[rhs], ![rhs] = Empty]
  /\ UNCHANGED <<refs, contextVars, socketVars>>

(* operator=(message_t &&) and swap() *)
SwapMessages(m, other) ==
  /\ There(m) /\ There(other)
  /\ block' = Swapped(block, m, other)
  /\ UNCHANGED <<refs, contextVars, socketVars>>

(* move() *)
MoveMessage(m, from) ==
  /\ m # from /\ There(m) /\ There(from) /\ Broken \notin {block[m], block[from]}
  /\ refs' = Refs(m, Empty)
  /\ block' = [block EXCEPT ![m] = block[from], ![from] = Empty]
  /\ UNCHANGED <<contextVars, socketVars>>

(* copy() *)
CopyMessage(m, from) ==
  /\ m # from /\ There(m) /\ There(from) /\ Broken \notin {block[m], block[from]}
  /\ Hold(m, block[from])
  /\ UNCHANGED <<contextVars, socketVars>>

(* A call for a C socket, of a context that is not shut down.  Otherwise,   *)
(* or if the call fails, error_t is thrown.                                 *)
Usable(s) == handle[s] # Null /\ home[handle[s]] \notin down

(* send() leaves the message to the C library, and itself empty; when it    *)
(* would have to wait, or throws, the message stays as it is.               *)
Send(s, m) ==
  /\ Usable(s) /\ There(m) /\ block[m] # Broken
  /\ Hold(m, Empty)
  /\ UNCHANGED <<contextVars, socketVars>>

Recv(s, m) ==
  /\ Usable(s) /\ There(m) /\ block[m] # Broken
  /\ \E b \in Blocks : Fresh(b) /\ Hold(m, b)
  /\ UNCHANGED <<contextVars, socketVars>>

-----------------------------------------------------------------------------
ContextCalls ==
  \E c \in Contexts :
    \/ NewContext(c) \/ CloseContext(c) \/ ShutdownContext(c)
    \/ \E d \in Contexts : MoveContext(c, d) \/ SwapContexts(c, d)

SocketCalls ==
  \E s \in Users :
    \/ CloseSocket(s)
    \/ \E c \in Contexts : NewSocket(s, c)
    \/ \E t \in Users :
         MoveConstructSocket(s, t) \/ MoveAssignSocket(s, t) \/ SwapSockets(s, t)

MessageCalls ==
  \E m \in Messages :
    \/ NewMessage(m) \/ DestroyMessage(m) \/ Rebuild(m)
    \/ \E n \in Messages :
         \/ MoveConstructMessage(m, n) \/ SwapMessages(m, n)
         \/ MoveMessage(m, n) \/ CopyMessage(m, n)
    \/ \E s \in Users : Send(s, m) \/ Recv(s, m)

MonitorCalls == AbortMonitor \/ CloseMonitor \/ \E s \in Users : InitMonitor(s)

Next == ContextCalls \/ SocketCalls \/ MonitorCalls \/ MessageCalls

Spec == Init /\ [][Next]_vars

-----------------------------------------------------------------------------
(* Properties *)

(* Objects do not share what they hold: f is one-to-one where it is not Null. *)
Exclusive(f) == \A x, y \in DOMAIN f : f[x] = f[y] => x = y \/ f[x] = Null

(* However objects are moved and swapped, each context and each socket of   *)
(* the C library that is open is held by exactly one object, and no object  *)
(* holds one that is closed: nothing is closed twice, nothing leaks.  No    *)
(* context goes before its sockets.  A socket that did not come by the move *)
(* assignment knows its context.                                            *)
HandlesOwned ==
  /\ Exclusive(ptr) /\ {ptr[c] : c \in Contexts} \ {Null} = alive
  /\ Exclusive(handle)
  /\ {handle[s] : s \in Sockets} \ {Null} = {h \in DOMAIN home : home[h] # Null}
  /\ {home[h] : h \in DOMAIN home} \subseteq alive \cup {Null}
  /\ \A s \in Sockets \ assigned : handle[s] # Null => ctxptr[s] = home[handle[s]]

(* The C library counts for every content the message_t that hold it: none  *)
(* is freed while it is held, and none is kept when the last one is gone.   *)
BlocksCounted ==
  \A b \in Blocks : refs[b] = Cardinality({m \in Messages : block[m] = b})

=============================================================================

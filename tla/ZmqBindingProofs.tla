-------------------------- MODULE ZmqBindingProofs --------------------------
(* Who owns what in zmq.hpp, for any number of objects, handles and         *)
(* contents.                                                                *)
EXTENDS ZmqBinding, FiniteSetTheorems, TLAPS

(* HandlesOwned, object by object *)
ContextInv ==
  /\ ptr \in [Contexts -> Nat] /\ alive \subseteq Nat \ {Null}
  /\ \A c, d \in Contexts : ptr[c] = ptr[d] => c = d \/ ptr[c] = Null
  /\ \A c \in Contexts : ptr[c] # Null => ptr[c] \in alive
  /\ \A k \in alive : \E c \in Contexts : ptr[c] = k

(* Each C socket that is open is held by exactly one socket_t, and no other *)
(* is: held is handle and opened is home, before or after a call.           *)
Owns(held, opened) ==
  /\ held \in [Sockets -> Nat] /\ opened \in [1 .. MaxHandles -> Nat]
  /\ \A s, t \in Sockets : held[s] = held[t] => s = t \/ held[s] = Null
  /\ \A s \in Sockets :
       held[s] # Null => held[s] \in 1 .. MaxHandles /\ opened[held[s]] # Null
  /\ \A h \in 1 .. MaxHandles : opened[h] # Null => \E s \in Sockets : held[s] = h

SocketInv ==
  /\ Owns(handle, home)
  /\ \A h \in 1 .. MaxHandles : home[h] # Null => home[h] \in alive
  /\ ctxptr \in [Sockets -> Nat]
  /\ \A s \in Sockets \ assigned : handle[s] # Null => ctxptr[s] = home[handle[s]]

(* How many messages hold b *)
Count(held, b) == Cardinality({m \in Messages : held[m] = b})

MessageInv ==
  /\ block \in [Messages -> Int] /\ refs \in [Blocks -> Int]
  /\ \A b \in Blocks : refs[b] = Count(block, b)

USE FiniteAssumption, MonitorAssumption, BoundsAssumption
USE DEF Null, Users, Blocks, contextVars, socketVars, messageVars

-----------------------------------------------------------------------------
(* Contexts *)

(* Every step preserves that contexts are held by one object each. *)
LEMMA ContextStep ==
  ASSUME ContextInv, [Next]_vars
  PROVE  ContextInv'
<1>1. CASE UNCHANGED contextVars
  BY <1>1 DEF ContextInv
<1>2. ASSUME NEW c \in Contexts, NewContext(c) PROVE ContextInv'
  BY <1>2 DEF NewContext, ContextInv
<1>3. ASSUME NEW c \in Contexts, CloseContext(c) PROVE ContextInv'
  BY <1>3 DEF CloseContext, Terminate, ContextInv
<1>4. ASSUME NEW c \in Contexts, ShutdownContext(c) PROVE ContextInv'
  BY <1>4 DEF ShutdownContext, ContextInv
<1>5. ASSUME NEW c \in Contexts, NEW d \in Contexts, MoveContext(c, d) PROVE ContextInv'
  BY <1>5 DEF MoveContext, Terminate, Swapped, ContextInv
<1>6. ASSUME NEW c \in Contexts, NEW d \in Contexts, SwapContexts(c, d) PROVE ContextInv'
  BY <1>6 DEF SwapContexts, Swapped, ContextInv
<1>7. CASE SocketCalls \/ MonitorCalls \/ MessageCalls
  BY <1>1, <1>7 DEF SocketCalls, CloseSocket, NewSocket, MoveConstructSocket,
     MoveAssignSocket, SwapSockets, MonitorCalls, AbortMonitor, CloseMonitor,
     InitMonitor, MessageCalls, NewMessage, DestroyMessage, Rebuild,
     MoveConstructMessage, SwapMessages, MoveMessage, CopyMessage, Send, Recv
<1> QED
  BY <1>1, <1>2, <1>3, <1>4, <1>5, <1>6, <1>7 DEF Next, ContextCalls, vars

-----------------------------------------------------------------------------
(* Sockets *)

(* What contexts do leaves the sockets with their holders. *)
LEMMA SocketContextStep ==
  ASSUME SocketInv, ContextInv, ContextCalls
  PROVE  SocketInv'
<1>1. UNCHANGED socketVars
  BY DEF ContextCalls, NewContext, CloseContext, ShutdownContext, MoveContext,
         SwapContexts
<1>2. \A h \in 1 .. MaxHandles : home[h] \in alive => home[h] \in alive'
  BY DEF ContextCalls, NewContext, CloseContext, ShutdownContext, MoveContext,
         SwapContexts, Terminate, SocketInv, Owns, ContextInv
<1> QED
  BY <1>1, <1>2 DEF SocketInv

(* Two sockets that swap what they hold own it as before. *)
LEMMA OwnsSwapped ==
  ASSUME NEW held, NEW opened, Owns(held, opened), NEW s \in Sockets, NEW t \in Sockets
  PROVE  Owns(Swapped(held, s, t), opened)
<1> DEFINE w == Swapped(held, s, t)
           turn(x) == IF x = s THEN t ELSE IF x = t THEN s ELSE x
<1>1. w \in [Sockets -> Nat]
  BY DEF Swapped, Owns
<1>2. \A x \in Sockets : w[x] = held[turn(x)]
  BY DEF Swapped, Owns
<1>3. /\ \A x \in Sockets : turn(x) \in Sockets /\ turn(turn(x)) = x
      /\ \A x, y \in Sockets : turn(x) = turn(y) => x = y
  OBVIOUS
<1> HIDE DEF w, turn
<1>4. \A x, y \in Sockets : w[x] = w[y] => x = y \/ w[x] = Null
  BY <1>2, <1>3 DEF Owns
<1>5. \A x \in Sockets :
        w[x] # Null => w[x] \in 1 .. MaxHandles /\ opened[w[x]] # Null
  BY <1>2, <1>3 DEF Owns
<1>6. ASSUME NEW h \in 1 .. MaxHandles, opened[h] # Null
      PROVE  \E x \in Sockets : w[x] = h
  <2>1. PICK x \in Sockets : held[x] = h
    BY <1>6 DEF Owns
  <2>2. w[turn(x)] = h /\ turn(x) \in Sockets
    BY <2>1, <1>2, <1>3
  <2> QED
    BY <2>2
<1>7. Owns(w, opened)
  BY <1>1, <1>4, <1>5, <1>6 DEF Owns
<1> QED
  BY <1>7 DEF w

(* A socket that closes what it holds leaves the others as they were. *)
LEMMA OwnsClosed ==
  ASSUME NEW held, NEW opened, Owns(held, opened), NEW s \in Sockets
  PROVE  Owns([held EXCEPT ![s] = Null],
              [h \in DOMAIN opened |-> IF h = held[s] THEN Null ELSE opened[h]])
  BY DEF Owns

(* A socket that holds nothing opens what nobody holds. *)
LEMMA OwnsOpened ==
  ASSUME NEW held, NEW opened, Owns(held, opened),
         NEW s \in Sockets, held[s] = Null,
         NEW h \in 1 .. MaxHandles, opened[h] = Null, NEW k \in Nat, k # Null
  PROVE  Owns([held EXCEPT ![s] = h], [opened EXCEPT ![h] = k])
  BY DEF Owns

(* What sockets do preserves that they are held by one object each. *)
LEMMA SocketStep ==
  ASSUME SocketInv, ContextInv, SocketCalls
  PROVE  SocketInv'
<1>1. ASSUME NEW s \in Users, CloseSocket(s) PROVE SocketInv'
  <2>1. Owns([handle EXCEPT ![s] = Null], ClosedHome(s))
    BY OwnsClosed DEF ClosedHome, SocketInv
  <2>2. Owns(handle, home)'
    BY <1>1, <2>1 DEF CloseSocket
  <2> QED
    BY <1>1, <2>2 DEF CloseSocket, ClosedHome, SocketInv, Owns
<1>2. ASSUME NEW s \in Users, NEW c \in Contexts, NewSocket(s, c) PROVE SocketInv'
  <2>1. PICK h \in 1 .. MaxHandles :
          /\ handle[s] = Null /\ zmq_socket(ptr[c], h)
          /\ home' = [home EXCEPT ![h] = ptr[c]] /\ handle' = [handle EXCEPT ![s] = h]
          /\ ctxptr' = [ctxptr EXCEPT ![s] = ptr[c]] /\ assigned' = assigned \ {s}
          /\ UNCHANGED alive
    BY <1>2 DEF NewSocket, SocketInv, Owns
  <2>2. ptr[c] \in alive /\ ptr[c] \in Nat /\ ptr[c] # Null /\ home[h] = Null
    BY <2>1 DEF zmq_socket, ContextInv
  <2>3. Owns(handle, home)'
    BY <2>1, <2>2, OwnsOpened DEF SocketInv
  <2> QED
    BY <2>1, <2>2, <2>3 DEF SocketInv, Owns
<1>3. ASSUME NEW s \in Users, NEW t \in Users, MoveConstructSocket(s, t) PROVE SocketInv'
  <2>1. Owns(handle, home)'
    BY <1>3, OwnsSwapped DEF MoveConstructSocket, SocketInv
  <2> QED
    BY <1>3, <2>1 DEF MoveConstructSocket, Swapped, SocketInv, Owns
<1>4. ASSUME NEW s \in Users, NEW t \in Users, MoveAssignSocket(s, t) PROVE SocketInv'
  <2>1. Owns([handle EXCEPT ![s] = Null], ClosedHome(s))
    BY OwnsClosed DEF ClosedHome, SocketInv
  <2>2. Owns(handle, home)'
    BY <1>4, <2>1, OwnsSwapped DEF MoveAssignSocket
  <2>3. \A x \in Sockets \ {s, t} :
          handle'[x] = handle[x] /\ (handle[x] # Null => home'[handle[x]] = home[handle[x]])
    BY <1>4 DEF MoveAssignSocket, ClosedHome, Swapped, SocketInv, Owns
  <2>4. \A h \in 1 .. MaxHandles : home'[h] # Null => home'[h] \in alive'
    BY <1>4 DEF MoveAssignSocket, ClosedHome, SocketInv, Owns
  <2>5. handle'[t] = Null
    BY <1>4 DEF MoveAssignSocket, Swapped, SocketInv, Owns
  <2> QED
    BY <1>4, <2>2, <2>3, <2>4, <2>5 DEF MoveAssignSocket, SocketInv
<1>5. ASSUME NEW s \in Users, NEW t \in Users, SwapSockets(s, t) PROVE SocketInv'
  <2>1. Owns(handle, home)'
    BY <1>5, OwnsSwapped DEF SwapSockets, SocketInv
  <2>2. ctxptr' \in [Sockets -> Nat]
    BY <1>5 DEF SwapSockets, Swapped, SocketInv
  <2>3. \A x \in Sockets : \E y \in Sockets :
          /\ handle'[x] = handle[y] /\ ctxptr'[x] = ctxptr[y]
          /\ x \in assigned' <=> y \in assigned
    BY <1>5 DEF SwapSockets, Swapped, SocketInv, Owns
  <2> QED
    BY <1>5, <2>1, <2>2, <2>3 DEF SwapSockets, SocketInv
<1> QED
  BY <1>1, <1>2, <1>3, <1>4, <1>5 DEF SocketCalls

(* A monitor's socket is held by the monitor alone. *)
LEMMA MonitorStep ==
  ASSUME SocketInv, ContextInv, MonitorCalls
  PROVE  SocketInv'
<1>1. Owns([handle EXCEPT ![Monitor] = Null], ClosedHome(Monitor))
  BY OwnsClosed DEF ClosedHome, SocketInv
<1>2. CASE AbortMonitor
  BY <1>2 DEF AbortMonitor, SocketInv
<1>3. CASE CloseMonitor
  BY <1>1, <1>3 DEF CloseMonitor, ClosedHome, SocketInv, Owns
<1>4. ASSUME NEW s \in Users, InitMonitor(s) PROVE SocketInv'
  <2>1. CASE UNCHANGED <<home, handle, assigned>>
    BY <1>4, <2>1 DEF InitMonitor, SocketInv
  <2>2. ASSUME NEW h \in 1 .. MaxHandles,
               zmq_socket(ctxptr[s], h),
               home' = [ClosedHome(Monitor) EXCEPT ![h] = ctxptr[s]],
               handle' = [handle EXCEPT ![Monitor] = h],
               assigned' = assigned \cup {Monitor}
        PROVE  SocketInv'
    <3>1. /\ ctxptr[s] \in alive /\ ctxptr[s] \in Nat /\ ctxptr[s] # Null
          /\ home[h] = Null /\ ClosedHome(Monitor)[h] = Null
      BY <2>2 DEF zmq_socket, ClosedHome, ContextInv, SocketInv, Owns
    <3>2. handle' = [[handle EXCEPT ![Monitor] = Null] EXCEPT ![Monitor] = h]
      BY <2>2 DEF SocketInv, Owns
    <3>3. Owns(handle, home)'
      BY <1>1, <2>2, <3>1, <3>2, OwnsOpened DEF SocketInv, Owns
    <3>4. \A g \in 1 .. MaxHandles : home'[g] # Null => home'[g] \in alive
      BY <2>2, <3>1 DEF ClosedHome, SocketInv, Owns
    <3>5. \A x \in Sockets \ {Monitor} :
            handle'[x] = handle[x] /\ (handle[x] # Null => home'[handle[x]] = home[handle[x]])
      BY <2>2, <3>1 DEF ClosedHome, SocketInv, Owns
    <3>6. UNCHANGED <<ctxptr, alive>>
      BY <1>4 DEF InitMonitor
    <3> QED
      BY <2>2, <3>3, <3>4, <3>5, <3>6 DEF SocketInv
  <2> QED
    BY <1>4, <2>1, <2>2 DEF InitMonitor, SocketInv, Owns
<1> QED
  BY <1>2, <1>3, <1>4 DEF MonitorCalls

-----------------------------------------------------------------------------
(* Messages *)

(* f becomes g when m is given v to hold. *)
Given(f, g, m, v) == f \in [Messages -> Int] /\ g = [f EXCEPT ![m] = v]

(* What becomes of the count then *)
LEMMA CountExcept ==
  ASSUME NEW f, NEW g, NEW m \in Messages, NEW v, NEW x, Given(f, g, m, v)
  PROVE  Count(g, x)
           = Count(f, x) + (IF x = v THEN 1 ELSE 0) - (IF x = f[m] THEN 1 ELSE 0)
<1> DEFINE S == {n \in Messages : f[n] = x}
           G == {n \in Messages : g[n] = x}
<1>1. IsFiniteSet(S)
  BY FS_Subset
<1>2. G = IF x = v THEN S \cup {m} ELSE S \ {m}
  BY DEF Given
<1>3. m \in S <=> f[m] = x
  OBVIOUS
<1>4. Cardinality(G) = Cardinality(S) + (IF x = v THEN 1 ELSE 0)
                                      - (IF x = f[m] THEN 1 ELSE 0)
  <2> HIDE DEF S, G
  <2>1. Cardinality(S) \in Nat
    BY <1>1, FS_CardinalityType
  <2>2. Cardinality(S \cup {m}) = IF m \in S THEN Cardinality(S) ELSE Cardinality(S) + 1
    BY <1>1, FS_AddElement
  <2>3. Cardinality(S \ {m}) = IF m \in S THEN Cardinality(S) - 1 ELSE Cardinality(S)
    BY <1>1, FS_RemoveElement
  <2> QED
    BY <1>2, <1>3, <2>1, <2>2, <2>3
<1> QED
  BY <1>4 DEF Count

(* A count is a number. *)
LEMMA CountType ==
  ASSUME NEW f, NEW x
  PROVE  Count(f, x) \in Int
<1>1. Cardinality({m \in Messages : f[m] = x}) \in Nat
  BY FS_Subset, FS_CardinalityType
<1> QED
  BY <1>1 DEF Count

(* A message that holds another content is counted there and no more where  *)
(* it was.                                                                  *)
LEMMA HoldStep ==
  ASSUME MessageInv, NEW m \in Messages, NEW b \in Int, Hold(m, b)
  PROVE  MessageInv'
<1>1. block' \in [Messages -> Int] /\ refs' \in [Blocks -> Int]
  BY DEF MessageInv, Hold, Refs
<1>2. ASSUME NEW x \in Blocks
      PROVE  refs'[x] = Count(block', x)
  <2>1. refs'[x] = refs[x] + (IF x = b THEN 1 ELSE 0) - (IF x = block[m] THEN 1 ELSE 0)
    BY DEF Hold, Refs
  <2>2. Count(block', x)
          = Count(block, x) + (IF x = b THEN 1 ELSE 0) - (IF x = block[m] THEN 1 ELSE 0)
    <3>1. Given(block, block', m, b)
      BY DEF MessageInv, Hold, Given
    <3> QED
      BY <3>1, CountExcept
  <2> QED
    BY <2>1, <2>2 DEF MessageInv
<1> QED
  BY <1>1, <1>2 DEF MessageInv

(* m gives up what it holds, other gives m what it holds and gets b. *)
LEMMA MoveStep ==
  ASSUME MessageInv, NEW m \in Messages, NEW other \in Messages, NEW b \in Int,
         block' = [block EXCEPT ![m] = block[other], ![other] = b],
         refs' = [x \in Blocks |->
                    refs[x] + (IF x = b THEN 1 ELSE 0) - (IF x = block[m] THEN 1 ELSE 0)]
  PROVE  MessageInv'
<1> DEFINE g == [block EXCEPT ![m] = block[other]]
<1>1. /\ block \in [Messages -> Int] /\ block' \in [Messages -> Int]
      /\ g \in [Messages -> Int] /\ refs' \in [Blocks -> Int] /\ Blocks \subseteq Int
  BY DEF MessageInv
<1>2. block' = [g EXCEPT ![other] = b] /\ g[other] = block[other] /\ block[other] \in Int
  BY DEF MessageInv
<1>3. ASSUME NEW x \in Blocks
      PROVE  refs'[x] = Count(block', x)
  <2>1. Count(g, x)
          = Count(block, x) + (IF x = block[other] THEN 1 ELSE 0)
                            - (IF x = block[m] THEN 1 ELSE 0)
    <3>1. Given(block, g, m, block[other])
      BY <1>1 DEF Given
    <3> HIDE DEF g
    <3> QED
      BY <3>1, CountExcept
  <2>2. refs'[x] = refs[x] + (IF x = b THEN 1 ELSE 0) - (IF x = block[m] THEN 1 ELSE 0)
    OBVIOUS
  <2> HIDE DEF g
  <2>3. Count(block', x)
          = Count(g, x) + (IF x = b THEN 1 ELSE 0) - (IF x = g[other] THEN 1 ELSE 0)
    <3>1. Given(g, block', other, b)
      BY <1>1, <1>2 DEF Given
    <3> QED
      BY <3>1, CountExcept
  <2>4. refs[x] = Count(block, x) /\ Count(block, x) \in Int
    BY CountType DEF MessageInv
  <2> QED
    BY <1>2, <2>1, <2>2, <2>3, <2>4
<1> QED
  BY <1>1, <1>3 DEF MessageInv

(* Every step preserves that contents are counted right. *)
LEMMA MessageStep ==
  ASSUME MessageInv, [Next]_vars
  PROVE  MessageInv'
<1> USE DEF There, Gone, Broken, Empty
<1>1. CASE UNCHANGED messageVars
  BY <1>1 DEF MessageInv
<1>2. CASE ContextCalls \/ SocketCalls \/ MonitorCalls
  BY <1>1, <1>2 DEF ContextCalls, NewContext, CloseContext, ShutdownContext,
     MoveContext, SwapContexts, SocketCalls, CloseSocket, NewSocket,
     MoveConstructSocket, MoveAssignSocket, SwapSockets, MonitorCalls, AbortMonitor,
     CloseMonitor, InitMonitor
<1>3. ASSUME NEW m \in Messages,
             \/ NewMessage(m) \/ DestroyMessage(m) \/ Rebuild(m)
             \/ \E n \in Messages : CopyMessage(m, n)
             \/ \E s \in Users : Send(s, m) \/ Recv(s, m)
      PROVE  MessageInv'
  <2>1. \E b \in Int : Hold(m, b)
    BY <1>3 DEF NewMessage, DestroyMessage, Rebuild, CopyMessage, Send, Recv, MessageInv
  <2> QED
    BY <2>1, HoldStep
<1>4. ASSUME NEW m \in Messages, NEW n \in Messages,
             MoveConstructMessage(m, n) \/ SwapMessages(m, n) \/ MoveMessage(m, n)
      PROVE  MessageInv'
  <2>1. CASE MoveConstructMessage(m, n)
    <3>1. refs' = [x \in Blocks |-> refs[x] + (IF x = Empty THEN 1 ELSE 0)
                                            - (IF x = block[m] THEN 1 ELSE 0)]
      BY <2>1 DEF MoveConstructMessage, MessageInv
    <3>2. block' = [block EXCEPT ![m] = block[n], ![n] = Empty] /\ Empty \in Int
      BY <2>1 DEF MoveConstructMessage
    <3> HIDE DEF Empty
    <3> QED
      BY <3>1, <3>2, MoveStep
  <2>2. CASE SwapMessages(m, n)
    <3>1. refs' = [x \in Blocks |-> refs[x] + (IF x = block[m] THEN 1 ELSE 0)
                                            - (IF x = block[m] THEN 1 ELSE 0)]
      BY <2>2 DEF SwapMessages, MessageInv
    <3>2. block[m] \in Int
      BY DEF MessageInv
    <3> QED
      BY <2>2, <3>1, <3>2, MoveStep DEF SwapMessages, Swapped
  <2>3. CASE MoveMessage(m, n)
    <3>1. /\ block' = [block EXCEPT ![m] = block[n], ![n] = Empty] /\ Empty \in Int
          /\ refs' = [x \in Blocks |-> refs[x] + (IF x = Empty THEN 1 ELSE 0)
                                             - (IF x = block[m] THEN 1 ELSE 0)]
      BY <2>3 DEF MoveMessage, Refs
    <3> HIDE DEF Empty
    <3> QED
      BY <3>1, MoveStep
  <2> QED
    BY <1>4, <2>1, <2>2, <2>3
<1> QED
  BY <1>1, <1>2, <1>3, <1>4 DEF Next, MessageCalls, vars

-----------------------------------------------------------------------------
IInv == ContextInv /\ SocketInv /\ MessageInv

(* All begins with nothing of ZeroMQ. *)
LEMMA Start == Init => IInv
<1> SUFFICES ASSUME Init PROVE IInv
  OBVIOUS
<1>1. ContextInv /\ SocketInv
  BY DEF Init, ContextInv, SocketInv, Owns
<1>2. MessageInv
  <2>1. ASSUME NEW b \in Blocks
        PROVE  refs[b] = Count(block, b)
    <3>1. {m \in Messages : block[m] = b} = {}
      BY DEF Init, Gone
    <3> QED
      BY <3>1, FS_EmptySet DEF Init, Count
  <2>2. block \in [Messages -> Int] /\ refs \in [Blocks -> Int]
    BY DEF Init, Gone
  <2> QED
    BY <2>1, <2>2 DEF MessageInv
<1> QED
  BY <1>1, <1>2 DEF IInv

(* Every step preserves the inductive invariant. *)
LEMMA Step ==
  ASSUME IInv, [Next]_vars
  PROVE  IInv'
<1>1. SocketInv'
  <2>1. CASE MessageCalls \/ UNCHANGED vars
    BY <2>1 DEF IInv, SocketInv, MessageCalls, NewMessage, DestroyMessage, Rebuild,
       MoveConstructMessage, SwapMessages, MoveMessage, CopyMessage, Send, Recv, vars
  <2> QED
    BY <2>1, SocketContextStep, SocketStep, MonitorStep DEF IInv, Next
<1> QED
  BY <1>1, ContextStep, MessageStep DEF IInv

(* The inductive invariant holds in every state. *)
THEOREM Invariance == Spec => []IInv
  BY Start, Step, PTL DEF Spec

(* However objects are moved, swapped, closed and destroyed, each context   *)
(* and each socket of the C library is held by exactly one of them.         *)
THEOREM Ownership == Spec => []HandlesOwned
<1>1. IInv => HandlesOwned
  BY DEF IInv, ContextInv, SocketInv, Owns, HandlesOwned, Exclusive
<1> QED
  BY <1>1, Invariance, PTL

(* No content of a message is freed too early or kept for ever. *)
THEOREM Counted == Spec => []BlocksCounted
<1>1. IInv => BlocksCounted
  BY DEF IInv, MessageInv, Count, BlocksCounted
<1> QED
  BY <1>1, Invariance, PTL

=============================================================================

------------------------------- MODULE NvIFR -------------------------------
(***************************************************************************)
(* The part of NvIFR that is used, as NvIFROpenGL.h describes it: one      *)
(* session, and transfer objects (hardware encoders) made in it.  Each     *)
(* transfer of a framebuffer puts a segment of the bitstream into the      *)
(* queue of its object; the segments are locked, and so read, one by one.  *)
(*                                                                         *)
(* An operator that is named for a call says what the call does when it    *)
(* succeeds, whoever makes it; a call that fails does nothing.  Each call   *)
(* leaves a trace in misused when the client should not have made it, also  *)
(* if nothing else comes of it.  The clients' modules are built from these  *)
(* operators, and have to implement Spec, in which every call may be made.  *)
(*                                                                         *)
(* The header says which handles a call takes and when a context has to be *)
(* current.  Two rules are only those of the part that is used: there is    *)
(* one session at a time, and its objects are destroyed before it.          *)
(***************************************************************************)
EXTENDS Integers

CONSTANT Objects   \* transfer objects, numbered in the order they are created

VARIABLES
  open,    \* the session exists
  live,    \* the transfer objects that exist
  config,  \* config[o]: what o was created with, NoConfig before
  count,   \* count[o]: the frames transferred to o
  taken,   \* taken[o]: the segments of o locked so far, the last one included
  locked,  \* the objects whose data is locked, hence valid
  misused, \* the number of calls that the client should not have made
  current  \* the client's: a context is current, with the framebuffer in it

vars == <<open, live, config, count, taken, locked, misused>>

NoConfig == [size |-> 0, rate |-> 0]

Init ==
  /\ open = FALSE /\ live = {} /\ locked = {} /\ misused = 0
  /\ config = [o \in Objects |-> NoConfig]
  /\ count = [o \in Objects |-> 0] /\ taken = [o \in Objects |-> 0]

-----------------------------------------------------------------------------
Needs(rule) == misused' = IF rule THEN misused ELSE misused + 1

CreateSession ==
  /\ Needs(~open /\ current)
  /\ open' = TRUE
  /\ UNCHANGED <<live, config, count, taken, locked>>

DestroySession ==
  /\ Needs(open /\ live = {})
  /\ open' = FALSE
  /\ UNCHANGED <<live, config, count, taken, locked>>

CreateTransferToHwEncObject(o, c) ==
  /\ Needs(open)
  /\ live' = live \cup {o}
  /\ config' = [config EXCEPT ![o] = c]
  /\ UNCHANGED <<open, count, taken, locked>>

(* The data that is locked goes with its object. *)
DestroyTransferObject(o) ==
  /\ Needs(o \in live)
  /\ live' = live \ {o}
  /\ locked' = locked \ {o}
  /\ UNCHANGED <<open, config, count, taken>>

TransferFramebufferToHwEnc(o) ==
  /\ Needs(o \in live /\ current)
  /\ count' = [count EXCEPT ![o] = @ + 1]
  /\ UNCHANGED <<open, live, config, taken, locked>>

(* Each transfer has its segment: there is one in the queue to be locked.   *)
LockTransferData(o) ==
  /\ Needs(o \in live /\ taken[o] < count[o])
  /\ taken' = [taken EXCEPT ![o] = @ + 1]
  /\ locked' = locked \cup {o}
  /\ UNCHANGED <<open, live, config, count>>

ReleaseTransferData(o) ==
  /\ Needs(o \in locked)
  /\ locked' = locked \ {o}
  /\ UNCHANGED <<open, live, config, count, taken>>

-----------------------------------------------------------------------------
(* Objects are numbered in the order they are created. *)
Fresh(o) ==
  config[o] = NoConfig /\ \A p \in Objects : p < o => config[p] # NoConfig

CallSession == CreateSession \/ DestroySession

CallObject(o) ==
  \/ Fresh(o) /\ CreateTransferToHwEncObject(o, config'[o])
  \/ DestroyTransferObject(o)
  \/ TransferFramebufferToHwEnc(o)
  \/ LockTransferData(o)
  \/ ReleaseTransferData(o)

(* A call is made, and it may be. *)
Next ==
  /\ CallSession \/ \E o \in Objects : CallObject(o)
  /\ misused' = misused

Spec == Init /\ [][Next]_vars

=============================================================================

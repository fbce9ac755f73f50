----------------------------- MODULE MightyIPC -----------------------------
(***************************************************************************)
(* The protocol between the mighty server (mini_mighty.cpp) and the        *)
(* encoder threads of the plugin (GPUEncTrans::run), over the two sockets  *)
(* of VglMightyIPC (shared_mem_comm.cpp).                                  *)
(*                                                                         *)
(* Requests are published: a subscriber that is not connected to this      *)
(* server process misses them.  Responses are pushed: they wait in the     *)
(* encoder's process until a server is there, and outlive a server that is *)
(* killed.  ZeroMQ is external: connections come up in the background and  *)
(* each pipe is first in, first out and holds so many messages; the next   *)
(* one is dropped.                                                         *)
(*                                                                         *)
(* Messages carry one field that the program does not send: by, the server *)
(* process that a message was sent by, or that it answers.                 *)
(***************************************************************************)
EXTENDS Integers, SequencesExt

CONSTANTS
  Encoders,      \* the plugin instances, one for each window
  HWM,           \* messages a pipe holds (ZeroMQ's default, 1000, in the code)
  Patience,      \* the values patient may have
  Interruptible, \* bound: one of these may be interrupted by a signal, once
  MaxServers,    \* bound: server processes, one after the other
  MaxStarts      \* bound: starts of the application of one encoder

ASSUME BoundsAssumption == MaxServers \in Nat \ {0} /\ MaxStarts \in Nat \ {0}
ASSUME FiniteAssumption == IsFiniteSet(Encoders)
ASSUME PipeAssumption == HWM \in Nat \ {0}
ASSUME PatienceAssumption == Patience \subseteq BOOLEAN

VARIABLES
  server,     \* the current server process, 1 .. MaxServers
  spc,        \* where its main loop is
  shared_mem, \* the id of its segment
  linked,     \* linked[e]: the SUB socket of e is connected to this process
  proved,     \* proved[e]: this process has received a PONG of e for its own PING
  requests,   \* requests[e]: published, not yet received by e
  responses,  \* responses[e]: pushed by e, not yet received by a server
  epc,        \* epc[e]: "receive", "work" after a message; "failed" when the thread
              \* has ended, "dead" when its application has
  request,    \* request[e]: the message e is working on
  mem,        \* mem[e]: the id of the segment e has mapped, None before a RESTART
  starts,     \* starts[e]: how often the application of e was started
  dropped,    \* dropped[e]: this process has sent e a request it had no room for
  interrupted, \* who was interrupted in a receive
  patient     \* no receive ever times out while a message or an answer is under way

serverVars  == <<server, spc, shared_mem, proved>>
encoderVars == <<epc, request, mem, starts>>
faultVars   == <<dropped, interrupted, patient>>
vars == <<serverVars, linked, requests, responses, encoderVars, faultVars>>

-----------------------------------------------------------------------------
None   == 0
Mighty == "mighty"   \* the server, among those who are interrupted

Msg(id, by) == [id |-> id, by |-> by, mem |-> None]

(* Variant: RESTART has the id of the next segment. *)
RestartNextId == [Msg("RESTART", server) EXCEPT !.mem = shared_mem + 1]

Restart == [Msg("RESTART", server) EXCEPT !.mem = shared_mem]

Init ==
  /\ server = 1 /\ spc = "clear" /\ shared_mem = 1
  /\ linked = [e \in Encoders |-> FALSE]
  /\ proved = [e \in Encoders |-> FALSE]
  /\ requests = [e \in Encoders |-> <<>>]
  /\ responses = [e \in Encoders |-> <<>>]
  /\ epc = [e \in Encoders |-> "receive"]
  /\ request = [e \in Encoders |-> Msg("NONE", 1)]
  /\ mem = [e \in Encoders |-> None]
  /\ starts = [e \in Encoders |-> 1]
  /\ dropped = [e \in Encoders |-> FALSE]
  /\ interrupted = {}
  /\ patient \in Patience

-----------------------------------------------------------------------------
(* VglMightyIPC on the server's side. *)

Full(pipe) == Len(pipe) >= HWM

(* send: what a subscriber that is not connected misses is gone, and so is  *)
(* what there is no room for.                                               *)
Publish(m) ==
  /\ requests' = [e \in Encoders |->
                    IF linked[e] /\ ~Full(requests[e]) THEN Append(requests[e], m)
                                                       ELSE requests[e]]
  /\ dropped' = [e \in Encoders |-> dropped[e] \/ (linked[e] /\ Full(requests[e]))]
  /\ UNCHANGED <<interrupted, patient>>

UnderWay(e) == Len(requests[e]) + Len(responses[e])

(* receive has waited 200 ms.  A message on its way does not prevent that,  *)
(* unless every answer comes sooner.                                        *)
Timeout ==
  patient => \A e \in Encoders :
               /\ responses[e] = <<>> /\ epc[e] # "work"
               /\ requests[e] # <<>> => epc[e] \in {"failed", "dead"}

(* Any encoder's response may come first; a PONG proves the connection. *)
Take(e) ==
  /\ responses[e] # <<>>
  /\ responses' = [responses EXCEPT ![e] = Tail(@)]
  /\ proved' = [proved EXCEPT ![e] =
                  \/ @
                  \/ /\ Head(responses[e]).id = "PONG"
                     /\ Head(responses[e]).by = server]

SGoto(from, to) == spc = from /\ spc' = to

-----------------------------------------------------------------------------
(* main of mini_mighty.cpp.  "clear", "ping" and "pong" are the branch that *)
(* is not connected, "request", "response" and "read" the other one.        *)

ClearReceive ==
  /\ SGoto("clear", "clear")
  /\ \E e \in Encoders : Take(e)
  /\ UNCHANGED <<server, shared_mem, linked, requests, encoderVars,
                 faultVars>>

ClearDone ==
  /\ SGoto("clear", "ping")
  /\ Timeout
  /\ UNCHANGED <<server, shared_mem, proved, linked, requests, responses, encoderVars,
                 faultVars>>

SendPing ==
  /\ SGoto("ping", "pong")
  /\ Publish(Msg("PING", server))
  /\ UNCHANGED <<server, shared_mem, proved, linked, responses, encoderVars>>

(* Whatever arrives is taken for the PONG. *)
ReceivePong ==
  /\ SGoto("pong", "restart")
  /\ \E e \in Encoders : Take(e)
  /\ UNCHANGED <<server, shared_mem, linked, requests, encoderVars,
                 faultVars>>

ReceivePongTimeout ==
  /\ SGoto("pong", "clear")
  /\ Timeout
  /\ UNCHANGED <<server, shared_mem, proved, linked, requests, responses, encoderVars,
                 faultVars>>

(* Variant: the server goes on without telling encoders to restart. *)
SendRestartNever ==
  /\ SGoto("restart", "request")
  /\ UNCHANGED <<server, shared_mem, proved, linked, requests, responses, encoderVars,
                 faultVars>>

(* Variant: RESTART may be sent again, to be on the safe side. *)
SendRestartTwice ==
  /\ SGoto("restart", "restart") \/ SGoto("restart", "request")
  /\ Publish(Restart)
  /\ UNCHANGED <<server, shared_mem, proved, linked, responses, encoderVars>>

SendRestart ==
  /\ SGoto("restart", "request")
  /\ Publish(Restart)
  /\ UNCHANGED <<server, shared_mem, proved, linked, responses, encoderVars>>

SendFrameRequest ==
  /\ SGoto("request", "response")
  /\ Publish(Msg("FRAME_REQUEST", server))
  /\ UNCHANGED <<server, shared_mem, proved, linked, responses, encoderVars>>

(* Only a FRAME_RESPONSE makes the server look at its segment. *)
ReceiveResponse ==
  /\ \E e \in Encoders :
       /\ Take(e)
       /\ SGoto("response",
                IF Head(responses[e]).id = "FRAME_RESPONSE" THEN "read" ELSE "request")
  /\ UNCHANGED <<server, shared_mem, linked, requests, encoderVars,
                 faultVars>>

ReceiveResponseTimeout ==
  /\ SGoto("response", "clear")
  /\ Timeout
  /\ UNCHANGED <<server, shared_mem, proved, linked, requests, responses, encoderVars,
                 faultVars>>

(* shared_mem.get_written_size() *)
ReadFrame ==
  /\ SGoto("read", "request")
  /\ UNCHANGED <<server, shared_mem, proved, linked, requests, responses, encoderVars,
                 faultVars>>

(* the functions whose value for every encoder e is one of Of(e) *)
Each(Of(_)) ==
  {f \in [Encoders -> UNION {Of(e) : e \in Encoders}] :
     \A e \in Encoders : f[e] \in Of(e)}

(* A signal ends a receive with error_t: clear_receive returns, and receive *)
(* returns NONE, which is as good as a PONG and no FRAME_RESPONSE.          *)
ServerInterrupt ==
  /\ interrupted = {} /\ Mighty \in Interruptible
  /\ interrupted' = {Mighty}
  /\ \/ SGoto("clear", "ping") \/ SGoto("pong", "restart") \/ SGoto("response", "request")
  /\ UNCHANGED <<server, shared_mem, proved, linked, requests, responses, encoderVars,
                 dropped, patient>>

(* generate_mem_id: the time in seconds, which a server that is started     *)
(* again at once shares with the one before it.                             *)
GenerateMemId == {shared_mem, server + 1}

(* The server is killed and started again.  What it had sent and not yet    *)
(* received may be lost in its own process: the newest requests and the     *)
(* oldest responses.                                                        *)
ServerRestart ==
  /\ server < MaxServers
  /\ server' = server + 1
  /\ spc' = "clear"
  /\ shared_mem' \in GenerateMemId
  /\ linked' = [e \in Encoders |-> FALSE]
  /\ proved' = [e \in Encoders |-> FALSE]
  /\ requests' \in Each(LAMBDA e : Prefixes(requests[e]))
  /\ responses' \in Each(LAMBDA e : Suffixes(responses[e]))
  /\ dropped' = [e \in Encoders |-> FALSE]
  /\ UNCHANGED <<encoderVars, interrupted, patient>>

-----------------------------------------------------------------------------
(* The encoder's side: receive_vgl, and run as far as the protocol goes.    *)

Subscribe(e) ==
  /\ ~linked[e] /\ epc[e] # "dead"
  /\ linked' = [linked EXCEPT ![e] = TRUE]
  /\ UNCHANGED <<serverVars, requests, responses, encoderVars, faultVars>>

(* send does not wait for room. *)
Respond(e, m) ==
  responses' = [responses EXCEPT ![e] = IF Full(@) THEN @ ELSE Append(@, m)]

EncoderReceive(e, id) ==
  /\ epc[e] = "receive"
  /\ requests[e] # <<>> /\ Head(requests[e]).id = id
  /\ requests' = [requests EXCEPT ![e] = Tail(@)]

(* receive_vgl answers a PING by itself and waits on. *)
AnswerPing(e) ==
  /\ EncoderReceive(e, "PING")
  /\ Respond(e, Msg("PONG", Head(requests[e]).by))
  /\ UNCHANGED <<serverVars, linked, encoderVars, faultVars>>

Work(e, m) ==
  /\ epc' = [epc EXCEPT ![e] = "work"]
  /\ request' = [request EXCEPT ![e] = m]

(* rpc is local to the loop. *)
StopWork(e, next) ==
  /\ epc' = [epc EXCEPT ![e] = next]
  /\ request' = [request EXCEPT ![e] = Msg("NONE", 1)]

(* Variant: reset_encoder keeps the segment it has. *)
TakeRestartKeep(e) ==
  /\ EncoderReceive(e, "RESTART")
  /\ Work(e, Head(requests[e]))
  /\ mem' = [mem EXCEPT ![e] = IF @ = None THEN Head(requests[e]).mem ELSE @]
  /\ UNCHANGED <<serverVars, linked, responses, starts, faultVars>>

(* reset_encoder maps the segment; run then goes on as for a request. *)
TakeRestart(e) ==
  /\ EncoderReceive(e, "RESTART")
  /\ Work(e, Head(requests[e]))
  /\ mem' = [mem EXCEPT ![e] = Head(requests[e]).mem]
  /\ UNCHANGED <<serverVars, linked, responses, starts, faultVars>>

TakeFrameRequest(e) ==
  /\ EncoderReceive(e, "FRAME_REQUEST")
  /\ Work(e, Head(requests[e]))
  /\ UNCHANGED <<serverVars, linked, responses, mem, starts, faultVars>>

EmptyResponse(e) ==
  /\ epc[e] = "work"
  /\ Respond(e, Msg("EMPTY_RESPONSE", request[e].by))
  /\ StopWork(e, "receive")
  /\ UNCHANGED <<serverVars, linked, requests, mem, starts, faultVars>>

(* captureHwEnc writes the frame to the segment. *)
FrameResponse(e) ==
  /\ epc[e] = "work" /\ mem[e] # None
  /\ Respond(e, [Msg("FRAME_RESPONSE", request[e].by) EXCEPT !.mem = mem[e]])
  /\ StopWork(e, "receive")
  /\ UNCHANGED <<serverVars, linked, requests, mem, starts, faultVars>>

(* A signal ends the receive with error_t.  NONE is worked on like a        *)
(* FRAME_REQUEST, by run, which looks for RESTART only.                     *)
EncoderInterrupt(e) ==
  /\ epc[e] = "receive" /\ interrupted = {} /\ e \in Interruptible
  /\ interrupted' = {e}
  /\ Work(e, Msg("NONE", server))
  /\ UNCHANGED <<serverVars, linked, requests, responses, mem, starts, dropped,
                 patient>>

(* An Error leaves the loop of run.  The thread ends, its sockets stay.     *)
Fail(e) ==
  /\ epc[e] = "work"
  /\ StopWork(e, "failed")
  /\ UNCHANGED <<serverVars, linked, requests, responses, mem, starts, faultVars>>

(* The application is gone with its sockets: what it had not received, and  *)
(* the newest of its responses.                                             *)
Gone(e) ==
  /\ linked' = [linked EXCEPT ![e] = FALSE]
  /\ requests' = [requests EXCEPT ![e] = <<>>]
  /\ \E sent \in Prefixes(responses[e]) : responses' = [responses EXCEPT ![e] = sent]
  /\ UNCHANGED <<serverVars, faultVars>>

(* captureHwEnc without a segment: shared_mem is null, and the application  *)
(* dies with the encoder.                                                   *)
NullSegment(e) ==
  /\ epc[e] = "work" /\ mem[e] = None
  /\ StopWork(e, "dead")
  /\ Gone(e)
  /\ UNCHANGED <<mem, starts>>

(* The application is started again, after it has died or was killed. *)
AppRestart(e) ==
  /\ starts[e] < MaxStarts
  /\ starts' = [starts EXCEPT ![e] = @ + 1]
  /\ StopWork(e, "receive")
  /\ mem' = [mem EXCEPT ![e] = None]
  /\ Gone(e)

-----------------------------------------------------------------------------
Server ==
  \/ ClearReceive \/ ClearDone \/ SendPing \/ ReceivePong \/ ReceivePongTimeout
  \/ SendRestart \/ SendFrameRequest \/ ReceiveResponse
  \/ ReceiveResponseTimeout \/ ReadFrame

EncoderRun(e) ==
  \/ AnswerPing(e) \/ TakeRestart(e) \/ TakeFrameRequest(e)
  \/ EmptyResponse(e) \/ FrameResponse(e) \/ NullSegment(e)

Faults(e) == EncoderInterrupt(e) \/ Fail(e) \/ AppRestart(e)

Next ==
  \/ Server \/ ServerInterrupt \/ ServerRestart
  \/ \E e \in Encoders : Subscribe(e) \/ EncoderRun(e) \/ Faults(e)

Spec == Init /\ [][Next]_vars

(* Both loops go on and connections come up in the end. *)
Fairness ==
  /\ WF_vars(Server)
  /\ \A e \in Encoders : WF_vars(EncoderRun(e)) /\ WF_vars(Subscribe(e))

FairSpec == Spec /\ Fairness

-----------------------------------------------------------------------------
Msgs == [id : {"NONE", "RESTART", "PING", "PONG", "FRAME_REQUEST",
               "FRAME_RESPONSE", "EMPTY_RESPONSE"},
         by : 1 .. MaxServers, mem : 0 .. MaxServers]

(* Every variable has its type: no message carries the id of a segment that *)
(* no server has.                                                           *)
TypeOK ==
  /\ server \in 1 .. MaxServers /\ shared_mem \in 1 .. MaxServers
  /\ spc \in {"clear", "ping", "pong", "restart", "request", "response", "read"}
  /\ linked \in [Encoders -> BOOLEAN] /\ proved \in [Encoders -> BOOLEAN]
  /\ requests \in [Encoders -> Seq(Msgs)] /\ responses \in [Encoders -> Seq(Msgs)]
  /\ epc \in [Encoders -> {"receive", "work", "failed", "dead"}]
  /\ request \in [Encoders -> Msgs]
  /\ mem \in [Encoders -> 0 .. MaxServers]
  /\ starts \in [Encoders -> 1 .. MaxStarts] /\ dropped \in [Encoders -> BOOLEAN]
  /\ interrupted \subseteq Encoders \cup {Mighty} /\ patient \in BOOLEAN

(* The server receives a FRAME_RESPONSE from e, and will look at its segment. *)
ReadFrameOf(e) ==
  /\ server' = server /\ spc = "response" /\ spc' = "read"
  /\ responses'[e] # responses[e]

Trusted(e) ==
  proved[e] /\ ~dropped[e] /\ interrupted = {} /\ starts[e] = 1

(* Once a server has had a PONG of its own PING from an encoder, every      *)
(* frame that encoder reports to it is in the server's segment: RESTART is  *)
(* not overtaken, lost or preceded by an answer to an earlier server.  It   *)
(* takes a full pipe to lose it, or a signal.                               *)
OwnSegment ==
  [][\A e \in Encoders :
       ReadFrameOf(e) /\ Trusted(e) => Head(responses[e]).mem = shared_mem]_vars

(* An encoder works without a segment only if it came up while a server was *)
(* already connected to another one, if the server or the application was   *)
(* restarted, if a pipe was full, or after a signal.                        *)
NullOnlyAfterRestart ==
  \A e \in Encoders :
    epc[e] = "work" /\ mem[e] = None
      => \/ server > 1 \/ starts[e] > 1 \/ Cardinality(Encoders) > 1
         \/ dropped[e] \/ interrupted # {}

Working(e) == IF epc[e] = "work" THEN 1 ELSE 0

(* The encoder answers RESTART although the server does not wait for that   *)
(* answer.  It runs ahead by it, and by no more: with one encoder, and as   *)
(* long as no receive times out too early, at most two requests or          *)
(* responses are under way, and one more after a signal.                    *)
OneAhead ==
  patient /\ server = 1 /\ Cardinality(Encoders) = 1 =>
    \A e \in Encoders :
      starts[e] = 1 /\ epc[e] \in {"receive", "work"}
        => UnderWay(e) + Working(e) <= 2 + Cardinality(interrupted)

(* If answers are not late and no signal interrupts a receive, a server     *)
(* that is started again is served: from some time on every frame is        *)
(* written to its segment, unless the encoder has failed or was itself      *)
(* started again, of which the server may not have noticed anything.        *)
Served(e) == mem[e] = shared_mem \/ epc[e] \in {"failed", "dead"} \/ starts[e] > 1

ServedInTheEnd ==
  patient => <>(interrupted # {}) \/ <>[](\A e \in Encoders : Served(e))

=============================================================================

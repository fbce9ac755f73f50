-------------------------- MODULE MightyIPCProofs --------------------------
(***************************************************************************)
(* Proofs about MightyIPC, for any number of encoders, server processes    *)
(* and starts, and pipes of any size.                                      *)
(***************************************************************************)
EXTENDS MightyIPC, SequenceTheorems, FiniteSetTheorems, TLAPS

-----------------------------------------------------------------------------
(* The inductive invariant. *)

(* What follows the i-th request of q: RESTART is there as soon as the      *)
(* server is connected, and comes before the first FRAME_REQUEST.           *)
Behind(q, i, connected) ==
  /\ \A j \in i + 1 .. Len(q) :
       q[j].id = "FRAME_REQUEST" => \E k \in i + 1 .. j - 1 : q[k].id = "RESTART"
  /\ connected => \E k \in i + 1 .. Len(q) : q[k].id = "RESTART"

(* All of it is by the server process n. *)
From(q, i, n) == \A j \in i + 1 .. Len(q) : q[j].by = n

Connected == spc \in {"request", "response", "read"}

(* e has answered a PING of this server process, which got the answer or can. *)
Answered(e) ==
  \/ proved[e]
  \/ \E i \in 1 .. Len(responses[e]) :
       responses[e][i].id = "PONG" /\ responses[e][i].by = server

(* No message is by a server process to come, and RESTART names the segment *)
(* of the process that sent it.                                             *)
PastInv ==
  \A e \in Encoders :
    /\ request[e].by <= server
    /\ \A i \in 1 .. Len(responses[e]) : responses[e][i].by <= server
    /\ \A i \in 1 .. Len(requests[e]) :
         LET m == requests[e][i] IN
         m.by <= server /\ (m.id = "RESTART" /\ m.by = server => m.mem = shared_mem)

(* From the first PING of the server process on, an encoder receives        *)
(* everything in order; it has the segment, or RESTART is on its way.       *)
RequestOrder(e) ==
  /\ \A i \in 1 .. Len(requests[e]) :
       requests[e][i].id = "PING" /\ requests[e][i].by = server
         => /\ linked[e]
            /\ From(requests[e], i, server) /\ Behind(requests[e], i, Connected)
  /\ Answered(e) =>
       /\ linked[e] /\ From(requests[e], 0, server)
       /\ \/ mem[e] = shared_mem
          \/ epc[e] # "work" /\ Behind(requests[e], 0, Connected)

(* What follows the PONG in the other pipe has the segment. *)
ResponseOrder(e) ==
  \A j \in 1 .. Len(responses[e]) :
    /\ responses[e][j].id = "FRAME_RESPONSE"
    /\ \/ proved[e]
       \/ \E i \in 1 .. j - 1 : responses[e][i].id = "PONG" /\ responses[e][i].by = server
    => responses[e][j].mem = shared_mem

Clean(e) == ~dropped[e] /\ interrupted = {} /\ starts[e] = 1

Order(e) == RequestOrder(e) /\ ResponseOrder(e)

OrderInv == \A e \in Encoders : Clean(e) => Order(e)

(* Alone with the first server, an encoder is connected before the server   *)
(* gets further than PING, and works only when it has a segment.            *)
First(e) == Clean(e) /\ server = 1 /\ \A d \in Encoders : d = e

FirstOrder(e) ==
  /\ \/ requests[e] # <<>> \/ responses[e] # <<>> \/ mem[e] # None
     \/ spc = "restart" \/ Connected
     => linked[e]
  /\ mem[e] = None => epc[e] # "work" /\ Behind(requests[e], 0, Connected)

FirstInv == \A e \in Encoders : First(e) => FirstOrder(e)

(* Requests and responses under way that the server still waits for, or has *)
(* sent RESTART for, at each place of its loop.                             *)
Credit ==
  IF spc \in {"clear", "ping", "restart"} THEN 0
  ELSE IF spc \in {"pong", "request", "read"} THEN 1 ELSE 2

Limit == Credit + (IF interrupted = {} THEN 0 ELSE 1)

Ahead(e) == UnderWay(e) + Working(e)

AheadInv ==
  /\ interrupted = {} \/ \E x : interrupted = {x}
  /\ patient /\ server = 1 /\ (\A d, e \in Encoders : d = e) =>
       \A e \in Encoders :
         starts[e] = 1 /\ epc[e] \in {"receive", "work"} => Ahead(e) <= Limit

IInv == TypeOK /\ PastInv /\ OrderInv /\ FirstInv /\ AheadInv

USE BoundsAssumption, PipeAssumption, PatienceAssumption
USE DEF BoundsAssumption, None, serverVars, encoderVars, faultVars

-----------------------------------------------------------------------------
(* Types *)

(* What is left of the pipes when a server is killed *)
LEMMA Killed ==
  ASSUME ServerRestart, NEW e \in Encoders
  PROVE  requests'[e] \in Prefixes(requests[e]) /\ responses'[e] \in Suffixes(responses[e])
  BY DEF ServerRestart, Each

(* What is left of a pipe when the end of it is lost. *)
LEMMA PrefixType ==
  ASSUME NEW S, NEW s \in Seq(S), NEW p \in Prefixes(s)
  PROVE  /\ p \in Seq(S) /\ Len(p) <= Len(s)
         /\ \A i \in 1 .. Len(p) : p[i] = s[i]
<1>1. PICK l \in 0 .. Len(s) : p = SubSeq(s, 1, l)
  BY DEF Prefixes
<1>2. \A i \in 1 .. l : s[i] \in S
  OBVIOUS
<1> QED
  BY <1>1, <1>2, SubSeqProperties

(* What is left of a pipe when the beginning of it is lost. *)
LEMMA SuffixType ==
  ASSUME NEW S, NEW s \in Seq(S), NEW p \in Suffixes(s)
  PROVE  /\ p \in Seq(S)
         /\ \A i \in 1 .. Len(p) : \E j \in 1 .. Len(s) : p[i] = s[j]
<1>1. CASE p = <<>>
  BY <1>1
<1>2. ASSUME NEW l \in 1 .. Len(s), p = SubSeq(s, l, Len(s))
      PROVE  /\ p \in Seq(S)
             /\ \A i \in 1 .. Len(p) : \E j \in 1 .. Len(s) : p[i] = s[j]
  <2>1. \A i \in l .. Len(s) : s[i] \in S
    OBVIOUS
  <2>2. /\ p \in Seq(S) /\ Len(p) = Len(s) - l + 1
        /\ \A i \in 1 .. Len(s) - l + 1 : p[i] = s[l + i - 1]
    BY <1>2, <2>1, SubSeqProperties
  <2> QED
    BY <2>2
<1> QED
  BY <1>1, <1>2 DEF Suffixes

(* A message more in the pipes of the requests keeps their type. *)
LEMMA PublishType ==
  ASSUME TypeOK, NEW m \in Msgs, Publish(m)
  PROVE  /\ requests' \in [Encoders -> Seq(Msgs)] /\ dropped' \in [Encoders -> BOOLEAN]
         /\ UNCHANGED <<interrupted, patient>>
<1>1. \A e \in Encoders : Append(requests[e], m) \in Seq(Msgs)
  BY AppendProperties DEF TypeOK
<1> QED
  BY <1>1 DEF Publish, TypeOK

(* A message less in the pipe of the responses keeps its type. *)
LEMMA TakeType ==
  ASSUME TypeOK, NEW e \in Encoders, Take(e)
  PROVE  responses' \in [Encoders -> Seq(Msgs)] /\ proved' \in [Encoders -> BOOLEAN]
<1>1. Tail(responses[e]) \in Seq(Msgs)
  BY HeadTailProperties DEF Take, TypeOK
<1> QED
  BY <1>1 DEF Take, TypeOK

(* A message more in the pipe of the responses keeps its type. *)
LEMMA RespondType ==
  ASSUME TypeOK, NEW e \in Encoders, NEW m \in Msgs, Respond(e, m)
  PROVE  responses' \in [Encoders -> Seq(Msgs)]
<1>1. Append(responses[e], m) \in Seq(Msgs)
  BY AppendProperties DEF TypeOK
<1> QED
  BY <1>1 DEF Respond, TypeOK

(* What an encoder receives is a message, the first one of its pipe. *)
LEMMA ReceiveType ==
  ASSUME TypeOK, NEW e \in Encoders, NEW id, EncoderReceive(e, id)
  PROVE  /\ requests' \in [Encoders -> Seq(Msgs)]
         /\ Head(requests[e]) \in Msgs /\ Head(requests[e]) = requests[e][1]
         /\ Len(requests[e]) > 0
<1>1. Tail(requests[e]) \in Seq(Msgs) /\ Head(requests[e]) \in Msgs
  BY HeadTailProperties DEF EncoderReceive, TypeOK
<1> QED
  BY <1>1 DEF EncoderReceive, TypeOK

(* An encoder that has gone leaves a prefix of its responses. *)
LEMMA GoneType ==
  ASSUME TypeOK, NEW e \in Encoders, Gone(e)
  PROVE  /\ requests' \in [Encoders -> Seq(Msgs)] /\ responses' \in [Encoders -> Seq(Msgs)]
         /\ linked' \in [Encoders -> BOOLEAN] /\ UNCHANGED <<serverVars, faultVars>>
<1>1. \A sent \in Prefixes(responses[e]) : sent \in Seq(Msgs)
  BY PrefixType DEF TypeOK
<1> QED
  BY <1>1 DEF Gone, TypeOK

(* The loop of the server keeps the types. *)
LEMMA ServerType ==
  ASSUME TypeOK, Server
  PROVE  TypeOK'
<1>1. CASE ClearReceive \/ ReceivePong \/ ReceiveResponse
  BY <1>1, TakeType DEF ClearReceive, ReceivePong, ReceiveResponse, SGoto, TypeOK
<1>2. CASE ClearDone \/ ReceivePongTimeout \/ ReceiveResponseTimeout \/ ReadFrame
  BY <1>2 DEF ClearDone, ReceivePongTimeout, ReceiveResponseTimeout, ReadFrame, SGoto,
     TypeOK
<1>3. CASE SendPing \/ SendRestart \/ SendFrameRequest
  <2>1. /\ Msg("PING", server) \in Msgs /\ Msg("FRAME_REQUEST", server) \in Msgs
        /\ Restart \in Msgs
    <3>1. server \in 1 .. MaxServers /\ shared_mem \in 0 .. MaxServers
      BY DEF TypeOK
    <3>2. Restart \in Msgs
      BY <3>1 DEF Restart, Msg, Msgs
    <3> QED
      BY <3>1, <3>2 DEF Msg, Msgs
  <2> QED
    BY <1>3, <2>1, PublishType DEF SendPing, SendRestart, SendFrameRequest, SGoto, TypeOK
<1> QED
  BY <1>1, <1>2, <1>3 DEF Server

(* A server that is killed and started keeps the types. *)
LEMMA RestartType ==
  ASSUME TypeOK, ServerRestart
  PROVE  TypeOK'
<1>1. \A e \in Encoders : requests'[e] \in Seq(Msgs) /\ responses'[e] \in Seq(Msgs)
  BY Killed, PrefixType, SuffixType DEF TypeOK
<1>2. requests' \in [Encoders -> Seq(Msgs)] /\ responses' \in [Encoders -> Seq(Msgs)]
  BY <1>1 DEF ServerRestart, Each
<1> QED
  BY <1>2 DEF ServerRestart, GenerateMemId, TypeOK

(* What is received when a signal comes is a message. *)
LEMMA NoneType == Msg("NONE", 1) \in Msgs
  BY DEF Msg, Msgs

(* The encoders and their faults keep the types. *)
LEMMA EncoderType ==
  ASSUME TypeOK, NEW e \in Encoders, Subscribe(e) \/ EncoderRun(e) \/ Faults(e)
  PROVE  TypeOK'
<1>1. CASE Subscribe(e)
  BY <1>1 DEF Subscribe, TypeOK
<1>2. CASE AnswerPing(e)
  <2>1. Msg("PONG", Head(requests[e]).by) \in Msgs /\ requests' \in [Encoders -> Seq(Msgs)]
    <3>1. requests' \in [Encoders -> Seq(Msgs)] /\ Head(requests[e]) \in Msgs
      BY <1>2, ReceiveType DEF AnswerPing
    <3>2. Head(requests[e]).by \in 1 .. MaxServers
      BY <3>1 DEF Msgs
    <3>3. Msg("PONG", Head(requests[e]).by) \in Msgs
      BY <3>2 DEF Msg, Msgs
    <3> QED
      BY <3>1, <3>3
  <2> QED
    BY <1>2, <2>1, RespondType DEF AnswerPing, TypeOK
<1>3. CASE TakeRestart(e)
  BY <1>3, ReceiveType DEF TakeRestart, Work, Msgs, TypeOK
<1>4. CASE TakeFrameRequest(e)
  BY <1>4, ReceiveType DEF TakeFrameRequest, Work, TypeOK
<1>5. CASE EmptyResponse(e) \/ FrameResponse(e)
  <2>1. /\ Msg("EMPTY_RESPONSE", request[e].by) \in Msgs
        /\ [Msg("FRAME_RESPONSE", request[e].by) EXCEPT !.mem = mem[e]] \in Msgs
    <3>1. request[e].by \in 1 .. MaxServers /\ mem[e] \in 0 .. MaxServers
      BY DEF Msgs, TypeOK
    <3> QED
      BY <3>1 DEF Msg, Msgs
  <2>2. responses' \in [Encoders -> Seq(Msgs)]
    BY <1>5, <2>1, RespondType DEF EmptyResponse, FrameResponse
  <2>3. /\ StopWork(e, "receive")
        /\ UNCHANGED <<serverVars, linked, requests, mem, starts, faultVars>>
    BY <1>5 DEF EmptyResponse, FrameResponse
  <2> QED
    BY <2>2, <2>3, NoneType DEF StopWork, TypeOK
<1>6. CASE NullSegment(e)
  BY <1>6, NoneType, GoneType DEF NullSegment, StopWork, TypeOK
<1>9. CASE AppRestart(e)
  <2>1. /\ Gone(e) /\ StopWork(e, "receive") /\ starts[e] < MaxStarts
        /\ starts' = [starts EXCEPT ![e] = @ + 1] /\ mem' = [mem EXCEPT ![e] = None]
    BY <1>9 DEF AppRestart
  <2>2. starts' \in [Encoders -> 1 .. MaxStarts] /\ mem' \in [Encoders -> 0 .. MaxServers]
    BY <2>1 DEF TypeOK
  <2> QED
    BY <2>1, <2>2, NoneType, GoneType DEF StopWork, TypeOK
<1>7. CASE EncoderInterrupt(e)
  <2>1. server \in 1 .. MaxServers
    BY DEF TypeOK
  <2>2. Msg("NONE", server) \in Msgs
    BY <2>1 DEF Msg, Msgs
  <2> QED
    BY <1>7, <2>2 DEF EncoderInterrupt, Work, TypeOK
<1>8. CASE Fail(e)
  BY <1>8, NoneType DEF Fail, StopWork, TypeOK
<1> QED
  BY <1>1, <1>2, <1>3, <1>4, <1>5, <1>6, <1>7, <1>8, <1>9 DEF EncoderRun, Faults

(* Every step keeps the types. *)
LEMMA TypeStep ==
  ASSUME TypeOK, [Next]_vars
  PROVE  TypeOK'
<1>1. CASE ServerInterrupt
  BY <1>1 DEF ServerInterrupt, SGoto, TypeOK
<1>2. CASE UNCHANGED vars
  BY <1>2 DEF vars, TypeOK
<1> QED
  BY <1>1, <1>2, ServerType, RestartType, EncoderType DEF Next

-----------------------------------------------------------------------------
(* Sequences of requests *)

(* A server that loses its connection expects less of a pipe. *)
LEMMA BehindWeaker ==
  ASSUME NEW q, NEW i, NEW c, NEW d, Behind(q, i, c), d => c
  PROVE  Behind(q, i, d)
  BY DEF Behind

(* A message less at the front of a pipe moves what is behind by one. *)
LEMMA BehindTail ==
  ASSUME NEW q \in Seq(Msgs), q # <<>>, NEW i \in Nat, NEW c, NEW n
  PROVE  /\ Behind(q, i + 1, c) => Behind(Tail(q), i, c)
         /\ From(q, i + 1, n) => From(Tail(q), i, n)
<1>1. /\ Tail(q) \in Seq(Msgs) /\ Len(q) \in Nat /\ Len(Tail(q)) = Len(q) - 1
      /\ \A j \in 1 .. Len(Tail(q)) : Tail(q)[j] = q[j + 1]
  BY HeadTailProperties
<1>2. ASSUME NEW j \in Int, \E k \in i + 2 .. j : q[k].id = "RESTART", j <= Len(q)
      PROVE  \E k \in i + 1 .. j - 1 : Tail(q)[k].id = "RESTART"
  <2>1. PICK k \in i + 2 .. j : q[k].id = "RESTART"
    BY <1>2
  <2>2. k - 1 \in i + 1 .. j - 1 /\ Tail(q)[k - 1] = q[k]
    BY <1>1, <1>2
  <2> QED
    BY <2>1, <2>2
<1>3. ASSUME Behind(q, i + 1, c) PROVE Behind(Tail(q), i, c)
  <2>1. ASSUME NEW j \in i + 1 .. Len(Tail(q)), Tail(q)[j].id = "FRAME_REQUEST"
        PROVE  \E k \in i + 1 .. j - 1 : Tail(q)[k].id = "RESTART"
    <3>1. j + 1 \in i + 2 .. Len(q) /\ q[j + 1].id = "FRAME_REQUEST"
      BY <1>1, <2>1
    <3>2. \E k \in i + 2 .. j : q[k].id = "RESTART"
      BY <1>3, <3>1 DEF Behind
    <3> QED
      BY <1>1, <1>2, <3>2
  <2>2. ASSUME c PROVE \E k \in i + 1 .. Len(Tail(q)) : Tail(q)[k].id = "RESTART"
    <3>1. \E k \in i + 2 .. Len(q) : q[k].id = "RESTART"
      BY <1>3, <2>2 DEF Behind
    <3> QED
      BY <1>1, <1>2, <3>1
  <2> QED
    BY <2>1, <2>2 DEF Behind
<1>4. From(q, i + 1, n) => From(Tail(q), i, n)
  BY <1>1 DEF From
<1> QED
  BY <1>3, <1>4

(* When RESTART comes and is not the first message, FRAME_REQUEST is not.   *)
LEMMA BehindHead ==
  ASSUME NEW q \in Seq(Msgs), q # <<>>, NEW c, Behind(q, 0, c), q[1].id # "RESTART"
  PROVE  Behind(Tail(q), 0, c) /\ q[1].id # "FRAME_REQUEST"
<1>1. Len(q) \in Nat \ {0}
  OBVIOUS
<1>2. q[1].id # "FRAME_REQUEST"
  BY <1>1 DEF Behind
<1>3. Behind(q, 1, c)
  BY <1>1, <1>2 DEF Behind
<1> QED
  BY <1>2, <1>3, BehindTail

(* A message more at the end: FRAME_REQUEST comes from a server that is     *)
(* connected, and RESTART makes it so.                                      *)
LEMMA BehindAppend ==
  ASSUME NEW q \in Seq(Msgs), NEW m \in Msgs, NEW i \in 0 .. Len(q), NEW c, NEW d,
         Behind(q, i, c), m.id = "FRAME_REQUEST" => c, d => c \/ m.id = "RESTART"
  PROVE  Behind(Append(q, m), i, d)
<1> DEFINE a == Append(q, m)
<1>1. /\ Len(q) \in Nat /\ Len(a) = Len(q) + 1 /\ a[Len(q) + 1] = m
      /\ \A j \in 1 .. Len(q) : a[j] = q[j]
  BY AppendProperties
<1> HIDE DEF a
<1>2. ASSUME NEW j \in i + 1 .. Len(a), a[j].id = "FRAME_REQUEST"
      PROVE  \E k \in i + 1 .. j - 1 : a[k].id = "RESTART"
  <2>1. CASE j = Len(q) + 1
    <3>1. PICK k \in i + 1 .. Len(q) : q[k].id = "RESTART"
      BY <1>1, <1>2, <2>1 DEF Behind
    <3> QED
      BY <1>1, <2>1, <3>1
  <2>2. CASE j # Len(q) + 1
    <3>1. j \in i + 1 .. Len(q) /\ q[j].id = "FRAME_REQUEST"
      BY <1>1, <1>2, <2>2
    <3>2. PICK k \in i + 1 .. j - 1 : q[k].id = "RESTART"
      BY <3>1 DEF Behind
    <3> QED
      BY <1>1, <3>1, <3>2
  <2> QED
    BY <2>1, <2>2
<1>3. ASSUME d PROVE \E k \in i + 1 .. Len(a) : a[k].id = "RESTART"
  BY <1>1, <1>3 DEF Behind
<1>4. Behind(a, i, d)
  BY <1>2, <1>3 DEF Behind
<1> QED
  BY <1>4 DEF a

(* A message of the same server process more at the end. *)
LEMMA FromAppend ==
  ASSUME NEW q \in Seq(Msgs), NEW m \in Msgs, NEW i \in 0 .. Len(q), NEW n,
         From(q, i, n), m.by = n
  PROVE  From(Append(q, m), i, n)
  BY DEF From

-----------------------------------------------------------------------------
(* The order of messages *)

(* What is published is by the current server process. *)
LEMMA PublishPast ==
  ASSUME TypeOK, PastInv, NEW m \in Msgs, Publish(m), m.by = server,
         m.id = "RESTART" => m.mem = shared_mem,
         UNCHANGED <<server, shared_mem, responses, request>>
  PROVE  PastInv'
<1> SUFFICES ASSUME NEW e \in Encoders, NEW i \in 1 .. Len(requests'[e])
             PROVE  /\ requests'[e][i].by <= server
                    /\ requests'[e][i].id = "RESTART" /\ requests'[e][i].by = server
                         => requests'[e][i].mem = shared_mem
  BY DEF PastInv
<1>1. requests[e] \in Seq(Msgs) /\ server \in Nat
  BY DEF TypeOK
<1>2. CASE requests'[e] = requests[e]
  BY <1>2 DEF PastInv
<1>3. CASE requests'[e] = Append(requests[e], m)
  <2>1. \/ i \in 1 .. Len(requests[e]) /\ requests'[e][i] = requests[e][i]
        \/ requests'[e][i] = m
    BY <1>1, <1>3, AppendProperties
  <2> QED
    BY <1>1, <2>1 DEF PastInv
<1> QED
  BY <1>2, <1>3 DEF Publish, TypeOK

(* What the server takes from a pipe was there before. *)
LEMMA TakePast ==
  ASSUME TypeOK, PastInv, NEW e \in Encoders, Take(e),
         UNCHANGED <<server, shared_mem, requests, request>>
  PROVE  PastInv'
<1>1. \A i \in 1 .. Len(responses'[e]) : responses'[e][i].by <= server
  <2>1. /\ responses[e] \in Seq(Msgs) /\ responses[e] # <<>>
        /\ responses'[e] = Tail(responses[e])
    BY DEF Take, TypeOK
  <2> QED
    BY <2>1, HeadTailProperties DEF PastInv
<1>2. \A d \in Encoders \ {e} : responses'[d] = responses[d]
  BY DEF Take, TypeOK
<1> QED
  BY <1>1, <1>2 DEF PastInv

(* An answer is by the server process whose request it answers. *)
LEMMA RespondPast ==
  ASSUME TypeOK, PastInv, NEW e \in Encoders, NEW m \in Msgs, Respond(e, m), m.by <= server,
         UNCHANGED server
  PROVE  \A d \in Encoders : \A i \in 1 .. Len(responses'[d]) : responses'[d][i].by <= server
<1> SUFFICES ASSUME NEW d \in Encoders, NEW i \in 1 .. Len(responses'[d])
             PROVE  responses'[d][i].by <= server
  OBVIOUS
<1>1. responses[d] \in Seq(Msgs)
  BY DEF TypeOK
<1>2. CASE responses'[d] = responses[d]
  BY <1>2 DEF PastInv
<1>3. CASE responses'[d] = Append(responses[d], m)
  <2>1. \/ i \in 1 .. Len(responses[d]) /\ responses'[d][i] = responses[d][i]
        \/ responses'[d][i] = m
    BY <1>1, <1>3, AppendProperties
  <2> QED
    BY <2>1 DEF PastInv
<1> QED
  BY <1>2, <1>3 DEF Respond, TypeOK

(* What an encoder takes from its pipe was there before. *)
LEMMA ReceivePast ==
  ASSUME TypeOK, PastInv, NEW e \in Encoders, NEW id, EncoderReceive(e, id)
  PROVE  /\ \A d \in Encoders : \A i \in 1 .. Len(requests'[d]) :
              \E j \in 1 .. Len(requests[d]) : requests'[d][i] = requests[d][j]
         /\ Head(requests[e]).by <= server
<1>1. /\ requests[e] \in Seq(Msgs) /\ requests[e] # <<>>
      /\ requests'[e] = Tail(requests[e])
  BY DEF EncoderReceive, TypeOK
<1>2. \A d \in Encoders \ {e} : requests'[d] = requests[d]
  BY DEF EncoderReceive, TypeOK
<1>3. /\ Len(requests[e]) > 0 /\ Head(requests[e]) = requests[e][1]
      /\ Len(Tail(requests[e])) = Len(requests[e]) - 1
      /\ \A i \in 1 .. Len(Tail(requests[e])) : Tail(requests[e])[i] = requests[e][i + 1]
  BY <1>1, HeadTailProperties
<1>4. Head(requests[e]).by <= server
  BY <1>3 DEF PastInv
<1>5. \A i \in 1 .. Len(requests'[e]) :
        i + 1 \in 1 .. Len(requests[e]) /\ requests'[e][i] = requests[e][i + 1]
  BY <1>1, <1>3
<1>6. ASSUME NEW d \in Encoders, NEW i \in 1 .. Len(requests'[d])
      PROVE  \E j \in 1 .. Len(requests[d]) : requests'[d][i] = requests[d][j]
  BY <1>2, <1>5
<1> QED
  BY <1>4, <1>6

(* An encoder that has gone leaves no requests, and adds no response. *)
LEMMA GonePast ==
  ASSUME TypeOK, NEW e \in Encoders, Gone(e)
  PROVE  /\ requests'[e] = <<>> /\ \A d \in Encoders \ {e} : requests'[d] = requests[d]
         /\ \A d \in Encoders :
              /\ Len(responses'[d]) <= Len(responses[d])
              /\ \A i \in 1 .. Len(responses'[d]) :
                   i \in 1 .. Len(responses[d]) /\ responses'[d][i] = responses[d][i]
<1>1. PICK sent \in Prefixes(responses[e]) : responses' = [responses EXCEPT ![e] = sent]
  BY DEF Gone
<1>2. /\ sent \in Seq(Msgs) /\ Len(sent) <= Len(responses[e])
      /\ \A i \in 1 .. Len(sent) : sent[i] = responses[e][i]
  BY <1>1, PrefixType DEF TypeOK
<1>3. \A i \in 1 .. Len(sent) : i \in 1 .. Len(responses[e])
  BY <1>2
<1> QED
  BY <1>1, <1>2, <1>3 DEF Gone, TypeOK

(* All messages are older than a server that has just begun. *)
LEMMA RestartPast ==
  ASSUME TypeOK, PastInv, ServerRestart
  PROVE  PastInv'
<1>1. server \in Nat /\ server' = server + 1 /\ request' = request
  BY DEF ServerRestart, TypeOK
<1>2. ASSUME NEW e \in Encoders
      PROVE  request'[e].by <= server'
  <2>1. request[e].by \in Nat
    BY DEF TypeOK, Msgs
  <2> QED
    BY <1>1, <2>1 DEF PastInv
<1>3. ASSUME NEW e \in Encoders, NEW i \in 1 .. Len(responses'[e])
      PROVE  responses'[e][i].by <= server'
  <2>1. responses[e] \in Seq(Msgs)
    BY DEF TypeOK
  <2>2. responses'[e] \in Suffixes(responses[e])
    BY Killed
  <2>3. PICK j \in 1 .. Len(responses[e]) : responses'[e][i] = responses[e][j]
    <3>1. \A p \in Suffixes(responses[e]) : \A k \in 1 .. Len(p) :
            \E j \in 1 .. Len(responses[e]) : p[k] = responses[e][j]
      BY <2>1, SuffixType
    <3> QED
      BY <2>2, <3>1
  <2>4. responses[e][j] \in Msgs
    BY <2>1
  <2>5. responses[e][j].by \in Nat /\ responses[e][j].by <= server
    BY <2>4 DEF PastInv, Msgs
  <2> QED
    BY <1>1, <2>3, <2>5
<1>4. ASSUME NEW e \in Encoders, NEW i \in 1 .. Len(requests'[e])
      PROVE  requests'[e][i].by < server'
  <2>1. requests[e] \in Seq(Msgs)
    BY DEF TypeOK
  <2>2. requests'[e] \in Prefixes(requests[e])
    BY Killed
  <2>3. i \in 1 .. Len(requests[e]) /\ requests'[e][i] = requests[e][i]
    BY <2>1, <2>2, PrefixType
  <2>4. requests[e][i] \in Msgs
    BY <2>1, <2>3
  <2>5. requests[e][i].by \in Nat /\ requests[e][i].by <= server
    BY <2>3, <2>4 DEF PastInv, Msgs
  <2> QED
    BY <1>1, <2>3, <2>5
<1>5. \A e \in Encoders : \A i \in 1 .. Len(requests'[e]) :
        requests'[e][i].by <= server' /\ requests'[e][i].by # server'
  <2> SUFFICES ASSUME NEW e \in Encoders, NEW i \in 1 .. Len(requests'[e])
               PROVE  requests'[e][i].by <= server' /\ requests'[e][i].by # server'
    OBVIOUS
  <2>1. requests'[e][i] \in Msgs
    BY RestartType DEF TypeOK
  <2>2. requests'[e][i].by \in Nat
    BY <2>1 DEF Msgs
  <2> QED
    BY <1>1, <1>4, <2>2
<1> QED
  BY <1>2, <1>3, <1>5 DEF PastInv

(* Every step preserves PastInv. *)
LEMMA PastStep ==
  ASSUME TypeOK, PastInv, [Next]_vars
  PROVE  PastInv'
<1>1. CASE UNCHANGED <<server, shared_mem, request, requests, responses>>
  BY <1>1 DEF PastInv
<1>2. CASE Server
  <2>1. CASE ClearReceive \/ ReceivePong \/ ReceiveResponse
    BY <2>1, TakePast DEF ClearReceive, ReceivePong, ReceiveResponse
  <2>2. CASE SendPing \/ SendRestart \/ SendFrameRequest
    <3>1. server \in 1 .. MaxServers /\ shared_mem \in 0 .. MaxServers
      BY DEF TypeOK
    <3>2. /\ Msg("PING", server) \in Msgs /\ Msg("FRAME_REQUEST", server) \in Msgs
      BY <3>1 DEF Msg, Msgs
    <3>3. Restart \in Msgs
      BY <3>1 DEF Restart, Msg, Msgs
    <3> QED
      BY <2>2, <3>2, <3>3, PublishPast DEF SendPing, SendRestart, SendFrameRequest, Restart, Msg
  <2>3. CASE ClearDone \/ ReceivePongTimeout \/ ReceiveResponseTimeout \/ ReadFrame
    BY <1>1, <2>3 DEF ClearDone, ReceivePongTimeout, ReceiveResponseTimeout, ReadFrame
  <2> QED
    BY <1>2, <2>1, <2>2, <2>3 DEF Server
<1>3. CASE ServerRestart
  BY <1>3, RestartPast
<1>4. ASSUME NEW e \in Encoders, Subscribe(e) \/ EncoderRun(e) \/ Faults(e)
      PROVE  PastInv'
  <2>1. UNCHANGED <<server, shared_mem>> /\ server \in 1 .. MaxServers
    BY <1>4 DEF Subscribe, EncoderRun, AnswerPing, TakeRestart, TakeFrameRequest,
       EmptyResponse, FrameResponse, NullSegment, Faults, EncoderInterrupt, Fail,
       AppRestart, Gone, TypeOK
  <2>2. CASE AnswerPing(e)
    <3>1. Head(requests[e]) \in Msgs /\ Head(requests[e]).by <= server
      BY <2>2, ReceiveType, ReceivePast DEF AnswerPing
    <3>2. Head(requests[e]).by \in 1 .. MaxServers
      BY <3>1 DEF Msgs
    <3>3. Msg("PONG", Head(requests[e]).by) \in Msgs
      BY <3>2 DEF Msg, Msgs
    <3>4. Msg("PONG", Head(requests[e]).by).by <= server
      BY <3>1 DEF Msg
    <3>5. \A d \in Encoders : \A i \in 1 .. Len(responses'[d]) :
            responses'[d][i].by <= server
      BY <2>1, <2>2, <3>3, <3>4, RespondPast DEF AnswerPing
    <3>6. \A d \in Encoders : \A i \in 1 .. Len(requests'[d]) :
            \E j \in 1 .. Len(requests[d]) : requests'[d][i] = requests[d][j]
      BY <2>2, ReceivePast DEF AnswerPing
    <3>7. UNCHANGED request
      BY <2>2 DEF AnswerPing
    <3>8. \A d \in Encoders : \A i \in 1 .. Len(requests'[d]) :
            /\ requests'[d][i].by <= server
            /\ requests'[d][i].id = "RESTART" /\ requests'[d][i].by = server
                 => requests'[d][i].mem = shared_mem
      BY <3>6 DEF PastInv
    <3> QED
      BY <2>1, <3>5, <3>7, <3>8 DEF PastInv
  <2>3. CASE TakeRestart(e) \/ TakeFrameRequest(e)
    <3>1. /\ \A d \in Encoders : request'[d].by <= server
          /\ UNCHANGED responses
      BY <2>3, ReceivePast DEF TakeRestart, TakeFrameRequest, Work, PastInv, TypeOK
    <3> QED
      BY <2>1, <2>3, <3>1, ReceivePast DEF TakeRestart, TakeFrameRequest, PastInv
  <2>4. ASSUME StopWork(e, "receive") \/ StopWork(e, "failed") \/ StopWork(e, "dead")
        PROVE  \A d \in Encoders : request'[d].by <= server
    <3>1. request' = [request EXCEPT ![e] = Msg("NONE", 1)]
      BY <2>4 DEF StopWork
    <3>2. Msg("NONE", 1).by <= server
      BY <2>1 DEF Msg
    <3> QED
      BY <3>1, <3>2 DEF PastInv, TypeOK
  <2>5. CASE EmptyResponse(e) \/ FrameResponse(e)
    <3>1. /\ Msg("EMPTY_RESPONSE", request[e].by) \in Msgs
          /\ [Msg("FRAME_RESPONSE", request[e].by) EXCEPT !.mem = mem[e]] \in Msgs
      <4>1. request[e].by \in 1 .. MaxServers /\ mem[e] \in 0 .. MaxServers
        BY DEF Msgs, TypeOK
      <4> QED
        BY <4>1 DEF Msg, Msgs
    <3>2. /\ Msg("EMPTY_RESPONSE", request[e].by).by <= server
          /\ [Msg("FRAME_RESPONSE", request[e].by) EXCEPT !.mem = mem[e]].by <= server
      BY DEF Msg, PastInv
    <3>3. \A d \in Encoders : \A i \in 1 .. Len(responses'[d]) :
            responses'[d][i].by <= server
      BY <2>1, <2>5, <3>1, <3>2, RespondPast DEF EmptyResponse, FrameResponse
    <3> QED
      BY <2>1, <2>4, <2>5, <3>3 DEF EmptyResponse, FrameResponse, PastInv
  <2>6. CASE NullSegment(e) \/ AppRestart(e)
    <3>1. \A d \in Encoders : request'[d].by <= server
      BY <2>4, <2>6 DEF NullSegment, AppRestart
    <3>2. Gone(e)
      BY <2>6 DEF NullSegment, AppRestart
    <3> QED
      BY <2>1, <3>1, <3>2, GonePast DEF PastInv
  <2>7. CASE EncoderInterrupt(e)
    BY <2>1, <2>7 DEF EncoderInterrupt, Work, Msg, PastInv, TypeOK
  <2>8. CASE Fail(e)
    BY <2>1, <2>4, <2>8 DEF Fail, PastInv
  <2>9. CASE Subscribe(e)
    BY <1>1, <2>9 DEF Subscribe
  <2> QED
    BY <1>4, <2>2, <2>3, <2>5, <2>6, <2>7, <2>8, <2>9 DEF EncoderRun, Faults
<1> QED
  BY <1>1, <1>2, <1>3, <1>4 DEF Next, ServerInterrupt, vars

(* A step that does not touch e, after which the server is not connected if *)
(* it was not before                                                        *)
LEMMA Untouched ==
  ASSUME NEW e \in Encoders, Order(e), Connected' => Connected,
         UNCHANGED <<server, shared_mem, proved[e], requests[e], responses[e],
                     linked[e], mem[e], epc[e]>>
  PROVE  Order(e)'
<1>1. \A i : Behind(requests[e], i, Connected) => Behind(requests[e], i, Connected')
  BY BehindWeaker
<1> QED
  BY <1>1 DEF Order, RequestOrder, ResponseOrder, Answered

(* Requests are published in the order that RequestOrder describes. *)
LEMMA PublishOrder ==
  ASSUME TypeOK, OrderInv, NEW m \in Msgs, Publish(m), m.by = server,
         m.id = "FRAME_REQUEST" => Connected, m.id = "PING" => ~Connected',
         Connected' => Connected \/ m.id = "RESTART",
         UNCHANGED <<server, shared_mem, proved, linked, responses, encoderVars>>
  PROVE  OrderInv'
<1> SUFFICES ASSUME NEW e \in Encoders, Clean(e)' PROVE Order(e)'
  BY DEF OrderInv
<1> DEFINE q == requests[e]
<1>1. /\ q \in Seq(Msgs) /\ Clean(e) /\ linked[e] \in BOOLEAN
      /\ requests'[e] = IF linked[e] THEN Append(q, m) ELSE q
  BY DEF Publish, Clean, TypeOK
<1>2. Order(e) /\ Answered(e)' = Answered(e)
  BY <1>1 DEF OrderInv, Order, Answered
<1>3. ResponseOrder(e)'
  BY <1>2 DEF Order, ResponseOrder
<1>4. CASE ~linked[e]
  BY <1>1, <1>2, <1>3, <1>4 DEF Order, RequestOrder
<1>5. CASE linked[e]
  <2> DEFINE r == Append(q, m)
  <2>1. /\ r = requests'[e] /\ Len(q) \in Nat /\ Len(r) = Len(q) + 1
        /\ r[Len(q) + 1] = m /\ \A j \in 1 .. Len(q) : r[j] = q[j]
    BY <1>1, <1>5, AppendProperties
  <2>2. \A i \in 0 .. Len(q) :
          /\ From(q, i, server) => From(r, i, server)
          /\ Behind(q, i, Connected) => Behind(r, i, Connected')
    BY <1>1, FromAppend, BehindAppend
  <2>3. m.id = "PING" => From(r, Len(r), server) /\ Behind(r, Len(r), Connected')
    BY <2>1 DEF From, Behind
  <2> HIDE DEF q, r
  <2>4. ASSUME NEW i \in 1 .. Len(r), r[i].id = "PING", r[i].by = server
        PROVE  From(r, i, server) /\ Behind(r, i, Connected')
    <3>1. CASE i = Len(q) + 1
      BY <2>1, <2>3, <2>4, <3>1
    <3>2. CASE i # Len(q) + 1
      <4>1. i \in 1 .. Len(q) /\ q[i].id = "PING" /\ q[i].by = server
        BY <2>1, <2>4, <3>2
      <4>2. From(q, i, server) /\ Behind(q, i, Connected)
        BY <1>2, <4>1 DEF Order, RequestOrder, q
      <4> QED
        BY <2>2, <4>1, <4>2
    <3> QED
      BY <3>1, <3>2
  <2>5. Answered(e) => /\ From(r, 0, server)
                       /\ (mem[e] = shared_mem \/ (epc[e] # "work" /\ Behind(r, 0, Connected')))
    <3>1. Answered(e) => /\ From(q, 0, server)
                         /\ (mem[e] = shared_mem \/ (epc[e] # "work" /\ Behind(q, 0, Connected)))
      BY <1>2 DEF Order, RequestOrder, q
    <3>2. 0 \in 0 .. Len(q)
      BY <2>1
    <3>3. /\ From(q, 0, server) => From(r, 0, server)
          /\ Behind(q, 0, Connected) => Behind(r, 0, Connected')
      BY <2>2, <3>2
    <3> QED
      BY <3>1, <3>3
  <2>6. RequestOrder(e)'
    <3>1. \A i \in 1 .. Len(requests'[e]) :
            requests'[e][i].id = "PING" /\ requests'[e][i].by = server'
              => linked'[e] /\ From(requests'[e], i, server')
                 /\ Behind(requests'[e], i, Connected')
      BY <1>5, <2>1, <2>4
    <3>2. Answered(e)' =>
            /\ linked'[e] /\ From(requests'[e], 0, server')
            /\ (mem'[e] = shared_mem' \/ (epc'[e] # "work" /\ Behind(requests'[e], 0, Connected')))
      BY <1>2, <1>5, <2>1, <2>5
    <3> QED
      BY <3>1, <3>2 DEF RequestOrder
  <2> QED
    BY <1>3, <2>6 DEF Order
<1> QED
  BY <1>1, <1>4, <1>5

(* Only the PONG of its own PING proves something to the server. *)
LEMMA TakeProved ==
  ASSUME TypeOK, NEW e \in Encoders, Take(e)
  PROVE  \/ proved'[e] = proved[e]
         \/ /\ proved'[e] = TRUE
            /\ Head(responses[e]).id = "PONG" /\ Head(responses[e]).by = server
<1> DEFINE v == \/ proved[e]
                \/ /\ Head(responses[e]).id = "PONG"
                   /\ Head(responses[e]).by = server
<1>1. proved \in [Encoders -> BOOLEAN] /\ proved' = [proved EXCEPT ![e] = v]
  BY DEF Take, TypeOK
<1> HIDE DEF v
<1>2. proved'[e] = v
  BY <1>1
<1> QED
  BY <1>1, <1>2, Zenon DEF v

(* A response that is taken from the front leaves the others in order. *)
LEMMA TakeOrder ==
  ASSUME TypeOK, OrderInv, NEW d \in Encoders, Take(d), Connected' => Connected,
         UNCHANGED <<server, shared_mem, linked, requests, encoderVars, faultVars>>
  PROVE  OrderInv'
<1> SUFFICES ASSUME NEW e \in Encoders, Clean(e)' PROVE Order(e)'
  BY DEF OrderInv
<1>1. Clean(e) /\ Order(e)
  BY DEF Clean, OrderInv, Order
<1>2. CASE e # d
  <2>1. proved'[e] = proved[e] /\ responses'[e] = responses[e]
    BY <1>2 DEF Take, TypeOK
  <2> QED
    BY <1>1, <2>1, Untouched
<1>3. CASE e = d
  <2> DEFINE r == responses[e]
  <2>1. /\ r \in Seq(Msgs) /\ r # <<>> /\ responses'[e] = Tail(r)
        /\ proved'[e] => proved[e] \/ (Head(r).id = "PONG" /\ Head(r).by = server)
    <3>1. /\ r \in Seq(Msgs) /\ r # <<>> /\ responses'[e] = Tail(r)
      BY <1>3 DEF Take, TypeOK
    <3>2. proved'[e] => proved[e] \/ (Head(r).id = "PONG" /\ Head(r).by = server)
      BY <1>3, TakeProved
    <3> QED
      BY <3>1, <3>2
  <2>2. /\ Len(r) \in Nat \ {0} /\ Head(r) = r[1] /\ Len(Tail(r)) = Len(r) - 1
        /\ \A i \in 1 .. Len(Tail(r)) : Tail(r)[i] = r[i + 1]
    BY <2>1, HeadTailProperties
  <2>3. Answered(e)' => Answered(e)
    BY <2>1, <2>2 DEF Answered
  <2>4. RequestOrder(e)'
    <3>1. \A i : Behind(requests[e], i, Connected) => Behind(requests[e], i, Connected')
      BY BehindWeaker
    <3> QED
      BY <1>1, <2>3, <3>1 DEF Order, RequestOrder
  <2>5. ASSUME NEW j \in 1 .. Len(Tail(r)), Tail(r)[j].id = "FRAME_RESPONSE",
               \/ proved'[e]
               \/ \E i \in 1 .. j - 1 : Tail(r)[i].id = "PONG" /\ Tail(r)[i].by = server
        PROVE  Tail(r)[j].mem = shared_mem
    <3>1. j + 1 \in 1 .. Len(r) /\ Tail(r)[j] = r[j + 1] /\ 1 \in 1 .. j
      BY <2>2
    <3>2. proved[e] \/ \E i \in 1 .. j : r[i].id = "PONG" /\ r[i].by = server
      BY <2>1, <2>2, <2>5, <3>1
    <3> QED
      BY <1>1, <2>5, <3>1, <3>2 DEF Order, ResponseOrder
  <2> QED
    BY <2>1, <2>4, <2>5 DEF Order, ResponseOrder
<1> QED
  BY <1>2, <1>3

(* Nothing is proved to a server that has just begun, and nothing of it is  *)
(* under way.                                                               *)
LEMMA RestartOrder ==
  ASSUME TypeOK, PastInv, ServerRestart
  PROVE  OrderInv'
<1> SUFFICES ASSUME NEW e \in Encoders PROVE Order(e)'
  BY DEF OrderInv
<1>1. server \in Nat /\ server' = server + 1 /\ ~proved'[e]
  BY DEF ServerRestart, TypeOK
<1>2. requests[e] \in Seq(Msgs) /\ responses[e] \in Seq(Msgs)
  BY DEF TypeOK
<1>3. ASSUME NEW m \in Msgs, m.by <= server
      PROVE  m.by # server'
  <2>1. m.by \in Nat
    BY DEF Msgs
  <2> QED
    BY <1>1, <1>3, <2>1
<1>4. \A i \in 1 .. Len(requests'[e]) : requests'[e][i].by # server'
  <2>1. \A i \in 1 .. Len(requests'[e]) :
          i \in 1 .. Len(requests[e]) /\ requests'[e][i] = requests[e][i]
    BY <1>2, Killed, PrefixType
  <2>2. \A i \in 1 .. Len(requests[e]) :
          requests[e][i] \in Msgs /\ requests[e][i].by <= server
    BY <1>2 DEF PastInv
  <2> QED
    BY <1>3, <2>1, <2>2
<1>5. \A i \in 1 .. Len(responses'[e]) : responses'[e][i].by # server'
  <2>1. \A p \in Suffixes(responses[e]) : \A k \in 1 .. Len(p) :
          \E j \in 1 .. Len(responses[e]) : p[k] = responses[e][j]
    BY <1>2, SuffixType
  <2>2. \A i \in 1 .. Len(responses'[e]) :
          \E j \in 1 .. Len(responses[e]) : responses'[e][i] = responses[e][j]
    BY <2>1, Killed
  <2>3. \A i \in 1 .. Len(responses[e]) :
          responses[e][i] \in Msgs /\ responses[e][i].by <= server
    BY <1>2 DEF PastInv
  <2> QED
    BY <1>3, <2>2, <2>3
<1>6. ~Answered(e)'
  BY <1>1, <1>5 DEF Answered
<1>7. RequestOrder(e)'
  BY <1>4, <1>6 DEF RequestOrder
<1>8. responses'[e] \in Seq(Msgs)
  BY RestartType DEF TypeOK
<1>9. ASSUME NEW j \in 1 .. Len(responses'[e])
      PROVE  \A i \in 1 .. j - 1 : responses'[e][i].by # server'
  BY <1>5, <1>8
<1> QED
  BY <1>1, <1>7, <1>9 DEF Order, ResponseOrder

(* e sends m: in the segment, if it has answered a PING. *)
LEMMA RespondOrder ==
  ASSUME TypeOK, NEW e \in Encoders, NEW m \in Msgs, Respond(e, m), ResponseOrder(e),
         UNCHANGED <<server, shared_mem, proved>>,
         m.id = "FRAME_RESPONSE" /\ Answered(e) => m.mem = shared_mem
  PROVE  /\ ResponseOrder(e)'
         /\ Answered(e)' => Answered(e) \/ (m.id = "PONG" /\ m.by = server)
<1> DEFINE r == responses[e]
           a == Append(r, m)
<1>1. r \in Seq(Msgs)
  BY DEF TypeOK
<1>2. /\ Len(r) \in Nat /\ Len(a) = Len(r) + 1 /\ a[Len(r) + 1] = m
      /\ \A j \in 1 .. Len(r) : a[j] = r[j]
  BY <1>1, AppendProperties
<1>3. CASE responses'[e] = r
  BY <1>3 DEF ResponseOrder, Answered
<1>4. CASE responses'[e] = a
  <2> HIDE DEF a
  <2>1. ASSUME NEW j \in 1 .. Len(a), a[j].id = "FRAME_RESPONSE",
               \/ proved[e]
               \/ \E i \in 1 .. j - 1 : a[i].id = "PONG" /\ a[i].by = server
        PROVE  a[j].mem = shared_mem
    <3>1. \/ proved[e]
          \/ \E i \in 1 .. j - 1 : r[i].id = "PONG" /\ r[i].by = server
      <4>1. \A i \in 1 .. j - 1 : a[i] = r[i]
        BY <1>2
      <4> QED
        BY <2>1, <4>1
    <3>2. CASE j = Len(r) + 1
      BY <1>2, <2>1, <3>1, <3>2 DEF Answered
    <3>3. CASE j # Len(r) + 1
      BY <1>2, <2>1, <3>1, <3>3 DEF ResponseOrder
    <3> QED
      BY <3>2, <3>3
  <2>2. ResponseOrder(e)'
    BY <1>4, <2>1 DEF ResponseOrder
  <2>3. Answered(e)' => Answered(e) \/ (m.id = "PONG" /\ m.by = server)
    BY <1>2, <1>4 DEF Answered
  <2> QED
    BY <2>2, <2>3
<1> QED
  BY <1>3, <1>4 DEF Respond, TypeOK

(* e receives what comes first. *)
LEMMA ReceiveOrder ==
  ASSUME TypeOK, NEW e \in Encoders, NEW id, EncoderReceive(e, id), RequestOrder(e)
  PROVE  /\ \A i \in 1 .. Len(requests'[e]) :
              requests'[e][i].id = "PING" /\ requests'[e][i].by = server
                => /\ linked[e] /\ From(requests'[e], i, server)
                   /\ Behind(requests'[e], i, Connected)
         /\ Head(requests[e]).id = "PING" /\ Head(requests[e]).by = server
              => /\ linked[e] /\ From(requests'[e], 0, server)
                 /\ Behind(requests'[e], 0, Connected)
         /\ Answered(e) =>
              /\ linked[e] /\ From(requests'[e], 0, server)
              /\ Head(requests[e]).by = server
              /\ \/ mem[e] = shared_mem
                 \/ id = "RESTART"
                 \/ id # "FRAME_REQUEST" /\ Behind(requests'[e], 0, Connected)
<1> DEFINE q == requests[e]
<1>1. /\ q \in Seq(Msgs) /\ q # <<>> /\ requests'[e] = Tail(q) /\ Head(q).id = id
  BY DEF EncoderReceive, TypeOK
<1>2. /\ Len(q) \in Nat \ {0} /\ Head(q) = q[1] /\ Len(Tail(q)) = Len(q) - 1
      /\ \A i \in 1 .. Len(Tail(q)) : Tail(q)[i] = q[i + 1]
  BY <1>1, HeadTailProperties
<1>3. \A i \in Nat :
        /\ Behind(q, i + 1, Connected) => Behind(Tail(q), i, Connected)
        /\ From(q, i + 1, server) => From(Tail(q), i, server)
  BY <1>1, BehindTail
<1>4. \A i \in 1 .. Len(q) : q[i].id = "PING" /\ q[i].by = server =>
        linked[e] /\ From(q, i, server) /\ Behind(q, i, Connected)
  BY DEF RequestOrder
<1>5. ASSUME NEW i \in 1 .. Len(Tail(q)), Tail(q)[i].id = "PING", Tail(q)[i].by = server
      PROVE  linked[e] /\ From(Tail(q), i, server) /\ Behind(Tail(q), i, Connected)
  <2>1. i + 1 \in 1 .. Len(q) /\ i \in Nat
    BY <1>2
  <2>2. linked[e] /\ From(q, i + 1, server) /\ Behind(q, i + 1, Connected)
    BY <1>2, <1>4, <1>5, <2>1
  <2> QED
    BY <1>3, <2>1, <2>2
<1>6. ASSUME q[1].id = "PING", q[1].by = server
      PROVE  linked[e] /\ From(Tail(q), 0, server) /\ Behind(Tail(q), 0, Connected)
  <2>1. linked[e] /\ From(q, 0 + 1, server) /\ Behind(q, 0 + 1, Connected)
    BY <1>2, <1>4, <1>6
  <2> QED
    BY <1>3, <2>1
<1>7. ASSUME Answered(e)
      PROVE  /\ linked[e] /\ From(Tail(q), 0, server) /\ q[1].by = server
             /\ \/ mem[e] = shared_mem
                \/ id = "RESTART"
                \/ id # "FRAME_REQUEST" /\ Behind(Tail(q), 0, Connected)
  <2>1. /\ linked[e] /\ From(q, 0, server)
        /\ mem[e] = shared_mem \/ Behind(q, 0, Connected)
    BY <1>7 DEF RequestOrder
  <2>2. From(q, 0 + 1, server) /\ q[1].by = server
    BY <1>2, <2>1 DEF From
  <2>3. From(Tail(q), 0, server)
    BY <1>3, <2>2
  <2>4. Behind(q, 0, Connected) /\ q[1].id # "RESTART"
          => Behind(Tail(q), 0, Connected) /\ q[1].id # "FRAME_REQUEST"
    BY <1>1, BehindHead
  <2> QED
    BY <1>1, <1>2, <2>1, <2>2, <2>3, <2>4
<1> HIDE DEF q
<1>8. /\ \A i \in 1 .. Len(requests'[e]) :
           requests'[e][i].id = "PING" /\ requests'[e][i].by = server
             => /\ linked[e] /\ From(requests'[e], i, server)
                /\ Behind(requests'[e], i, Connected)
      /\ Head(q).id = "PING" /\ Head(q).by = server
           => /\ linked[e] /\ From(requests'[e], 0, server)
              /\ Behind(requests'[e], 0, Connected)
  BY <1>1, <1>2, <1>5, <1>6
<1> QED
  BY <1>1, <1>2, <1>7, <1>8 DEF q

(* An encoder that answers PING receives the rest in order, or has done so. *)
LEMMA AnswerOrder ==
  ASSUME TypeOK, PastInv, NEW e \in Encoders, Order(e), AnswerPing(e)
  PROVE  Order(e)'
<1>1. EncoderReceive(e, "PING") /\ Head(requests[e]).id = "PING"
  BY DEF AnswerPing, EncoderReceive
<1>2. /\ UNCHANGED <<server, spc, shared_mem, proved, linked, epc, mem>>
      /\ Respond(e, Msg("PONG", Head(requests[e]).by))
  BY DEF AnswerPing
<1>3. Connected' = Connected /\ epc[e] # "work"
  BY <1>1, <1>2 DEF Connected, EncoderReceive
<1>4. /\ Msg("PONG", Head(requests[e]).by) \in Msgs
      /\ Msg("PONG", Head(requests[e]).by).id = "PONG"
      /\ Msg("PONG", Head(requests[e]).by).by = Head(requests[e]).by
  <2>1. Head(requests[e]) \in Msgs
    BY <1>1, ReceiveType
  <2>2. Head(requests[e]).by \in 1 .. MaxServers
    BY <2>1 DEF Msgs
  <2> QED
    BY <2>2 DEF Msg, Msgs
<1>5. /\ ResponseOrder(e)'
      /\ Answered(e)' => Answered(e) \/ Head(requests[e]).by = server
  BY <1>2, <1>4, RespondOrder DEF Order
<1>6. RequestOrder(e)
  BY DEF Order
<1>7. /\ \A i \in 1 .. Len(requests'[e]) :
           requests'[e][i].id = "PING" /\ requests'[e][i].by = server
             => /\ linked[e] /\ From(requests'[e], i, server)
                /\ Behind(requests'[e], i, Connected)
      /\ Answered(e)' =>
           /\ linked[e] /\ From(requests'[e], 0, server)
           /\ mem[e] = shared_mem \/ Behind(requests'[e], 0, Connected)
  BY <1>1, <1>5, <1>6, ReceiveOrder
<1>8. RequestOrder(e)'
  BY <1>2, <1>3, <1>7 DEF RequestOrder
<1> QED
  BY <1>5, <1>8 DEF Order

(* A RESTART or FRAME_REQUEST is received; the first maps the segment. *)
LEMMA WorkOrder ==
  ASSUME TypeOK, PastInv, NEW e \in Encoders, Order(e),
         TakeRestart(e) \/ TakeFrameRequest(e)
  PROVE  Order(e)'
<1>1. PICK id \in {"RESTART", "FRAME_REQUEST"} : EncoderReceive(e, id)
                /\ (id = "RESTART" => mem'[e] = Head(requests[e]).mem)
                /\ (id = "FRAME_REQUEST" => mem'[e] = mem[e])
  BY DEF TakeRestart, TakeFrameRequest, TypeOK
<1>2. UNCHANGED <<server, spc, shared_mem, proved, linked, responses>>
  BY DEF TakeRestart, TakeFrameRequest
<1>3. Connected' = Connected /\ Answered(e)' = Answered(e)
  BY <1>2 DEF Connected, Answered
<1>4. /\ Head(requests[e]).id = id
      /\ id = "RESTART" /\ Head(requests[e]).by = server
           => Head(requests[e]).mem = shared_mem
  <2>1. Head(requests[e]) = requests[e][1] /\ Len(requests[e]) > 0
    BY <1>1, ReceiveType
  <2>2. requests[e] \in Seq(Msgs)
    BY DEF TypeOK
  <2>3. Head(requests[e]).id = id /\ 1 \in 1 .. Len(requests[e])
    BY <1>1, <2>1, <2>2 DEF EncoderReceive
  <2> QED
    BY <2>1, <2>3 DEF PastInv
<1>5. RequestOrder(e)
  BY DEF Order
<1>6. /\ \A i \in 1 .. Len(requests'[e]) :
           requests'[e][i].id = "PING" /\ requests'[e][i].by = server
             => /\ linked[e] /\ From(requests'[e], i, server)
                /\ Behind(requests'[e], i, Connected)
      /\ Answered(e) =>
           /\ linked[e] /\ From(requests'[e], 0, server)
           /\ Head(requests[e]).by = server
           /\ mem[e] = shared_mem \/ id = "RESTART"
  BY <1>1, <1>5, ReceiveOrder
<1>7. Answered(e) => mem'[e] = shared_mem
  BY <1>1, <1>4, <1>6
<1>8. RequestOrder(e)'
  BY <1>2, <1>3, <1>6, <1>7 DEF RequestOrder
<1> QED
  BY <1>2, <1>8 DEF Order, ResponseOrder

(* e stops to work, and may answer what it worked on. *)
LEMMA StopOrder ==
  ASSUME TypeOK, NEW e \in Encoders, Order(e),
         EmptyResponse(e) \/ FrameResponse(e) \/ Fail(e)
  PROVE  Order(e)'
<1>1. /\ UNCHANGED <<server, spc, shared_mem, proved, linked, requests, mem>>
      /\ epc[e] = "work" /\ epc'[e] # "work"
  BY DEF EmptyResponse, FrameResponse, Fail, StopWork, TypeOK
<1>2. Connected' = Connected
  BY <1>1 DEF Connected
<1>3. ResponseOrder(e)' /\ (Answered(e)' => Answered(e))
  <2>1. Answered(e) => mem[e] = shared_mem
    BY <1>1 DEF Order, RequestOrder
  <2>2. /\ Msg("EMPTY_RESPONSE", request[e].by) \in Msgs
        /\ Msg("EMPTY_RESPONSE", request[e].by).id = "EMPTY_RESPONSE"
        /\ [Msg("FRAME_RESPONSE", request[e].by) EXCEPT !.mem = mem[e]] \in Msgs
        /\ [Msg("FRAME_RESPONSE", request[e].by) EXCEPT !.mem = mem[e]].id = "FRAME_RESPONSE"
        /\ [Msg("FRAME_RESPONSE", request[e].by) EXCEPT !.mem = mem[e]].mem = mem[e]
    <3>1. request[e].by \in 1 .. MaxServers /\ mem[e] \in 0 .. MaxServers
      BY DEF Msgs, TypeOK
    <3> QED
      BY <3>1 DEF Msg, Msgs
  <2>3. CASE EmptyResponse(e)
    BY <1>1, <2>2, <2>3, RespondOrder DEF EmptyResponse, Order
  <2>4. CASE FrameResponse(e)
    BY <1>1, <2>1, <2>2, <2>4, RespondOrder DEF FrameResponse, Order
  <2>5. CASE Fail(e)
    BY <2>5 DEF Fail, Order, ResponseOrder, Answered
  <2> QED
    BY <2>3, <2>4, <2>5
<1>4. RequestOrder(e)'
  BY <1>1, <1>2, <1>3 DEF Order, RequestOrder
<1> QED
  BY <1>3, <1>4 DEF Order

(* An encoder without a segment has not answered this server process. *)
LEMMA NullOrder ==
  ASSUME TypeOK, NEW e \in Encoders, Order(e), NullSegment(e)
  PROVE  Order(e)'
<1>1. Gone(e) /\ epc[e] = "work" /\ mem[e] = None
  BY DEF NullSegment
<1>2. UNCHANGED <<server, shared_mem, proved>> /\ requests'[e] = <<>>
      /\ \A i \in 1 .. Len(responses'[e]) :
           i \in 1 .. Len(responses[e]) /\ responses'[e][i] = responses[e][i]
  BY <1>1, GonePast, GoneType
<1>3. ~Answered(e)
  BY <1>1 DEF Order, RequestOrder, TypeOK
<1>4. ~Answered(e)'
  BY <1>2, <1>3 DEF Answered
<1>5. RequestOrder(e)'
  BY <1>2, <1>4 DEF RequestOrder
<1>6. ResponseOrder(e)'
  <2>1. responses'[e] \in Seq(Msgs)
    BY <1>1, GoneType
  <2>2. ASSUME NEW j \in 1 .. Len(responses'[e])
        PROVE  /\ ~proved'[e]
               /\ ~\E i \in 1 .. j - 1 : /\ responses'[e][i].id = "PONG"
                                         /\ responses'[e][i].by = server'
    BY <1>4, <2>1 DEF Answered
  <2> QED
    BY <2>2 DEF ResponseOrder
<1> QED
  BY <1>5, <1>6 DEF Order

(* A step of one encoder preserves the order of all of them. *)
LEMMA EncoderOrder ==
  ASSUME TypeOK, PastInv, OrderInv, NEW d \in Encoders,
         Subscribe(d) \/ EncoderRun(d) \/ Faults(d)
  PROVE  OrderInv'
<1> SUFFICES ASSUME NEW e \in Encoders, Clean(e)' PROVE Order(e)'
  BY DEF OrderInv
<1> USE DEF EncoderRun, Faults, Subscribe, AnswerPing, TakeRestart, TakeFrameRequest,
        EmptyResponse, FrameResponse, NullSegment, EncoderInterrupt, Fail, AppRestart,
        EncoderReceive, Respond, Work, StopWork, Gone
<1>1. UNCHANGED <<server, spc, shared_mem, proved, dropped>>
  OBVIOUS
<1>2. Connected' = Connected
  BY <1>1 DEF Connected
<1>3. CASE e # d
  <2>1. UNCHANGED <<requests[e], responses[e], linked[e], mem[e], epc[e], starts[e]>>
    BY <1>3 DEF TypeOK
  <2>2. interrupted = {}
    BY DEF Clean
  <2>3. Clean(e)
    BY <1>1, <2>1, <2>2 DEF Clean
  <2> QED
    BY <1>1, <1>2, <2>1, <2>3, Untouched DEF OrderInv
<1>4. CASE e = d
  <2>1. ~EncoderInterrupt(d)
    BY DEF Clean
  <2>2. ~AppRestart(d)
    BY <1>4 DEF Clean, TypeOK
  <2>3. Clean(e)
    BY <1>1, <1>4, <2>1, <2>2 DEF Clean
  <2>4. Order(e)
    BY <2>3 DEF OrderInv
  <2>5. CASE Subscribe(d)
    BY <1>4, <2>4, <2>5 DEF Order, RequestOrder, ResponseOrder, Answered, Connected, TypeOK
  <2> QED
    BY <1>4, <2>1, <2>2, <2>4, <2>5, AnswerOrder, WorkOrder, StopOrder, NullOrder
<1> QED
  BY <1>3, <1>4

(* Every step preserves OrderInv. *)
LEMMA OrderStep ==
  ASSUME TypeOK, PastInv, OrderInv, [Next]_vars
  PROVE  OrderInv'
<1>1. CASE Server
  <2>1. CASE ClearReceive \/ ReceivePong \/ ReceiveResponse
    BY <2>1, TakeOrder DEF ClearReceive, ReceivePong, ReceiveResponse, SGoto, Connected
  <2>2. CASE SendPing \/ SendRestart \/ SendFrameRequest
    <3>1. server \in 1 .. MaxServers /\ shared_mem \in 0 .. MaxServers
      BY DEF TypeOK
    <3>2. /\ Msg("PING", server) \in Msgs /\ Msg("FRAME_REQUEST", server) \in Msgs
          /\ Msg("PING", server).by = server /\ Msg("PING", server).id = "PING"
          /\ Msg("FRAME_REQUEST", server).by = server
          /\ Msg("FRAME_REQUEST", server).id = "FRAME_REQUEST"
      BY <3>1 DEF Msg, Msgs
    <3>3. Restart \in Msgs /\ Restart.by = server /\ Restart.id = "RESTART"
      BY <3>1 DEF Restart, Msg, Msgs
    <3>4. CASE SendPing
      BY <3>2, <3>4, PublishOrder DEF SendPing, SGoto, Connected
    <3>5. CASE SendRestart
      BY <3>3, <3>5, PublishOrder DEF SendRestart
    <3>6. CASE SendFrameRequest
      BY <3>2, <3>6, PublishOrder DEF SendFrameRequest, SGoto, Connected
    <3> QED
      BY <2>2, <3>4, <3>5, <3>6
  <2>3. CASE ClearDone \/ ReceivePongTimeout \/ ReceiveResponseTimeout \/ ReadFrame
    <3>1. Connected' => Connected
      BY <2>3 DEF ClearDone, ReceivePongTimeout, ReceiveResponseTimeout, ReadFrame,
         SGoto, Connected
    <3>2. UNCHANGED <<server, shared_mem, proved, linked, requests, responses, encoderVars,
                      faultVars>>
      BY <2>3 DEF ClearDone, ReceivePongTimeout, ReceiveResponseTimeout, ReadFrame
    <3> QED
      BY <3>1, <3>2, Untouched DEF OrderInv, Order, Clean
  <2> QED
    BY <1>1, <2>1, <2>2, <2>3 DEF Server
<1>2. CASE ServerInterrupt
  BY <1>2 DEF ServerInterrupt, OrderInv, Clean
<1>3. CASE UNCHANGED vars
  <2>1. Connected' = Connected
    BY <1>3 DEF vars, Connected
  <2> QED
    BY <1>3, <2>1, Untouched DEF vars, OrderInv, Order, Clean
<1> QED
  BY <1>1, <1>2, <1>3, RestartOrder, EncoderOrder DEF Next

-----------------------------------------------------------------------------
(* One encoder and the first server *)

(* A step of the server that sends nothing preserves FirstOrder. *)
LEMMA FirstQuiet ==
  ASSUME NEW e \in Encoders, FirstOrder(e), Connected' => Connected, spc' # "restart",
         UNCHANGED <<requests, responses, mem, epc, linked>>
  PROVE  FirstOrder(e)'
<1>1. Behind(requests[e], 0, Connected) => Behind(requests[e], 0, Connected')
  BY BehindWeaker
<1> QED
  BY <1>1 DEF FirstOrder

(* What the first server sends reaches its encoder after RESTART. *)
LEMMA FirstPublish ==
  ASSUME TypeOK, NEW e \in Encoders, FirstOrder(e), ~dropped'[e],
         NEW m \in Msgs, Publish(m), m.id = "FRAME_REQUEST" => Connected,
         Connected' => Connected \/ m.id = "RESTART", m.id = "RESTART" => spc = "restart",
         spc' # "restart", UNCHANGED <<linked, responses, mem, epc>>
  PROVE  FirstOrder(e)'
<1> DEFINE q == requests[e]
<1>1. /\ q \in Seq(Msgs) /\ linked[e] \in BOOLEAN
      /\ requests'[e] = IF linked[e] THEN Append(q, m) ELSE q
  BY DEF Publish, TypeOK
<1>2. 0 \in 0 .. Len(q)
  BY <1>1
<1>3. CASE linked[e]
  <2>1. Behind(q, 0, Connected) => Behind(Append(q, m), 0, Connected')
    BY <1>1, <1>2, BehindAppend
  <2> QED
    BY <1>1, <1>3, <2>1 DEF FirstOrder
<1>4. CASE ~linked[e]
  <2>1. Behind(q, 0, Connected) => Behind(q, 0, Connected')
    BY <1>4, BehindWeaker DEF FirstOrder
  <2> QED
    BY <1>1, <1>4, <2>1 DEF FirstOrder
<1> QED
  BY <1>1, <1>3, <1>4

(* Without a segment, an encoder receives no FRAME_REQUEST before RESTART. *)
LEMMA FirstReceive ==
  ASSUME TypeOK, NEW e \in Encoders, FirstOrder(e), NEW id, EncoderReceive(e, id)
  PROVE  /\ linked[e]
         /\ mem[e] = None =>
              \/ id = "RESTART"
              \/ id # "FRAME_REQUEST" /\ Behind(requests'[e], 0, Connected)
<1> DEFINE q == requests[e]
<1>1. /\ q \in Seq(Msgs) /\ q # <<>> /\ requests'[e] = Tail(q)
      /\ Head(q) = q[1] /\ q[1].id = id
  BY DEF EncoderReceive, TypeOK
<1>2. Behind(q, 0, Connected) /\ q[1].id # "RESTART"
        => Behind(Tail(q), 0, Connected) /\ q[1].id # "FRAME_REQUEST"
  BY <1>1, BehindHead
<1> QED
  BY <1>1, <1>2 DEF FirstOrder

(* The steps of the only encoder preserve FirstOrder. *)
LEMMA FirstEncoder ==
  ASSUME TypeOK, PastInv, NEW e \in Encoders, First(e)', FirstOrder(e), server = 1,
         Subscribe(e) \/ EncoderRun(e) \/ Faults(e)
  PROVE  FirstOrder(e)'
<1>1. UNCHANGED spc /\ Connected' = Connected
  BY DEF EncoderRun, Faults, Subscribe, AnswerPing, TakeRestart, TakeFrameRequest,
     EmptyResponse, FrameResponse, NullSegment, EncoderInterrupt, Fail, AppRestart, Gone,
     Connected
<1>2. CASE Subscribe(e)
  BY <1>1, <1>2 DEF Subscribe, FirstOrder, TypeOK
<1>3. CASE AnswerPing(e)
  <2>1. EncoderReceive(e, "PING") /\ UNCHANGED <<linked, mem, epc>>
    BY <1>3 DEF AnswerPing
  <2> QED
    BY <1>1, <2>1, FirstReceive DEF EncoderReceive, FirstOrder
<1>4. CASE TakeRestart(e)
  <2>1. EncoderReceive(e, "RESTART") /\ UNCHANGED linked /\ mem'[e] = Head(requests[e]).mem
    BY <1>4 DEF TakeRestart, TypeOK
  <2>2. Head(requests[e]) \in Msgs /\ Head(requests[e]).mem = shared_mem
    <3>1. Head(requests[e]) \in Msgs /\ Head(requests[e]) = requests[e][1]
          /\ Len(requests[e]) > 0 /\ Head(requests[e]).id = "RESTART"
      BY <2>1, ReceiveType DEF EncoderReceive
    <3>2. requests[e] \in Seq(Msgs)
      BY DEF TypeOK
    <3>3. Head(requests[e]).by \in 1 .. MaxServers /\ 1 \in 1 .. Len(requests[e])
      BY <3>1, <3>2 DEF Msgs
    <3>4. Head(requests[e]).by <= server
      BY <3>1, <3>3 DEF PastInv
    <3>5. Head(requests[e]).by = server
      BY <3>3, <3>4
    <3> QED
      BY <3>1, <3>3, <3>5 DEF PastInv
  <2>3. mem'[e] # None
    BY <2>1, <2>2 DEF TypeOK
  <2> QED
    BY <2>1, <2>3, FirstReceive DEF FirstOrder
<1>5. CASE TakeFrameRequest(e)
  <2>1. EncoderReceive(e, "FRAME_REQUEST") /\ UNCHANGED <<linked, mem>>
    BY <1>5 DEF TakeFrameRequest
  <2> QED
    BY <2>1, FirstReceive DEF FirstOrder
<1>6. CASE EmptyResponse(e) \/ FrameResponse(e) \/ Fail(e)
  BY <1>1, <1>6 DEF EmptyResponse, FrameResponse, Fail, FirstOrder
<1>7. ~NullSegment(e)
  BY DEF NullSegment, FirstOrder
<1>8. ~EncoderInterrupt(e) /\ ~AppRestart(e)
  BY DEF EncoderInterrupt, AppRestart, First, Clean, TypeOK
<1> QED
  BY <1>2, <1>3, <1>4, <1>5, <1>6, <1>7, <1>8 DEF EncoderRun, Faults

(* Every step preserves FirstInv. *)
LEMMA FirstStep ==
  ASSUME TypeOK, PastInv, FirstInv, [Next]_vars
  PROVE  FirstInv'
<1> SUFFICES ASSUME NEW e \in Encoders, First(e)' PROVE FirstOrder(e)'
  BY DEF FirstInv
<1>1. ~ServerRestart /\ ~ServerInterrupt
  BY DEF ServerRestart, ServerInterrupt, First, Clean, TypeOK
<1>2. CASE UNCHANGED vars
  BY <1>2 DEF vars, FirstInv, First, FirstOrder, Clean, Connected
<1>3. CASE Server
  <2>1. First(e)
    BY <1>3 DEF Server, ClearReceive, ClearDone, SendPing, ReceivePong, ReceivePongTimeout,
       SendRestart, SendFrameRequest, ReceiveResponse, ReceiveResponseTimeout, ReadFrame,
       Publish, First, Clean, TypeOK
  <2>2. FirstOrder(e)
    BY <2>1 DEF FirstInv, First, FirstOrder
  <2>3. CASE ClearReceive \/ ReceivePong \/ ReceiveResponse
    <3>1. PICK d \in Encoders : Take(d)
      BY <2>3 DEF ClearReceive, ReceivePong, ReceiveResponse
    <3>2. responses[e] # <<>>
      BY <2>1, <3>1 DEF Take, First
    <3>3. UNCHANGED <<requests, linked, mem, epc>> /\ (Connected' => Connected)
      BY <2>3 DEF ClearReceive, ReceivePong, ReceiveResponse, SGoto, Connected
    <3>4. Behind(requests[e], 0, Connected) => Behind(requests[e], 0, Connected')
      BY <3>3, BehindWeaker
    <3> QED
      BY <2>2, <3>2, <3>3, <3>4 DEF FirstOrder
  <2>4. CASE SendPing \/ SendRestart \/ SendFrameRequest
    <3>1. server \in 1 .. MaxServers /\ shared_mem \in 0 .. MaxServers
      BY DEF TypeOK
    <3>2. /\ Msg("PING", server) \in Msgs /\ Msg("FRAME_REQUEST", server) \in Msgs
          /\ Msg("PING", server).id = "PING"
          /\ Msg("FRAME_REQUEST", server).id = "FRAME_REQUEST"
      BY <3>1 DEF Msg, Msgs
    <3>3. Restart \in Msgs /\ Restart.id = "RESTART"
      BY <3>1 DEF Restart, Msg, Msgs
    <3>4. ~dropped'[e]
      BY DEF First, Clean
    <3>5. CASE SendPing
      BY <2>2, <3>2, <3>4, <3>5, FirstPublish DEF SendPing, SGoto, Connected
    <3>6. CASE SendRestart
      BY <2>2, <3>3, <3>4, <3>6, FirstPublish DEF SendRestart, SGoto
    <3>7. CASE SendFrameRequest
      BY <2>2, <3>2, <3>4, <3>7, FirstPublish DEF SendFrameRequest, SGoto, Connected
    <3> QED
      BY <2>4, <3>5, <3>6, <3>7
  <2>5. CASE ClearDone \/ ReceivePongTimeout \/ ReceiveResponseTimeout \/ ReadFrame
    BY <2>2, <2>5, FirstQuiet DEF ClearDone, ReceivePongTimeout, ReceiveResponseTimeout,
       ReadFrame, SGoto, Connected
  <2> QED
    BY <1>3, <2>3, <2>4, <2>5 DEF Server
<1>4. ASSUME NEW d \in Encoders, Subscribe(d) \/ EncoderRun(d) \/ Faults(d)
      PROVE  FirstOrder(e)'
  <2>1. d = e
    BY DEF First
  <2>2. UNCHANGED <<server, dropped>>
    BY <1>4 DEF EncoderRun, Faults, Subscribe, AnswerPing, TakeRestart, TakeFrameRequest,
       EmptyResponse, FrameResponse, NullSegment, EncoderInterrupt, Fail, AppRestart, Gone
  <2>3. ~EncoderInterrupt(e) /\ ~AppRestart(e)
    BY DEF EncoderInterrupt, AppRestart, First, Clean, TypeOK
  <2>4. UNCHANGED <<starts, interrupted>>
    BY <1>4, <2>1, <2>3 DEF EncoderRun, Faults, Subscribe, AnswerPing, TakeRestart,
       TakeFrameRequest, EmptyResponse, FrameResponse, NullSegment, Fail, Gone
  <2>5. First(e)
    BY <2>2, <2>4 DEF First, Clean
  <2> QED
    BY <1>4, <2>1, <2>5, FirstEncoder DEF FirstInv, First, FirstOrder
<1> QED
  BY <1>1, <1>2, <1>3, <1>4 DEF Next

-----------------------------------------------------------------------------
(* One encoder that is ahead of the server *)

(* What is counted are natural numbers. *)
LEMMA AheadTypes ==
  TypeOK => \A e \in Encoders :
    /\ Len(requests[e]) \in Nat /\ Len(responses[e]) \in Nat
    /\ Ahead(e) \in Nat /\ Credit \in 0 .. 2 /\ Limit \in Nat
<1> SUFFICES ASSUME TypeOK, NEW e \in Encoders
             PROVE  /\ Len(requests[e]) \in Nat /\ Len(responses[e]) \in Nat
                    /\ Ahead(e) \in Nat /\ Credit \in 0 .. 2 /\ Limit \in Nat
  OBVIOUS
<1>1. /\ requests \in [Encoders -> Seq(Msgs)] /\ responses \in [Encoders -> Seq(Msgs)]
      /\ Len(requests[e]) \in Nat /\ Len(responses[e]) \in Nat
  BY DEF TypeOK
<1> QED
  <2>1. Working(e) \in Nat /\ Credit \in 0 .. 2
    BY DEF Working, Credit
  <2> QED
    BY <1>1, <2>1 DEF Ahead, UnderWay, Limit

(* The same of the next state. *)
LEMMA AheadTypesPrimed ==
  TypeOK' => (\A e \in Encoders :
    /\ Len(requests[e]) \in Nat /\ Len(responses[e]) \in Nat
    /\ Ahead(e) \in Nat /\ Credit \in 0 .. 2 /\ Limit \in Nat)'
  BY AheadTypes, PTL

(* A request makes the pipe longer by one, or is dropped. *)
LEMMA PublishLength ==
  ASSUME TypeOK, NEW e \in Encoders, NEW m \in Msgs, Publish(m)
  PROVE  /\ \/ Len(requests'[e]) = Len(requests[e])
            \/ Len(requests'[e]) = Len(requests[e]) + 1
         /\ UNCHANGED interrupted
<1>1. requests'[e] = requests[e] \/ requests'[e] = Append(requests[e], m)
  BY DEF Publish
<1>2. requests[e] \in Seq(Msgs)
  BY DEF TypeOK
<1> QED
  BY <1>1, <1>2, AppendProperties DEF Publish

(* The server makes the pipe of the responses shorter by one. *)
LEMMA TakeLength ==
  ASSUME TypeOK, NEW e \in Encoders, Take(e)
  PROVE  Len(responses'[e]) = Len(responses[e]) - 1
<1>1. responses'[e] = Tail(responses[e]) /\ responses[e] # <<>> /\ responses[e] \in Seq(Msgs)
  BY DEF Take, TypeOK
<1> QED
  BY <1>1, HeadTailProperties

(* A response makes the pipe longer by one, or is dropped. *)
LEMMA RespondLength ==
  ASSUME TypeOK, NEW e \in Encoders, NEW m \in Msgs, Respond(e, m)
  PROVE  \/ Len(responses'[e]) = Len(responses[e])
         \/ Len(responses'[e]) = Len(responses[e]) + 1
<1>1. responses'[e] = responses[e] \/ responses'[e] = Append(responses[e], m)
  BY DEF Respond, TypeOK
<1>2. responses[e] \in Seq(Msgs)
  BY DEF TypeOK
<1> QED
  BY <1>1, <1>2, AppendProperties

(* An encoder makes the pipe of the requests shorter by one. *)
LEMMA ReceiveLength ==
  ASSUME TypeOK, NEW e \in Encoders, NEW id, EncoderReceive(e, id)
  PROVE  Len(requests'[e]) = Len(requests[e]) - 1
<1>1. requests'[e] = Tail(requests[e]) /\ requests[e] # <<>> /\ requests[e] \in Seq(Msgs)
  BY DEF EncoderReceive, TypeOK
<1> QED
  BY <1>1, HeadTailProperties

(* The server receives an answer, finds that nothing is under way, or sends *)
(* one request for an answer that it counts on, or for RESTART.             *)
LEMMA ServerAhead ==
  ASSUME TypeOK, TypeOK', NEW e \in Encoders, \A d \in Encoders : d = e, patient, Server,
         epc[e] \in {"receive", "work"}, Ahead(e) <= Limit
  PROVE  Ahead(e)' <= Limit'
<1>1. /\ requests \in [Encoders -> Seq(Msgs)] /\ responses \in [Encoders -> Seq(Msgs)]
      /\ requests' \in [Encoders -> Seq(Msgs)] /\ responses' \in [Encoders -> Seq(Msgs)]
      /\ Len(requests[e]) \in Nat /\ Len(responses[e]) \in Nat
      /\ Ahead(e) \in Nat /\ Limit \in Nat /\ Ahead(e)' \in Nat /\ Limit' \in Nat
      /\ Credit \in Nat /\ Working(e) \in Nat
  <2>1. /\ requests \in [Encoders -> Seq(Msgs)] /\ responses \in [Encoders -> Seq(Msgs)]
        /\ requests' \in [Encoders -> Seq(Msgs)] /\ responses' \in [Encoders -> Seq(Msgs)]
    BY DEF TypeOK
  <2>2. Working(e) \in Nat
    BY DEF Working
  <2>3. /\ Len(requests[e]) \in Nat /\ Len(responses[e]) \in Nat
        /\ Ahead(e) \in Nat /\ Limit \in Nat /\ Credit \in Nat
    BY AheadTypes
  <2>4. Ahead(e)' \in Nat /\ Limit' \in Nat
    BY AheadTypesPrimed
  <2> QED
    BY <2>1, <2>2, <2>3, <2>4
<1>2. CASE ClearReceive \/ ReceivePong \/ ReceiveResponse
  <2>1. Take(e) /\ UNCHANGED <<requests, epc, interrupted>>
    BY <1>2 DEF ClearReceive, ReceivePong, ReceiveResponse
  <2>2. \/ spc = "clear" /\ spc' = "clear"
        \/ spc = "pong" /\ spc' = "restart"
        \/ spc = "response" /\ spc' \in {"read", "request"}
    BY <1>2 DEF ClearReceive, ReceivePong, ReceiveResponse, SGoto
  <2>3. Credit' = Credit \/ Credit' = Credit - 1
    BY <2>2 DEF Credit
  <2>4. Limit' = Limit \/ Limit' = Limit - 1
    BY <1>1, <2>1, <2>3 DEF Limit
  <2>5. Len(responses'[e]) = Len(responses[e]) - 1 /\ Len(requests'[e]) = Len(requests[e])
    BY <1>1, <2>1, TakeLength
  <2>6. Working(e)' = Working(e)
    BY <2>1 DEF Working
  <2>7. Ahead(e)' = Ahead(e) - 1
    BY <1>1, <2>5, <2>6 DEF Ahead, UnderWay
  <2> QED
    BY <1>1, <2>4, <2>7
<1>3. CASE ClearDone \/ ReceivePongTimeout \/ ReceiveResponseTimeout
  <2>1. Timeout /\ UNCHANGED <<requests, responses, epc>>
    BY <1>3 DEF ClearDone, ReceivePongTimeout, ReceiveResponseTimeout
  <2>2. responses[e] = <<>> /\ requests[e] = <<>> /\ epc[e] # "work"
    BY <2>1 DEF Timeout
  <2>3. Ahead(e)' = 0
    BY <2>1, <2>2 DEF Ahead, UnderWay, Working
  <2> QED
    BY <1>1, <2>3
<1>4. CASE SendPing \/ SendRestart \/ SendFrameRequest
  <2>1. \E m \in Msgs : Publish(m)
    <3>1. server \in 1 .. MaxServers /\ shared_mem \in 0 .. MaxServers
      BY DEF TypeOK
    <3>2. /\ Msg("PING", server) \in Msgs /\ Msg("FRAME_REQUEST", server) \in Msgs
          /\ Restart \in Msgs
      BY <3>1 DEF Restart, Msg, Msgs
    <3> QED
      BY <1>4, <3>2 DEF SendPing, SendRestart, SendFrameRequest
  <2>2. Credit' = Credit + 1 /\ UNCHANGED <<responses, epc>>
    BY <1>4 DEF SendPing, SendRestart, SendFrameRequest, SGoto, Credit
  <2>3. PICK i \in {0, 1} : Len(requests'[e]) = Len(requests[e]) + i /\ UNCHANGED interrupted
    BY <1>1, <2>1, PublishLength
  <2>4. Limit' = Limit + 1
    BY <1>1, <2>2, <2>3 DEF Limit
  <2>5. Len(responses'[e]) = Len(responses[e]) /\ Working(e)' = Working(e)
    BY <1>1, <2>2 DEF Working
  <2>6. Ahead(e)' = Ahead(e) + i
    BY <1>1, <2>3, <2>5 DEF Ahead, UnderWay
  <2> QED
    BY <1>1, <2>4, <2>6
<1>5. CASE ReadFrame
  <2>1. Ahead(e)' = Ahead(e)
    BY <1>5 DEF ReadFrame, Ahead, UnderWay, Working
  <2>2. Limit' = Limit
    BY <1>5 DEF ReadFrame, SGoto, Credit, Limit
  <2> QED
    BY <2>1, <2>2
<1> QED
  BY <1>2, <1>3, <1>4, <1>5 DEF Server

(* The encoder turns a request into work and work into an answer; a signal  *)
(* gives it work that nobody asked for.                                     *)
LEMMA EncoderAhead ==
  ASSUME TypeOK, TypeOK', NEW e \in Encoders,
         Subscribe(e) \/ EncoderRun(e) \/ EncoderInterrupt(e),
         epc'[e] \in {"receive", "work"}, Ahead(e) <= Limit
  PROVE  Ahead(e)' <= Limit'
<1>1. /\ requests \in [Encoders -> Seq(Msgs)] /\ responses \in [Encoders -> Seq(Msgs)]
      /\ requests' \in [Encoders -> Seq(Msgs)] /\ responses' \in [Encoders -> Seq(Msgs)]
      /\ Len(requests[e]) \in Nat /\ Len(responses[e]) \in Nat
      /\ Ahead(e) \in Nat /\ Limit \in Nat /\ Ahead(e)' \in Nat /\ Limit' \in Nat
      /\ Credit \in Nat /\ Working(e) \in Nat
  <2>1. /\ requests \in [Encoders -> Seq(Msgs)] /\ responses \in [Encoders -> Seq(Msgs)]
        /\ requests' \in [Encoders -> Seq(Msgs)] /\ responses' \in [Encoders -> Seq(Msgs)]
    BY DEF TypeOK
  <2>2. Working(e) \in Nat
    BY DEF Working
  <2>3. /\ Len(requests[e]) \in Nat /\ Len(responses[e]) \in Nat
        /\ Ahead(e) \in Nat /\ Limit \in Nat /\ Credit \in Nat
    BY AheadTypes
  <2>4. Ahead(e)' \in Nat /\ Limit' \in Nat
    BY AheadTypesPrimed
  <2> QED
    BY <2>1, <2>2, <2>3, <2>4
<1>2. Credit' = Credit
  BY DEF EncoderRun, Subscribe, AnswerPing, TakeRestart, TakeFrameRequest, EmptyResponse,
     FrameResponse, NullSegment, EncoderInterrupt, Gone, Credit
<1>3. UNCHANGED interrupted => Limit' = Limit
  BY <1>2 DEF Limit
<1>4. CASE Subscribe(e)
  <2>1. Ahead(e)' = Ahead(e)
    BY <1>4 DEF Subscribe, Ahead, UnderWay, Working
  <2> QED
    BY <1>3, <1>4, <2>1 DEF Subscribe
<1>5. CASE AnswerPing(e)
  <2>1. EncoderReceive(e, "PING") /\ UNCHANGED <<epc, interrupted>>
    BY <1>5 DEF AnswerPing
  <2>2. PICK j \in {0, 1} : Len(responses'[e]) = Len(responses[e]) + j
    <3>1. Head(requests[e]) \in Msgs
      BY <2>1, ReceiveType
    <3>2. Msg("PONG", Head(requests[e]).by) \in Msgs
      BY <3>1 DEF Msg, Msgs
    <3> QED
      BY <1>1, <1>5, <3>2, RespondLength DEF AnswerPing
  <2>3. Len(requests'[e]) = Len(requests[e]) - 1
    BY <1>1, <2>1, ReceiveLength
  <2>4. Working(e)' = Working(e)
    BY <2>1 DEF Working
  <2>5. Ahead(e)' = Ahead(e) + j - 1
    BY <1>1, <2>2, <2>3, <2>4 DEF Ahead, UnderWay
  <2> QED
    BY <1>1, <1>3, <2>1, <2>2, <2>5
<1>6. CASE TakeRestart(e) \/ TakeFrameRequest(e)
  <2>1. /\ EncoderReceive(e, "RESTART") \/ EncoderReceive(e, "FRAME_REQUEST")
        /\ epc'[e] = "work" /\ UNCHANGED <<responses, interrupted>>
    BY <1>6 DEF TakeRestart, TakeFrameRequest, Work, TypeOK
  <2>2. /\ Len(requests'[e]) = Len(requests[e]) - 1
        /\ Len(responses'[e]) = Len(responses[e])
    BY <1>1, <2>1, ReceiveLength
  <2>3. Working(e)' = Working(e) + 1
    BY <2>1 DEF Working, EncoderReceive
  <2>4. Ahead(e)' = Ahead(e)
    BY <1>1, <2>2, <2>3 DEF Ahead, UnderWay
  <2> QED
    BY <1>1, <1>3, <2>1, <2>4
<1>7. CASE EmptyResponse(e) \/ FrameResponse(e)
  <2>1. \E m \in Msgs : Respond(e, m)
    <3>1. request[e].by \in 1 .. MaxServers /\ mem[e] \in 0 .. MaxServers
      BY DEF Msgs, TypeOK
    <3>2. /\ Msg("EMPTY_RESPONSE", request[e].by) \in Msgs
          /\ [Msg("FRAME_RESPONSE", request[e].by) EXCEPT !.mem = mem[e]] \in Msgs
      BY <3>1 DEF Msg, Msgs
    <3> QED
      BY <1>7, <3>2 DEF EmptyResponse, FrameResponse
  <2>2. /\ epc[e] = "work" /\ epc'[e] = "receive" /\ UNCHANGED <<requests, interrupted>>
    BY <1>7 DEF EmptyResponse, FrameResponse, StopWork, TypeOK
  <2>3. PICK j \in {0, 1} : Len(responses'[e]) = Len(responses[e]) + j
    BY <1>1, <2>1, RespondLength
  <2>4. Len(requests'[e]) = Len(requests[e]) /\ Working(e)' = Working(e) - 1
    BY <1>1, <2>2 DEF Working
  <2>5. Ahead(e)' = Ahead(e) + j - 1
    BY <1>1, <2>3, <2>4 DEF Ahead, UnderWay
  <2> QED
    BY <1>1, <1>3, <2>2, <2>3, <2>5
<1>8. CASE EncoderInterrupt(e)
  <2>1. /\ Len(requests'[e]) = Len(requests[e])
        /\ Len(responses'[e]) = Len(responses[e])
    BY <1>1, <1>8 DEF EncoderInterrupt
  <2>2. Working(e)' = Working(e) + 1
    BY <1>8 DEF EncoderInterrupt, Work, Working, TypeOK
  <2>3. Ahead(e)' = Ahead(e) + 1
    BY <1>1, <2>1, <2>2 DEF Ahead, UnderWay
  <2>4. Limit' = Limit + 1
    BY <1>1, <1>2, <1>8 DEF EncoderInterrupt, Limit
  <2> QED
    BY <1>1, <2>3, <2>4
<1>9. ~NullSegment(e)
  BY DEF NullSegment, StopWork, TypeOK
<1> QED
  BY <1>4, <1>5, <1>6, <1>7, <1>8, <1>9 DEF EncoderRun

(* Every step preserves AheadInv. *)
LEMMA AheadStep ==
  ASSUME TypeOK, TypeOK', AheadInv, [Next]_vars
  PROVE  AheadInv'
<1>1. (interrupted = {} \/ \E x : interrupted = {x})'
  <2>1. ServerInterrupt \/ (\E d \in Encoders : EncoderInterrupt(d)) \/ UNCHANGED interrupted
    BY DEF vars, Next, Server, ServerRestart, ClearReceive, ClearDone, SendPing, ReceivePong,
       ReceivePongTimeout, SendRestart, SendFrameRequest, ReceiveResponse,
       ReceiveResponseTimeout, ReadFrame, Publish, Subscribe, EncoderRun, Faults,
       AnswerPing, TakeRestart, TakeFrameRequest, EmptyResponse, FrameResponse,
       NullSegment, Fail, AppRestart, Gone
  <2> QED
    BY <2>1 DEF ServerInterrupt, EncoderInterrupt, AheadInv
<1>2. ASSUME NEW e \in Encoders, \A d \in Encoders : d = e, patient', server' = 1,
             starts'[e] = 1, epc'[e] \in {"receive", "work"}
      PROVE  Ahead(e)' <= Limit'
  <2>1. ~ServerRestart
    <3>1. ServerRestart => server' = server + 1 /\ server \in Nat \ {0}
      BY DEF ServerRestart, TypeOK
    <3> QED
      BY <1>2, <3>1
  <2>2. UNCHANGED <<server, patient>>
    BY <2>1 DEF vars, Next, Server, ServerInterrupt, ClearReceive, ClearDone, SendPing,
       ReceivePong, ReceivePongTimeout, SendRestart, SendFrameRequest, ReceiveResponse,
       ReceiveResponseTimeout, ReadFrame, Publish, Subscribe, EncoderRun, Faults,
       AnswerPing, TakeRestart, TakeFrameRequest, EmptyResponse, FrameResponse,
       NullSegment, EncoderInterrupt, Fail, AppRestart, Gone
  <2>3. ~AppRestart(e) /\ ~Fail(e)
    <3>1. AppRestart(e) => starts'[e] = starts[e] + 1 /\ starts[e] \in Nat \ {0}
      BY DEF AppRestart, TypeOK
    <3>2. Fail(e) => epc'[e] = "failed"
      BY DEF Fail, StopWork, TypeOK
    <3> QED
      BY <1>2, <3>1, <3>2
  <2>4. /\ Server \/ ServerInterrupt \/ Subscribe(e) \/ EncoderRun(e)
             \/ EncoderInterrupt(e) \/ UNCHANGED vars
    BY <1>2, <2>1, <2>3 DEF Next, Faults
  <2>5. starts[e] = 1 /\ epc[e] \in {"receive", "work"}
    <3>1. UNCHANGED starts
      BY <2>4 DEF vars, Server, ServerInterrupt, ClearReceive, ClearDone, SendPing,
         ReceivePong, ReceivePongTimeout, SendRestart, SendFrameRequest, ReceiveResponse,
         ReceiveResponseTimeout, ReadFrame, Subscribe, EncoderRun, AnswerPing,
         TakeRestart, TakeFrameRequest, EmptyResponse, FrameResponse, NullSegment,
         EncoderInterrupt, Gone
    <3>2. epc[e] \in {"receive", "work"} \/ UNCHANGED epc
      BY <2>4 DEF vars, Server, ServerInterrupt, ClearReceive, ClearDone, SendPing,
         ReceivePong, ReceivePongTimeout, SendRestart, SendFrameRequest, ReceiveResponse,
         ReceiveResponseTimeout, ReadFrame, Subscribe, EncoderRun, AnswerPing,
         TakeRestart, TakeFrameRequest, EmptyResponse, FrameResponse, NullSegment,
         EncoderInterrupt, EncoderReceive
    <3> QED
      BY <1>2, <3>1, <3>2
  <2>6. Ahead(e) <= Limit
    BY <1>2, <2>2, <2>5 DEF AheadInv
  <2>7. CASE ServerInterrupt
    <3>1. Ahead(e)' = Ahead(e)
      BY <2>7 DEF ServerInterrupt, Ahead, UnderWay, Working
    <3>2. Limit' = Limit \/ Limit' = Limit + 1
      BY <2>7 DEF ServerInterrupt, SGoto, Credit, Limit
    <3> QED
      BY <2>6, <3>1, <3>2, AheadTypes
  <2>8. CASE UNCHANGED vars
    BY <2>6, <2>8 DEF vars, Ahead, UnderWay, Working, Credit, Limit
  <2> QED
    BY <1>2, <2>2, <2>4, <2>5, <2>6, <2>7, <2>8, ServerAhead, EncoderAhead
<1> QED
  BY <1>1, <1>2 DEF AheadInv

-----------------------------------------------------------------------------
(* All begins with empty pipes. *)
LEMMA Start == Init => IInv
<1> SUFFICES ASSUME Init PROVE IInv
  OBVIOUS
<1>1. Msg("NONE", 1) \in Msgs /\ Msg("NONE", 1).by = 1
  BY DEF Msg, Msgs
<1>2. TypeOK
  BY <1>1 DEF Init, TypeOK
<1>3. PastInv
  BY <1>1 DEF Init, PastInv
<1>4. OrderInv
  BY DEF Init, OrderInv, Order, RequestOrder, ResponseOrder, Answered
<1>5. FirstInv
  BY DEF Init, FirstInv, FirstOrder, Behind, Connected
<1>6. AheadInv
  BY DEF Init, AheadInv, Ahead, UnderWay, Working, Credit, Limit
<1> QED
  BY <1>2, <1>3, <1>4, <1>5, <1>6 DEF IInv

(* Every step preserves the inductive invariant. *)
LEMMA Step == IInv /\ [Next]_vars => IInv'
<1> SUFFICES ASSUME IInv, [Next]_vars PROVE IInv'
  OBVIOUS
<1>1. TypeOK'
  BY TypeStep DEF IInv
<1>2. PastInv' /\ OrderInv' /\ FirstInv' /\ AheadInv'
  BY <1>1, PastStep, OrderStep, FirstStep, AheadStep DEF IInv
<1> QED
  BY <1>1, <1>2 DEF IInv

(* The inductive invariant holds in every state. *)
THEOREM Invariance == Spec => []IInv
  BY Start, Step, PTL DEF Spec

(* No variable leaves its type; no message names a segment that no server   *)
(* has had.                                                                 *)
THEOREM TypeCorrect == Spec => []TypeOK
  BY Invariance, PTL DEF IInv

(* RESTART cannot be overtaken or lost unnoticed: a server that has had a   *)
(* PONG of its own PING reads every frame in its own segment.               *)
THEOREM Segment == Spec => OwnSegment
<1>1. ASSUME IInv, [Next]_vars, NEW e \in Encoders, ReadFrameOf(e), Trusted(e)
      PROVE  Head(responses[e]).mem = shared_mem
  <2>1. ReceiveResponse
    BY <1>1 DEF ReadFrameOf, Next, Server, ServerInterrupt, ServerRestart, ClearReceive,
       ClearDone, SendPing, ReceivePong, ReceivePongTimeout, SendRestart,
       SendFrameRequest, ReceiveResponseTimeout, ReadFrame, SGoto, Subscribe, EncoderRun,
       Faults, AnswerPing, TakeRestart, TakeFrameRequest, EmptyResponse, FrameResponse,
       NullSegment, EncoderInterrupt, Fail, AppRestart, Gone, vars
  <2>2. PICK d \in Encoders :
          Take(d) /\ spc' = IF Head(responses[d]).id = "FRAME_RESPONSE" THEN "read"
                                                                       ELSE "request"
    BY <2>1 DEF ReceiveResponse, SGoto
  <2>3. d = e /\ Head(responses[e]).id = "FRAME_RESPONSE"
    BY <1>1, <2>2 DEF ReadFrameOf, Take, IInv, TypeOK
  <2>4. /\ responses[e] \in Seq(Msgs) /\ responses[e] # <<>>
        /\ Head(responses[e]) = responses[e][1] /\ 1 \in 1 .. Len(responses[e])
    BY <1>1, <2>2, <2>3 DEF Take, IInv, TypeOK
  <2>5. ResponseOrder(e) /\ proved[e]
    BY <1>1 DEF IInv, OrderInv, Order, Trusted, Clean
  <2> QED
    BY <2>3, <2>4, <2>5 DEF ResponseOrder
<1>2. IInv /\ [Next]_vars =>
        [\A e \in Encoders :
           ReadFrameOf(e) /\ Trusted(e) => Head(responses[e]).mem = shared_mem]_vars
  BY <1>1
<1> QED
  BY <1>2, Invariance, PTL DEF Spec, OwnSegment

(* One encoder is the same as any other when there is one. *)
LEMMA OnlyEncoder ==
  ASSUME Cardinality(Encoders) = 1
  PROVE  \A d, e \in Encoders : d = e
<1> SUFFICES ASSUME NEW d \in Encoders, NEW e \in Encoders PROVE d = e
  OBVIOUS
<1>1. Cardinality({e}) = 1 /\ IsFiniteSet({e})
  BY FS_Singleton
<1>2. {e} = Encoders
  BY <1>1, FiniteAssumption, FS_Subset
<1> QED
  BY <1>2

(* The only encoder of the first server works without a segment only after  *)
(* a restart, a full pipe or a signal.                                      *)
THEOREM SegmentMapped == Spec => []NullOnlyAfterRestart
<1>1. ASSUME IInv PROVE NullOnlyAfterRestart
  <2> SUFFICES ASSUME NEW e \in Encoders, epc[e] = "work", mem[e] = None,
                      server = 1, starts[e] = 1, ~(Cardinality(Encoders) > 1),
                      ~dropped[e], interrupted = {}
               PROVE  FALSE
    BY <1>1 DEF NullOnlyAfterRestart, IInv, TypeOK
  <2>1. \A d \in Encoders : d = e
    <3>1. Cardinality(Encoders) \in Nat /\ Cardinality(Encoders) # 0
      BY FiniteAssumption, FS_CardinalityType, FS_EmptySet
    <3>2. Cardinality(Encoders) = 1
      BY <3>1
    <3> QED
      BY <3>2, OnlyEncoder
  <2> QED
    BY <1>1, <2>1 DEF IInv, FirstInv, First, FirstOrder, Clean
<1> QED
  BY <1>1, Invariance, PTL

(* The encoder's answer to RESTART stays the only one too many, for pipes   *)
(* of any size and any number of server processes and starts.               *)
THEOREM AheadByOne == Spec => []OneAhead
<1>1. ASSUME IInv PROVE OneAhead
  <2> SUFFICES ASSUME patient, server = 1, Cardinality(Encoders) = 1, NEW e \in Encoders,
                      starts[e] = 1, epc[e] \in {"receive", "work"}
               PROVE  UnderWay(e) + Working(e) <= 2 + Cardinality(interrupted)
    BY DEF OneAhead
  <2>1. \A d, f \in Encoders : d = f
    BY OnlyEncoder
  <2>2. Ahead(e) <= Limit
    BY <1>1, <2>1 DEF IInv, AheadInv
  <2>3. Cardinality(interrupted) = IF interrupted = {} THEN 0 ELSE 1
    BY <1>1, FS_EmptySet, FS_Singleton DEF IInv, AheadInv
  <2>4. Ahead(e) \in Nat /\ Credit \in 0 .. 2
    BY <1>1, AheadTypes DEF IInv
  <2>5. Limit <= 2 + Cardinality(interrupted) /\ Limit \in Nat
    BY <2>3, <2>4 DEF Limit
  <2> QED
    BY <2>2, <2>3, <2>4, <2>5 DEF Ahead
<1> QED
  BY <1>1, Invariance, PTL

=============================================================================

------------------------- MODULE SpoolLoggerProofs -------------------------
(* Mutual exclusion of the clients of the spooler as far as it holds, the   *)
(* types, and the order of what the first logger prints.                    *)
EXTENDS SpoolLogger, FiniteSetTheorems, SequenceTheorems, TLAPS

-----------------------------------------------------------------------------
(* Mutual exclusion *)

(* A logger that has not come to its sem_post owes one to the mutex. *)
Owed == IF lpc = "init" THEN 1 ELSE 0

IInv ==
  /\ mutex \in Nat /\ starts \in Nat
  /\ pc \in [Clients -> Critical \cup {"type", "buffer", "mutex", "signal", "killed"}]
  /\ Cardinality(Inside) + mutex + Owed <= starts

(* The clients inside are finitely many, so that they can be counted. *)
LEMMA InsideFinite == IsFiniteSet(Inside) /\ Cardinality(Inside) \in Nat
<1>1. Inside \subseteq Clients
  BY DEF Inside
<1>2. IsFiniteSet(Inside)
  BY <1>1, ClientsAssumption, FS_Subset
<1> QED
  BY <1>2, FS_CardinalityType

(* A client that enters is one more inside, and it has taken the mutex. *)
LEMMA EnterStep ==
  ASSUME IInv, NEW c \in Clients, Enter(c)
  PROVE  IInv'
<1>1. pc' = [pc EXCEPT ![c] = "write"] /\ pc[c] = "mutex"
  BY DEF Enter, Goto
<1>2. Inside' = Inside \cup {c} /\ c \notin Inside
  BY <1>1 DEF IInv, Inside, Critical
<1>3. Cardinality(Inside') = Cardinality(Inside) + 1
  BY <1>2, InsideFinite, FS_AddElement
<1>4. mutex' = mutex - 1 /\ mutex > 0 /\ starts' = starts /\ Owed' = Owed
  BY DEF Enter, logger, Owed
<1>5. pc' \in [Clients -> Critical \cup {"type", "buffer", "mutex", "signal", "killed"}]
  BY <1>1 DEF IInv, Critical
<1> QED
  BY <1>3, <1>4, <1>5, InsideFinite DEF IInv, Owed

(* A client that leaves is one less inside, and it has given the mutex back. *)
LEMMA LeaveStep ==
  ASSUME IInv, NEW c \in Clients, Leave(c)
  PROVE  IInv'
<1>1. pc' = [pc EXCEPT ![c] = "signal"] /\ pc[c] = "leave"
  BY DEF Leave, Goto
<1>2. Inside' = Inside \ {c} /\ c \in Inside
  BY <1>1 DEF IInv, Inside, Critical
<1>3. Cardinality(Inside') = Cardinality(Inside) - 1
  BY <1>2, InsideFinite, FS_RemoveElement
<1>4. mutex' = mutex + 1 /\ starts' = starts /\ Owed' = Owed
  BY DEF Leave, logger, Owed
<1>5. pc' \in [Clients -> Critical \cup {"type", "buffer", "mutex", "signal", "killed"}]
  BY <1>1 DEF IInv
<1> QED
  BY <1>3, <1>4, <1>5, InsideFinite DEF IInv, Owed

(* A client that is killed may have been inside; it never comes out, and    *)
(* the mutex it held is lost.                                               *)
LEMMA KillStep ==
  ASSUME IInv, NEW c \in Clients, Kill(c)
  PROVE  IInv'
<1>1. pc' = [pc EXCEPT ![c] = "killed"] /\ mutex' = mutex /\ starts' = starts
      /\ Owed' = Owed
  BY DEF Kill, sems, logger, Owed
<1>2. Inside' \subseteq Inside
  BY <1>1 DEF IInv, Inside, Critical
<1>3. Cardinality(Inside') <= Cardinality(Inside) /\ Cardinality(Inside') \in Nat
  BY <1>2, InsideFinite, FS_Subset, FS_CardinalityType
<1>4. pc' \in [Clients -> Critical \cup {"type", "buffer", "mutex", "signal", "killed"}]
  BY <1>1 DEF IInv
<1> QED
  BY <1>1, <1>3, <1>4, InsideFinite DEF IInv, Owed

(* Between two places that are both inside or both outside, a client        *)
(* changes neither the number of clients inside nor the mutex.              *)
LEMMA OtherClientStep ==
  ASSUME IInv, NEW c \in Clients,
         \/ Type(c) \/ GetBuffer(c) \/ BeginWrite(c) \/ EndWrite(c)
         \/ Load(c) \/ Store(c) \/ Wrap(c) \/ Signal(c)
  PROVE  IInv'
<1>1. /\ mutex' = mutex /\ starts' = starts /\ lpc' = lpc
  BY DEF Type, GetBuffer, BeginWrite, EndWrite, Load, Store, Wrap, Signal, sems, logger
<1>2. PICK to \in Critical \cup {"buffer", "mutex", "type"} :
        /\ pc' = [pc EXCEPT ![c] = to]
        /\ to \in Critical <=> pc[c] \in Critical
  BY DEF Type, GetBuffer, BeginWrite, EndWrite, Load, Store, Wrap, Signal, Goto, Critical
<1>3. Inside' = Inside
  BY <1>2 DEF IInv, Inside
<1>4. pc' \in [Clients -> Critical \cup {"type", "buffer", "mutex", "signal", "killed"}]
  BY <1>2 DEF IInv
<1> QED
  BY <1>1, <1>3, <1>4 DEF IInv, Owed

(* The logger posts to the mutex once each time it is started. *)
LEMMA LoggerStep ==
  ASSUME IInv, Logger \/ Restart
  PROVE  IInv'
<1>1. pc' = pc
  BY DEF Logger, Ready, Wait, Copy, Release, Log, Restart, clients
<1>2. Inside' = Inside
  BY <1>1 DEF Inside
<1>3. /\ Cardinality(Inside) \in Nat /\ mutex \in Nat /\ starts \in Nat
      /\ Cardinality(Inside) + mutex + Owed <= starts
      /\ Cardinality(Inside') = Cardinality(Inside)
  BY <1>2, InsideFinite DEF IInv
<1>4. pc' \in [Clients -> Critical \cup {"type", "buffer", "mutex", "signal", "killed"}]
  BY <1>1 DEF IInv
<1>5. CASE Ready
  <2>1. mutex' = mutex + 1 /\ starts' = starts /\ Owed = 1 /\ Owed' = 0
    BY <1>5 DEF Ready, LGoto, Owed
  <2> QED
    BY <1>3, <1>4, <2>1 DEF IInv
<1>6. CASE Wait \/ Copy \/ Release \/ Log
  <2>1. mutex' = mutex /\ starts' = starts /\ Owed = 0 /\ Owed' = 0
    BY <1>6 DEF Wait, Copy, Release, Log, LGoto, sems, Owed
  <2> QED
    BY <1>3, <1>4, <2>1 DEF IInv
<1>7. CASE Restart
  <2>1. mutex' = mutex /\ starts' = starts + 1 /\ Owed = 0 /\ Owed' = 1
    BY <1>7 DEF Restart, sems, Owed
  <2> QED
    BY <1>3, <1>4, <2>1 DEF IInv
<1> QED
  BY <1>5, <1>6, <1>7 DEF Logger

(* Spec keeps the invariant of mutual exclusion. *)
LEMMA Exclusion == Spec => []IInv
<1>1. Init => IInv
  <2> SUFFICES ASSUME Init PROVE IInv
    OBVIOUS
  <2>1. Inside = {}
    BY DEF Init, Inside, Critical
  <2>2. Cardinality(Inside) = 0
    BY <2>1, FS_EmptySet
  <2> QED
    BY <2>2 DEF Init, IInv, Owed
<1>2. IInv /\ [Next]_vars => IInv'
  <2> SUFFICES ASSUME IInv, [Next]_vars PROVE IInv'
    OBVIOUS
  <2>1. ASSUME NEW c \in Clients, Type(c) \/ Client(c) \/ Kill(c) PROVE IInv'
    BY <2>1, EnterStep, LeaveStep, KillStep, OtherClientStep DEF Client
  <2>2. CASE UNCHANGED vars
    BY <2>2 DEF vars, sems, clients, logger, IInv, Inside, Owed
  <2> QED
    BY <2>1, <2>2, LoggerStep DEF Next
<1> QED
  BY <1>1, <1>2, PTL DEF Spec

(* The mutex of the spooler admits one client for each logger that was      *)
(* started, so it excludes until a logger is started again.                 *)
THEOREM MutualExclusion == Spec => [](AsManyAsLoggers /\ (starts = 1 => OneProducer))
<1>1. IInv => AsManyAsLoggers /\ (starts = 1 => OneProducer)
  BY InsideFinite DEF IInv, AsManyAsLoggers, OneProducer, Owed
<1> QED
  BY <1>1, Exclusion, PTL

-----------------------------------------------------------------------------
(* Types, and the index of the producers *)

(* What TypeOK leaves out: a client that is about to write has a line, and  *)
(* while there has been one logger the index is past the end of the ring    *)
(* only between the store and the wrap, with the mutex held.                *)
TypeInv ==
  /\ TypeOK
  /\ \A c \in Clients : pc[c] \notin {"type", "killed"} => lines[c] > 0
  /\ starts = 1 =>
       /\ \A c \in Clients : pc[c] = "store" => reg[c] \in 1 .. MAX_BUFFERS
       /\ buffer_index = MAX_BUFFERS =>
            /\ mutex = 0 /\ lpc # "init"
            /\ \A c \in Clients : pc[c] \in Critical => pc[c] = "wrap"

(* While there has been one logger, a client that is inside is alone there, *)
(* holds the mutex, and the logger has set up the ring.                     *)
LEMMA Alone ==
  ASSUME IInv, starts = 1, NEW c \in Inside
  PROVE  Inside = {c} /\ mutex = 0 /\ lpc # "init"
<1>1. Cardinality(Inside \ {c}) = Cardinality(Inside) - 1
  BY InsideFinite, FS_RemoveElement
<1>2. IsFiniteSet(Inside \ {c}) /\ Cardinality(Inside \ {c}) \in Nat
  BY InsideFinite, FS_Subset, FS_CardinalityType
<1>3. Cardinality(Inside \ {c}) = 0 /\ mutex = 0 /\ lpc # "init"
  BY <1>1, <1>2, InsideFinite DEF IInv, Owed
<1>4. Inside \ {c} = {}
  BY <1>2, <1>3, FS_EmptySet
<1> QED
  BY <1>3, <1>4

(* The next slot of the ring is in the ring. *)
LEMMA NextSlot ==
  ASSUME NEW p \in Slots
  PROVE  /\ (p + 1) % MAX_BUFFERS = (IF p + 1 = MAX_BUFFERS THEN 0 ELSE p + 1)
         /\ (p + 1) % MAX_BUFFERS \in Slots
  BY BufferAssumption DEF Slots

(* The strengthened type invariant holds when the first logger starts. *)
LEMMA TypeInit == Init => TypeInv
  BY BufferAssumption, BoundsAssumption DEF Init, TypeInv, TypeOK, Slots, Critical

(* A client step goes from a place to another place; the rest of what       *)
(* TypeOK says of pc follows.                                               *)
LEMMA TypeClient ==
  ASSUME TypeInv, IInv, NEW c \in Clients, Type(c) \/ Client(c) \/ Kill(c)
  PROVE  TypeInv'
<1> USE BufferAssumption
<1>0. starts = 1 /\ pc[c] \in Critical =>
        /\ \A d \in Clients : pc[d] \in Critical => d = c
        /\ mutex = 0 /\ lpc # "init"
  BY Alone DEF Inside
<1>1. CASE Type(c)
  <2>1. lines' = [lines EXCEPT ![c] = lines[c] + 1] /\ lines \in [Clients -> Nat]
    BY <1>1 DEF Type, TypeInv, TypeOK
  <2>2. lines' \in [Clients -> Nat] /\ lines'[c] > 0
        /\ \A d \in Clients \ {c} : lines'[d] = lines[d]
    BY <2>1
  <2>3. pc' = [pc EXCEPT ![c] = "buffer"]
    BY <1>1 DEF Type, Goto
  <2>4. TypeOK'
    BY <1>1, <2>2, <2>3 DEF Type, TypeInv, TypeOK, sems, ring, logger
  <2>5. \A d \in Clients : pc'[d] \notin {"type", "killed"} => lines'[d] > 0
    BY <2>2, <2>3 DEF TypeInv, TypeOK
  <2> QED
    BY <1>1, <2>3, <2>4, <2>5 DEF Type, TypeInv, TypeOK, sems, ring, logger, Critical
<1>2. CASE GetBuffer(c)
  <2>1. buffer_count' \in Nat
    BY <1>2 DEF GetBuffer, TypeInv, TypeOK
  <2> QED
    BY <1>2, <2>1 DEF GetBuffer, Goto, TypeInv, TypeOK, ring, logger, Critical
<1>3. CASE Enter(c)
  BY <1>3 DEF Enter, Goto, TypeInv, TypeOK, ring, logger, Critical
<1>4. CASE BeginWrite(c)
  BY <1>4 DEF BeginWrite, Goto, TypeInv, TypeOK, sems, logger, Critical
<1>5. CASE EndWrite(c)
  <2>1. lines[c] \in Nat
    BY DEF TypeInv, TypeOK
  <2>2. lines[c] > 0
    BY <1>5 DEF EndWrite, Goto, TypeInv
  <2>3. Line(c, lines[c]) \in Lines
    BY <2>1, <2>2 DEF Line, Lines
  <2> QED
    BY <1>5, <2>3 DEF EndWrite, Goto, TypeInv, TypeOK, sems, logger, Critical
<1>6. CASE Load(c)
  BY <1>6, <1>0 DEF Load, Goto, TypeInv, TypeOK, sems, ring, logger, Critical
<1>7. CASE Store(c)
  BY <1>7, <1>0 DEF Store, Goto, TypeInv, TypeOK, sems, logger, Critical
<1>8. CASE Wrap(c)
  BY <1>8, <1>0 DEF Wrap, Goto, TypeInv, TypeOK, sems, logger, Critical
<1>9. CASE Leave(c)
  BY <1>9 DEF Leave, Goto, TypeInv, TypeOK, ring, logger, Critical
<1>10. CASE Signal(c)
  BY <1>10 DEF Signal, Goto, TypeInv, TypeOK, ring, logger, Critical
<1>11. CASE Kill(c)
  BY <1>11 DEF Kill, TypeInv, TypeOK, sems, ring, logger, Critical
<1> QED
  BY <1>1, <1>2, <1>3, <1>4, <1>5, <1>6, <1>7, <1>8, <1>9, <1>10, <1>11 DEF Client

(* A step of the logger, or its restart, keeps the strengthened type invariant. *)
LEMMA TypeLogger ==
  ASSUME TypeInv, Logger \/ Restart
  PROVE  TypeInv'
<1> USE BufferAssumption
<1>0. (buffer_print_index + 1) % MAX_BUFFERS \in Slots
  BY NextSlot DEF TypeInv, TypeOK
<1>1. CASE Ready
  BY <1>1 DEF Ready, LGoto, TypeInv, TypeOK, ring, clients
<1>2. CASE Wait
  BY <1>2 DEF Wait, LGoto, TypeInv, TypeOK, ring, clients
<1>3. CASE Copy
  BY <1>3, <1>0 DEF Copy, LGoto, TypeInv, TypeOK, sems, clients
<1>4. CASE Release
  BY <1>4 DEF Release, LGoto, TypeInv, TypeOK, ring, clients
<1>5. CASE Log
  BY <1>5 DEF Log, LGoto, TypeInv, TypeOK, sems, ring, clients
<1>6. CASE Restart
  BY <1>6, BoundsAssumption DEF Restart, TypeInv, TypeOK, sems, clients, Slots
<1> QED
  BY <1>1, <1>2, <1>3, <1>4, <1>5, <1>6 DEF Logger

(* Spec keeps the strengthened type invariant. *)
LEMMA Typing == Spec => []TypeInv
<1>1. TypeInv /\ IInv /\ [Next]_vars => TypeInv'
  <2> SUFFICES ASSUME TypeInv, IInv, [Next]_vars PROVE TypeInv'
    OBVIOUS
  <2>1. CASE UNCHANGED vars
    BY <2>1 DEF vars, sems, ring, clients, logger, TypeInv, TypeOK
  <2> QED
    BY <2>1, TypeClient, TypeLogger DEF Next
<1> QED
  BY <1>1, TypeInit, Exclusion, PTL DEF Spec

(* Every variable has its type, and the index of the producers stays inside *)
(* the ring until a logger is started again.                                *)
THEOREM TypeCorrect == Spec => []TypeOK
<1>1. TypeInv => TypeOK
  BY DEF TypeInv
<1> QED
  BY <1>1, Typing, PTL

-----------------------------------------------------------------------------
(* The lines of the first logger *)

(* The slot k places after the beginning of the ring, for k < 2 * MAX_BUFFERS, *)
(* and the slot k places after the next line to print.                     *)
Slot(k)  == IF k < MAX_BUFFERS THEN k ELSE k - MAX_BUFFERS
Place(k) == Slot(buffer_print_index + k)

(* The lines that were written are a sequence w.  How many of them the      *)
(* logger has copied, and how many are left in the ring.                    *)
Copied  == Len(log) + (IF lpc \in {"print", "log"} THEN 1 ELSE 0)
Left(w) == Len(w) - Copied

Count(w, c, n) == Cardinality({j \in 1 .. n : w[j].client = c})

(* How many lines of a client that is alive are written. *)
Written(c) == IF pc[c] \in {"type", "signal"} THEN lines[c] ELSE lines[c] - 1

(* The clients at one of the places P, and those that hold a buffer. *)
At(P)   == {c \in Clients : pc[c] \in P}
Holding == Critical \cup {"mutex"}

Releasing == IF lpc = "print" THEN 1 ELSE 0
Copying   == IF lpc = "copy" THEN 1 ELSE 0

(* What the file and the logger have are the first lines that were written. *)
Story(w) ==
  /\ w \in Seq(Lines) /\ Copied <= Len(w)
  /\ \A i \in 1 .. Len(log) : log[i] = w[i]
  /\ lpc \in {"print", "log"} => mybuf = w[Copied]

(* The n-th line of a client has the number n. *)
Numbered(w) ==
  /\ \A i \in 1 .. Len(w) : w[i].number = Count(w, w[i].client, i)
  /\ \A c \in Clients : pc[c] # "killed" => Count(w, c, Len(w)) = Written(c)

(* The others are in the ring, from the next line to print on. *)
Stored(w) == \A k \in 0 .. Left(w) - 1 : buf[Place(k)] = w[Copied + k + 1]

(* Each buffer is available, held by a client, full or being released, and  *)
(* a buffer the logger may copy is full; some are lost with a client.       *)
Credits(w) ==
  buffer_count + Cardinality(At(Holding)) + Left(w) + Releasing <= MAX_BUFFERS
Signals(w) ==
  spool_signal + Cardinality(At({"signal"})) + Copying <= Left(w)

(* The next line is written after them. *)
AtHead(w) ==
  LET h == Place(Left(w))
  IN  /\ mutex > 0 \/ lpc = "init" => buffer_index = h
      /\ \A c \in Clients :
           /\ pc[c] \in {"write", "writing"} => reg[c] = h
           /\ pc[c] \in {"write", "writing", "load"} => buffer_index = h
           /\ pc[c] = "store" => reg[c] = h + 1
           /\ pc[c] = "wrap"  => buffer_index = h + 1
           /\ pc[c] = "leave" => buffer_index = Slot(h + 1)
           /\ pc[c] \in {"load", "store", "wrap", "leave"} => buf[h] = Line(c, lines[c])

Ring(w) == Story(w) /\ Numbered(w) /\ Stored(w) /\ Credits(w) /\ Signals(w) /\ AtHead(w)

RingInv == starts = 1 => \E w \in Seq(Lines) : Ring(w)

(* The slots of the ring. *)
LEMMA SlotInRing ==
  ASSUME NEW p \in Slots, NEW k \in 0 .. MAX_BUFFERS
  PROVE  Slot(p + k) \in Slots
  BY BufferAssumption DEF Slot, Slots

(* Places less than a whole ring apart are different slots. *)
LEMMA SlotsApart ==
  ASSUME NEW p \in Slots, NEW j \in 0 .. MAX_BUFFERS - 1, NEW k \in 0 .. MAX_BUFFERS - 1,
         j # k
  PROVE  Slot(p + j) # Slot(p + k)
  BY BufferAssumption DEF Slot, Slots

(* Going one slot further, before or after the other k. *)
LEMMA SlotAfter ==
  ASSUME NEW p \in Slots, NEW k \in 0 .. MAX_BUFFERS - 1
  PROVE  /\ Slot(Slot(p + 1) + k) = Slot(p + (k + 1))
         /\ Slot(Slot(p + k) + 1) = Slot(p + (k + 1))
  BY BufferAssumption DEF Slot, Slots

(* What a client's step does to the number of clients at some places. *)
LEMMA AtMoves ==
  ASSUME TypeOK, NEW c \in Clients, NEW to, pc' = [pc EXCEPT ![c] = to], NEW P
  PROVE  /\ Cardinality(At(P)) \in Nat /\ Cardinality(At(P))' \in Nat
         /\ (pc[c] \in P <=> to \in P) => Cardinality(At(P))' = Cardinality(At(P))
         /\ pc[c] \notin P /\ to \in P => Cardinality(At(P))' = Cardinality(At(P)) + 1
         /\ pc[c] \in P /\ to \notin P => Cardinality(At(P))' = Cardinality(At(P)) - 1
<1>1. IsFiniteSet(At(P)) /\ IsFiniteSet(At(P)')
  BY ClientsAssumption, FS_Subset DEF At
<1>2. Cardinality(At(P)) \in Nat /\ Cardinality(At(P))' \in Nat
  BY <1>1, FS_CardinalityType
<1>3. \A d \in Clients : pc'[d] = IF d = c THEN to ELSE pc[d]
  BY DEF TypeOK
<1>4. CASE pc[c] \in P <=> to \in P
  <2>1. At(P)' = At(P)
    BY <1>3, <1>4 DEF At
  <2> QED
    BY <1>2, <1>4, <2>1
<1>5. CASE pc[c] \notin P /\ to \in P
  <2>1. At(P)' = At(P) \cup {c} /\ c \notin At(P)
    BY <1>3, <1>5 DEF At
  <2>2. Cardinality(At(P))' = Cardinality(At(P)) + 1
    BY <1>1, <2>1, FS_AddElement
  <2> QED
    BY <1>2, <1>5, <2>2
<1>6. CASE pc[c] \in P /\ to \notin P
  <2>1. At(P)' = At(P) \ {c} /\ c \in At(P)
    BY <1>3, <1>6 DEF At
  <2>2. Cardinality(At(P))' = Cardinality(At(P)) - 1
    BY <1>1, <2>1, FS_RemoveElement
  <2> QED
    BY <1>2, <1>6, <2>2
<1> QED
  BY <1>4, <1>5, <1>6

(* Counting the lines of a client after one more line. *)
LEMMA CountAppend ==
  ASSUME NEW w \in Seq(Lines), NEW v \in Seq(Lines), NEW c,
         Len(v) = Len(w) + 1, \A i \in 1 .. Len(w) : v[i] = w[i]
  PROVE  /\ \A i \in 0 .. Len(w) : Count(v, c, i) = Count(w, c, i)
         /\ Count(v, c, Len(w) + 1) =
              Count(w, c, Len(w)) + (IF v[Len(w) + 1].client = c THEN 1 ELSE 0)
<1> DEFINE l == v[Len(w) + 1]
<1>1. Len(w) \in Nat
  OBVIOUS
<1>2. \A i \in 0 .. Len(w) : Count(v, c, i) = Count(w, c, i)
  <2> SUFFICES ASSUME NEW i \in 0 .. Len(w) PROVE Count(v, c, i) = Count(w, c, i)
    OBVIOUS
  <2>1. \A j \in 1 .. i : v[j] = w[j]
    BY <1>1
  <2>2. {j \in 1 .. i : v[j].client = c} = {j \in 1 .. i : w[j].client = c}
    BY <2>1
  <2> QED
    BY <2>2 DEF Count
<1>3. Count(v, c, Len(w) + 1) = Count(w, c, Len(w)) + (IF l.client = c THEN 1 ELSE 0)
  <2> DEFINE S == {j \in 1 .. Len(w) : w[j].client = c}
             T == {j \in 1 .. Len(w) + 1 : v[j].client = c}
  <2>1. S \subseteq 1 .. Len(w) /\ IsFiniteSet(1 .. Len(w))
    BY <1>1, FS_Interval
  <2>2. IsFiniteSet(S) /\ Cardinality(S) \in Nat
    BY <2>1, FS_Subset, FS_CardinalityType
  <2>3. Count(w, c, Len(w)) = Cardinality(S) /\ Count(v, c, Len(w) + 1) = Cardinality(T)
    BY DEF Count
  <2> HIDE DEF S, T
  <2>4. CASE l.client = c
    <3>1. T = S \cup {Len(w) + 1} /\ Len(w) + 1 \notin S
      BY <1>1, <2>4 DEF S, T
    <3>2. Cardinality(T) = Cardinality(S) + 1
      BY <2>2, <3>1, FS_AddElement
    <3> QED
      BY <2>2, <2>4, <2>3, <3>2
  <2>5. CASE l.client # c
    <3>1. T = S
      BY <1>1, <2>5 DEF S, T
    <3> QED
      BY <2>2, <2>5, <2>3, <3>1
  <2> QED
    BY <2>4, <2>5
<1> QED
  BY <1>2, <1>3

(* How many lines are in the ring, and that there is room for one more      *)
(* while a client holds a buffer.                                           *)
LEMMA RingFacts ==
  ASSUME TypeOK, NEW w, Ring(w)
  PROVE  /\ w \in Seq(Lines) /\ Len(w) \in Nat /\ Copied \in Nat
         /\ Left(w) \in 0 .. MAX_BUFFERS
         /\ \A P : Cardinality(At(P)) \in Nat
         /\ \A c \in Clients : pc[c] \in Holding => Left(w) \in 0 .. MAX_BUFFERS - 1
         /\ \A k \in 0 .. MAX_BUFFERS : Place(k) \in Slots
<1>1. \A P : IsFiniteSet(At(P)) /\ Cardinality(At(P)) \in Nat
  BY ClientsAssumption, FS_Subset, FS_CardinalityType DEF At
<1>2. w \in Seq(Lines) /\ Len(w) \in Nat /\ Copied \in Nat /\ Copied <= Len(w)
  BY DEF Ring, Story, TypeOK, Copied
<1>3. Left(w) \in Nat
  BY <1>2 DEF Left
<1>4. buffer_count \in Nat /\ Releasing \in Nat
  BY DEF TypeOK, Releasing
<1>5. Cardinality(At(Holding)) \in Nat
  BY <1>1
<1>6. Cardinality(At(Holding)) + Left(w) <= MAX_BUFFERS
  BY <1>3, <1>4, <1>5, BufferAssumption DEF Ring, Credits
<1>7. Left(w) \in 0 .. MAX_BUFFERS
  BY <1>3, <1>5, <1>6, BufferAssumption
<1>8. ASSUME NEW c \in Clients, pc[c] \in Holding
      PROVE  Left(w) \in 0 .. MAX_BUFFERS - 1
  <2>1. c \in At(Holding)
    BY <1>8 DEF At
  <2>2. Cardinality(At(Holding)) # 0
    BY <1>1, <2>1, FS_EmptySet
  <2> QED
    BY <1>3, <1>5, <1>6, <2>2, BufferAssumption
<1>9. \A k \in 0 .. MAX_BUFFERS : Place(k) \in Slots
  BY SlotInRing DEF Place, TypeOK
<1> QED
  BY <1>1, <1>2, <1>7, <1>8, <1>9

(* What a step of a client leaves alone. *)
LEMMA ClientKeeps ==
  ASSUME NEW w, UNCHANGED <<logger, buffer_print_index>>
  PROVE  /\ Story(w) => Story(w)'
         /\ Copied' = Copied /\ Left(w)' = Left(w)
         /\ Releasing' = Releasing /\ Copying' = Copying
         /\ \A k : Place(k)' = Place(k)
  BY DEF logger, Story, Copied, Left, Releasing, Copying, Place

(* A sum of which one part becomes no greater. *)
LEMMA NoMore ==
  ASSUME NEW a \in Nat, NEW b \in Nat, NEW c \in Nat, NEW d \in Nat, NEW m \in Nat,
         NEW e \in Nat, e <= b
  PROVE  /\ a + b + c + d <= m => a + e + c + d <= m
         /\ a + b + c <= m => a + e + c <= m
  OBVIOUS

(* A step of a client that is outside before and after it. *)
LEMMA OutsideKeepsRing ==
  ASSUME TypeInv, TypeInv', NEW w, Ring(w), NEW c \in Clients,
         Type(c) \/ GetBuffer(c) \/ Signal(c) \/ Kill(c)
  PROVE  Ring(w)'
<1>1. UNCHANGED <<logger, buffer_print_index, mutex, buf, buffer_index, reg>>
  BY DEF Type, GetBuffer, Signal, Kill, sems, ring
<1>2. /\ Story(w)' /\ Left(w)' = Left(w) /\ Copied' = Copied
      /\ Releasing' = Releasing /\ Copying' = Copying
      /\ \A k : Place(k)' = Place(k)
  BY <1>1, ClientKeeps DEF Ring
<1>3. TypeOK
  BY DEF TypeInv
<1>4. PICK to \in {"buffer", "mutex", "type", "killed"} :
        /\ pc' = [pc EXCEPT ![c] = to]
        /\ Type(c) => pc[c] = "type" /\ to = "buffer"
        /\ GetBuffer(c) => pc[c] = "buffer" /\ to = "mutex"
        /\ Signal(c) => pc[c] = "signal" /\ to = "type"
        /\ Kill(c) => to = "killed"
  <2>1. \A to : pc' = [pc EXCEPT ![c] = to] => pc'[c] = to
    BY <1>3 DEF TypeOK
  <2>2. CASE Type(c)
    BY <2>1, <2>2 DEF Type, GetBuffer, Signal, Kill, Goto
  <2>3. CASE GetBuffer(c)
    BY <2>1, <2>3 DEF Type, GetBuffer, Signal, Kill, Goto
  <2>4. CASE Signal(c)
    BY <2>1, <2>4 DEF Type, GetBuffer, Signal, Kill, Goto
  <2>5. CASE Kill(c)
    BY <2>1, <2>5 DEF Type, GetBuffer, Signal, Kill, Goto
  <2> QED
    BY <2>2, <2>3, <2>4, <2>5
<1>5. \A d \in Clients : pc'[d] = IF d = c THEN to ELSE pc[d]
  BY <1>3, <1>4 DEF TypeOK
<1>6. \A d \in Clients \ {c} : lines'[d] = lines[d]
  BY <1>3 DEF Type, GetBuffer, Signal, Kill, TypeOK, clients
<1>7. Numbered(w)'
  <2>1. ASSUME NEW d \in Clients, pc'[d] # "killed"
        PROVE  pc[d] # "killed" /\ Written(d)' = Written(d)
    <3>1. CASE d # c
      BY <2>1, <3>1, <1>5, <1>6 DEF Written
    <3>2. CASE d = c /\ Type(c)
      <4>1. lines[c] \in Nat /\ lines'[c] = lines[c] + 1
        BY <1>3, <3>2 DEF Type, TypeOK
      <4> QED
        BY <3>2, <4>1, <1>4, <1>5 DEF Written
    <3>3. CASE d = c /\ GetBuffer(c)
      BY <3>3, <1>4, <1>5 DEF Written, GetBuffer
    <3>4. CASE d = c /\ Signal(c)
      BY <3>4, <1>4, <1>5 DEF Written, Signal
    <3>5. CASE d = c /\ Kill(c)
      BY <2>1, <3>5, <1>4, <1>5
    <3> QED
      BY <3>1, <3>2, <3>3, <3>4, <3>5
  <2> QED
    BY <2>1 DEF Ring, Numbered
<1>8. Stored(w)'
  BY <1>1, <1>2 DEF Ring, Stored
<1>9. Credits(w)' /\ Signals(w)'
  <2> DEFINE H == Cardinality(At(Holding))
             S == Cardinality(At({"signal"}))
             L == Left(w)
  <2>1. /\ H \in Nat /\ H' \in Nat /\ S \in Nat /\ S' \in Nat
        /\ GetBuffer(c) => H' = H + 1 /\ S' = S
        /\ Signal(c) => H' = H /\ S' = S - 1
        /\ Type(c) => H' = H /\ S' = S
        /\ Kill(c) => (H' = H \/ H' = H - 1) /\ (S' = S \/ S' = S - 1)
    BY <1>3, <1>4, AtMoves DEF Holding, Critical
  <2>2. /\ L \in Nat /\ L' = L /\ Releasing \in Nat /\ Copying \in Nat
        /\ Releasing' = Releasing /\ Copying' = Copying
    BY <1>2, <1>3, RingFacts DEF Releasing, Copying
  <2>3. /\ buffer_count \in Nat /\ buffer_count' \in Nat
        /\ spool_signal \in Nat /\ spool_signal' \in Nat
    BY DEF TypeInv, TypeOK
  <2>4. /\ GetBuffer(c) => buffer_count' = buffer_count - 1 /\ spool_signal' = spool_signal
        /\ Signal(c) => buffer_count' = buffer_count /\ spool_signal' = spool_signal + 1
        /\ Type(c) \/ Kill(c) => buffer_count' = buffer_count /\ spool_signal' = spool_signal
    BY DEF GetBuffer, Signal, Type, Kill, sems
  <2>5. buffer_count + H + L + Releasing <= MAX_BUFFERS /\ spool_signal + S + Copying <= L
    BY DEF Ring, Credits, Signals
  <2> HIDE DEF H, S, L
  <2>6. /\ buffer_count' + H' + L' + Releasing' <= MAX_BUFFERS
        /\ spool_signal' + S' + Copying' <= L'
    <3>1. CASE Type(c)
      BY <3>1, <2>1, <2>2, <2>3, <2>4, <2>5, BufferAssumption
    <3>2. CASE GetBuffer(c)
      BY <3>2, <2>1, <2>2, <2>3, <2>4, <2>5, BufferAssumption
    <3>3. CASE Signal(c)
      BY <3>3, <2>1, <2>2, <2>3, <2>4, <2>5, BufferAssumption
    <3>4. CASE Kill(c)
      <4>1. H' <= H /\ S' <= S
        BY <3>4, <2>1
      <4>2. buffer_count' = buffer_count /\ spool_signal' = spool_signal
        BY <3>4, <2>4
      <4>3. MAX_BUFFERS \in Nat
        BY BufferAssumption
      <4>4. buffer_count + H' + L + Releasing <= MAX_BUFFERS
        BY <4>1, <4>3, <2>1, <2>2, <2>3, <2>5, NoMore
      <4>5. spool_signal + S' + Copying <= L
        BY <4>1, <2>1, <2>2, <2>3, <2>5, NoMore
      <4> QED
        BY <4>2, <4>4, <4>5, <2>2, Zenon
    <3> QED
      BY <3>1, <3>2, <3>3, <3>4
  <2> QED
    BY <2>6 DEF H, S, L, Credits, Signals
<1>10. AtHead(w)'
  <2>1. Left(w)' = Left(w) /\ Place(Left(w))' = Place(Left(w))
    BY <1>2
  <2>2. \A d \in Clients : pc'[d] \in Critical => d # c /\ pc'[d] = pc[d] /\ lines'[d] = lines[d]
    BY <1>5, <1>6 DEF Critical
  <2> QED
    BY <1>1, <2>1, <2>2 DEF Ring, AtHead, Critical, logger
<1> QED
  BY <1>2, <1>7, <1>8, <1>9, <1>10 DEF Ring

(* A step of a client on its way through the critical section: it goes on   *)
(* to the next place, and the ring is written at its head only.             *)
LEMMA InsideKeepsRing ==
  ASSUME TypeInv, TypeInv', IInv, starts = 1, NEW w, Ring(w), NEW c \in Clients,
         \/ Enter(c) \/ BeginWrite(c) \/ EndWrite(c) \/ Load(c) \/ Store(c) \/ Wrap(c)
  PROVE  Ring(w)'
<1> DEFINE h == Place(Left(w))
<1>1. UNCHANGED <<logger, buffer_print_index, buffer_count, spool_signal, lines>>
  BY DEF Enter, BeginWrite, EndWrite, Load, Store, Wrap, sems, ring
<1>2. /\ Story(w)' /\ Left(w)' = Left(w) /\ Copied' = Copied
      /\ Releasing' = Releasing /\ Copying' = Copying
      /\ \A k : Place(k)' = Place(k)
  BY <1>1, ClientKeeps DEF Ring
<1>3. TypeOK
  BY DEF TypeInv
<1>4. PICK to \in Critical :
        /\ pc' = [pc EXCEPT ![c] = to] /\ pc[c] \in Holding
        /\ to \in Holding /\ pc[c] # "signal" /\ to # "signal"
  BY DEF Enter, BeginWrite, EndWrite, Load, Store, Wrap, Goto, Critical, Holding
<1>5. \A d \in Clients : pc'[d] = IF d = c THEN to ELSE pc[d]
  BY <1>3, <1>4 DEF TypeOK
<1>6. \A d \in Clients \ {c} : pc[d] \notin Critical /\ pc'[d] \notin Critical
  <2>1. CASE Enter(c)
    <3>1. Inside = {}
      <4> SUFFICES ASSUME NEW d \in Inside PROVE FALSE
        OBVIOUS
      <4> QED
        BY <2>1, Alone DEF Enter
    <3> QED
      BY <3>1, <1>5 DEF Inside
  <2>2. CASE BeginWrite(c) \/ EndWrite(c) \/ Load(c) \/ Store(c) \/ Wrap(c)
    <3>1. c \in Inside
      BY <2>2 DEF BeginWrite, EndWrite, Load, Store, Wrap, Goto, Inside, Critical
    <3> QED
      BY <3>1, <1>5, Alone DEF Inside
  <2> QED
    BY <2>1, <2>2
<1>7. Left(w) \in 0 .. MAX_BUFFERS - 1 /\ h \in Slots
  BY <1>3, <1>4, RingFacts, BufferAssumption
<1>8. \A k \in 0 .. Left(w) - 1 : Place(k) # h
  <2>1. \A k \in 0 .. Left(w) - 1 : k \in 0 .. MAX_BUFFERS - 1 /\ k # Left(w)
    BY <1>7, BufferAssumption
  <2>2. buffer_print_index \in Slots
    BY <1>3 DEF TypeOK
  <2> QED
    BY <1>7, <2>1, <2>2, SlotsApart DEF Place
<1>9. Numbered(w)'
  <2>1. \A d \in Clients : pc'[d] # "killed" =>
                             pc[d] # "killed" /\ Written(d)' = Written(d)
    BY <1>1, <1>4, <1>5 DEF Written, Holding, Critical
  <2> QED
    BY <2>1 DEF Ring, Numbered
<1>10. Credits(w)' /\ Signals(w)'
  <2>1. /\ Cardinality(At(Holding))' = Cardinality(At(Holding))
        /\ Cardinality(At({"signal"}))' = Cardinality(At({"signal"}))
    BY <1>3, <1>4, AtMoves
  <2> QED
    BY <1>1, <1>2, <2>1 DEF Ring, Credits, Signals
<1>11. pc[c] \in Critical => mutex = 0 /\ lpc # "init"
  BY Alone DEF Inside
<1>12. \A k \in Slots : buf'[k] = buf[k] \/ (k = h /\ (BeginWrite(c) \/ EndWrite(c)))
  <2>1. pc[c] \in {"write", "writing"} => reg[c] = h
    BY DEF Ring, AtHead
  <2> QED
    BY <1>3, <2>1 DEF Enter, BeginWrite, EndWrite, Load, Store, Wrap, ring, Goto, TypeOK
<1>13. Stored(w)'
  <2>1. \A k \in 0 .. Left(w) - 1 : Place(k) \in Slots
    BY <1>3, <1>7, RingFacts, BufferAssumption
  <2>2. \A k \in 0 .. Left(w) - 1 : buf'[Place(k)] = buf[Place(k)]
    BY <1>8, <1>12, <2>1
  <2> QED
    BY <1>2, <2>2 DEF Ring, Stored
<1>14. AtHead(w)'
  <2>1. h' = h
    BY <1>2
  <2>2. mutex' = 0 /\ lpc' # "init"
    <3>1. CASE Enter(c)
      <4>1. mutex = 1 /\ lpc # "init"
        BY <3>1, InsideFinite DEF Enter, IInv, Owed
      <4> QED
        BY <3>1, <4>1 DEF Enter, logger
    <3>2. CASE BeginWrite(c) \/ EndWrite(c) \/ Load(c) \/ Store(c) \/ Wrap(c)
      BY <3>2, <1>11 DEF BeginWrite, EndWrite, Load, Store, Wrap, Goto, Critical, sems, logger
    <3> QED
      BY <3>1, <3>2
  <2>3. /\ to \in {"write", "writing"} => reg'[c] = h
        /\ to \in {"write", "writing", "load"} => buffer_index' = h
        /\ to = "store" => reg'[c] = h + 1
        /\ to = "wrap"  => buffer_index' = h + 1
        /\ to = "leave" => buffer_index' = Slot(h + 1)
        /\ to \in {"load", "store", "wrap", "leave"} => buf'[h] = Line(c, lines'[c])
    <3>0. pc'[c] = to
      BY <1>5
    <3>1. CASE Enter(c)
      <4>1. buffer_index = h
        BY <3>1 DEF Enter, Ring, AtHead
      <4> QED
        BY <3>0, <3>1, <4>1, <1>3, <1>5 DEF Enter, Goto, TypeOK, ring
    <3>2. CASE BeginWrite(c)
      BY <3>0, <3>2, <1>3 DEF BeginWrite, Goto, TypeOK, Ring, AtHead
    <3>3. CASE EndWrite(c)
      BY <3>0, <3>3, <1>3, <1>7 DEF EndWrite, Goto, TypeOK, Ring, AtHead
    <3>4. CASE Load(c)
      BY <3>0, <3>4, <1>3 DEF Load, Goto, TypeOK, Ring, AtHead, ring
    <3>5. CASE Store(c)
      BY <3>0, <3>5, <1>3 DEF Store, Goto, TypeOK, Ring, AtHead
    <3>6. CASE Wrap(c)
      <4>1. /\ buffer_index = h + 1
            /\ buffer_index' = IF buffer_index = MAX_BUFFERS THEN 0 ELSE buffer_index
        BY <3>6 DEF Wrap, Goto, Ring, AtHead
      <4>2. buffer_index' = Slot(h + 1)
        BY <4>1, <1>7, BufferAssumption DEF Slot, Slots
      <4> QED
        BY <3>0, <3>6, <4>2, <1>3 DEF Wrap, Goto, TypeOK, Ring, AtHead
    <3> QED
      BY <3>1, <3>2, <3>3, <3>4, <3>5, <3>6
  <2> HIDE DEF h
  <2>4. \A d \in Clients : pc'[d] \in Critical => d = c /\ pc'[d] = to
    BY <1>5, <1>6
  <2>5. Place(Left(w))' = h /\ Slot(h + 1)' = Slot(h + 1)
    BY <1>2 DEF h, Slot
  <2> QED
    BY <2>2, <2>3, <2>4, <2>5 DEF AtHead, Critical
<1> QED
  BY <1>2, <1>9, <1>10, <1>13, <1>14 DEF Ring

(* A client that leaves the critical section has written one line more. *)
LEMMA LeaveAppendsLine ==
  ASSUME TypeInv, TypeInv', IInv, starts = 1, NEW w, Ring(w), NEW c \in Clients,
         Leave(c), NEW l, l = Line(c, lines[c])
  PROVE  Append(w, l) \in Seq(Lines) /\ Ring(Append(w, l))'
<1> DEFINE v == Append(w, l)
           h == Place(Left(w))
<1>1. UNCHANGED <<logger, ring, buffer_count, spool_signal, lines, reg>>
  BY DEF Leave
<1>2. TypeOK
  BY DEF TypeInv
<1>3. l \in Lines /\ l.client = c /\ l.number = lines[c] /\ lines[c] \in Nat
  <2>1. lines[c] \in Nat
    BY <1>2 DEF TypeOK
  <2>2. lines[c] > 0
    BY DEF Leave, Goto, TypeInv
  <2> QED
    BY <2>1, <2>2 DEF Line, Lines
<1>4. w \in Seq(Lines) /\ Len(w) \in Nat /\ Copied \in Nat /\ Copied <= Len(w)
  BY <1>2, RingFacts DEF Ring, Story
<1>5. /\ v \in Seq(Lines) /\ Len(v) = Len(w) + 1 /\ v[Len(w) + 1] = l
      /\ \A i \in 1 .. Len(w) : v[i] = w[i]
  BY <1>3, <1>4
<1> HIDE DEF v
<1>6. /\ \A d : \A i \in 0 .. Len(w) : Count(v, d, i) = Count(w, d, i)
      /\ \A d : Count(v, d, Len(w) + 1) = Count(w, d, Len(w)) + (IF l.client = d THEN 1 ELSE 0)
  BY <1>4, <1>5, CountAppend
<1>7. /\ pc[c] = "leave" /\ pc' = [pc EXCEPT ![c] = "signal"]
      /\ \A d \in Clients : pc'[d] = IF d = c THEN "signal" ELSE pc[d]
  BY <1>2 DEF Leave, Goto, TypeOK
<1>8. Inside = {c} /\ mutex = 0 /\ lpc # "init"
  BY <1>7, Alone DEF Inside, Critical
<1>9. /\ Copied' = Copied /\ Left(v)' = Left(w) + 1
      /\ Releasing' = Releasing /\ Copying' = Copying
      /\ \A k : Place(k)' = Place(k)
  BY <1>1, <1>4, <1>5 DEF logger, ring, Copied, Left, Releasing, Copying, Place
<1>10. Left(w) \in 0 .. MAX_BUFFERS - 1 /\ h \in Slots
  BY <1>2, <1>7, RingFacts, BufferAssumption DEF Holding, Critical
<1>11. Story(v)'
  <2>1. log \in Seq(Lines \cup {Unused, Torn}) /\ Len(log) \in Nat
    BY <1>2 DEF TypeOK
  <2>2. \A i \in 1 .. Len(log) : i \in 1 .. Len(w)
    BY <1>4, <2>1 DEF Copied
  <2>3. lpc \in {"print", "log"} => Copied \in 1 .. Len(w)
    BY <1>4, <2>1 DEF Copied
  <2>4. \A i \in 1 .. Len(log) : log[i] = v[i]
    BY <1>5, <2>2 DEF Ring, Story
  <2>5. lpc \in {"print", "log"} => mybuf = v[Copied]
    BY <1>5, <2>3 DEF Ring, Story
  <2> QED
    BY <1>1, <1>4, <1>5, <1>9, <2>4, <2>5 DEF Story, logger
<1>12. Numbered(v)'
  <2>1. Count(v, c, Len(w) + 1) = lines[c]
    <3>1. Count(w, c, Len(w)) = lines[c] - 1
      BY <1>7 DEF Ring, Numbered, Written
    <3> QED
      BY <1>3, <1>6, <3>1
  <2>2. ASSUME NEW i \in 1 .. Len(v)
        PROVE  v[i].number = Count(v, v[i].client, i)
    <3>1. CASE i \in 1 .. Len(w)
      <4>1. v[i] = w[i] /\ i \in 0 .. Len(w)
        BY <1>4, <1>5, <3>1
      <4>2. w[i].number = Count(w, w[i].client, i)
        BY <3>1 DEF Ring, Numbered
      <4> QED
        BY <4>1, <4>2, <1>6
    <3>2. CASE i = Len(w) + 1
      BY <1>3, <1>5, <2>1, <3>2
    <3> QED
      BY <1>4, <1>5, <3>1, <3>2
  <2>3. ASSUME NEW d \in Clients, pc'[d] # "killed"
        PROVE  Count(v, d, Len(v)) = Written(d)'
    <3>1. CASE d = c
      BY <1>1, <1>5, <1>7, <2>1, <3>1 DEF Written
    <3>2. CASE d # c
      <4>1. pc'[d] = pc[d] /\ lines' = lines
        BY <1>1, <1>7, <3>2
      <4>2. Count(w, d, Len(w)) = Written(d) /\ Written(d)' = Written(d)
        BY <2>3, <4>1 DEF Ring, Numbered, Written
      <4>3. Count(w, d, Len(w)) \in Int
        <5>1. Written(d) \in Int
          BY <1>2 DEF Written, TypeOK
        <5> QED
          BY <4>2, <5>1
      <4> QED
        BY <1>3, <1>5, <1>6, <3>2, <4>2, <4>3
    <3> QED
      BY <3>1, <3>2
  <2> QED
    BY <2>2, <2>3 DEF Numbered
<1>13. Stored(v)'
  <2>1. ASSUME NEW k \in 0 .. Left(w)
        PROVE  buf[Place(k)] = v[Copied + k + 1]
    <3>1. CASE k \in 0 .. Left(w) - 1
      <4>1. Copied + k + 1 \in 1 .. Len(w)
        BY <1>4, <1>10, <3>1 DEF Left
      <4>2. buf[Place(k)] = w[Copied + k + 1]
        BY <3>1 DEF Ring, Stored
      <4> QED
        BY <4>1, <4>2, <1>5
    <3>2. CASE k = Left(w)
      <4>1. Copied + k + 1 = Len(w) + 1
        BY <1>4, <3>2 DEF Left
      <4>2. buf[Place(k)] = l
        BY <1>7, <3>2 DEF Ring, AtHead
      <4> QED
        BY <4>1, <4>2, <1>5
    <3> QED
      BY <1>10, <3>1, <3>2, BufferAssumption
  <2>2. buf' = buf /\ Left(v)' - 1 = Left(w)
    BY <1>1, <1>9, <1>10 DEF ring
  <2> QED
    BY <1>9, <2>1, <2>2 DEF Stored
<1>14. Credits(v)' /\ Signals(v)'
  <2> DEFINE H == Cardinality(At(Holding))
             S == Cardinality(At({"signal"}))
             L == Left(w)
  <2>1. /\ H \in Nat /\ H' \in Nat /\ S \in Nat /\ S' \in Nat
        /\ H' = H - 1 /\ S' = S + 1
    BY <1>2, <1>7, AtMoves DEF Holding, Critical
  <2>2. L \in Nat /\ Releasing \in Nat /\ Copying \in Nat
    BY <1>10 DEF Releasing, Copying
  <2>3. buffer_count \in Nat /\ spool_signal \in Nat
    BY <1>2 DEF TypeOK
  <2>4. buffer_count + H + L + Releasing <= MAX_BUFFERS /\ spool_signal + S + Copying <= L
    BY DEF Ring, Credits, Signals
  <2> HIDE DEF H, S, L
  <2>5. /\ buffer_count + (H - 1) + (L + 1) + Releasing <= MAX_BUFFERS
        /\ spool_signal + (S + 1) + Copying <= L + 1
    BY <2>1, <2>2, <2>3, <2>4, BufferAssumption
  <2>6. /\ buffer_count' + H' + Left(v)' + Releasing' <= MAX_BUFFERS
        /\ spool_signal' + S' + Copying' <= Left(v)'
    BY <2>1, <2>5, <1>1, <1>9, Zenon DEF L
  <2> QED
    BY <2>6 DEF H, S, Credits, Signals
<1>15. AtHead(v)'
  <2>1. \A d \in Clients : pc'[d] \notin Critical
    BY <1>7, <1>8 DEF Inside, Critical
  <2>2. buffer_index' = Slot(h + 1)
    BY <1>1, <1>7 DEF Ring, AtHead, ring
  <2>3. Slot(h + 1) = Place(Left(w) + 1)
    BY <1>2, <1>10, SlotAfter DEF Place, TypeOK
  <2>4. buffer_index' = Place(Left(v))'
    BY <2>2, <2>3, <1>9
  <2> QED
    BY <2>1, <2>4 DEF AtHead, Critical
<1> QED
  BY <1>5, <1>11, <1>12, <1>13, <1>14, <1>15 DEF Ring, v

(* What a step of the logger leaves alone. *)
LEMMA LoggerKeeps ==
  ASSUME NEW w, UNCHANGED <<pc, lines, buf, buffer_index, reg>>
  PROVE  /\ \A P : Cardinality(At(P))' = Cardinality(At(P))
         /\ Numbered(w) => Numbered(w)'
         /\ \A c : Written(c)' = Written(c)
  BY DEF At, Numbered, Written

(* A step of the logger between two waits: it takes the first line from the *)
(* ring, and gives the buffer back before the line is in the file.          *)
LEMMA LoggerKeepsRing ==
  ASSUME TypeInv, TypeInv', IInv, starts = 1, NEW w, Ring(w), Logger
  PROVE  Ring(w)'
<1> DEFINE H == Cardinality(At(Holding))
           S == Cardinality(At({"signal"}))
           L == Left(w)
           h == Place(Left(w))
<1>1. UNCHANGED <<pc, lines, reg, buf, buffer_index>>
  BY DEF Logger, Ready, Wait, Copy, Release, Log, clients, ring
<1>2. H' = H /\ S' = S /\ Numbered(w)'
  BY <1>1, LoggerKeeps DEF Ring
<1>3. TypeOK /\ TypeOK'
  BY DEF TypeInv
<1>4. /\ w \in Seq(Lines) /\ Len(w) \in Nat /\ Copied \in Nat /\ Copied <= Len(w)
      /\ L \in 0 .. MAX_BUFFERS /\ L \in Nat /\ H \in Nat /\ S \in Nat
  BY <1>3, RingFacts DEF Ring, Story
<1>5. /\ buffer_count \in Nat /\ spool_signal \in Nat
      /\ Len(log) \in Nat /\ MAX_BUFFERS \in Nat
  BY <1>3, BufferAssumption DEF TypeOK
<1>6. buffer_count + H + L + Releasing <= MAX_BUFFERS /\ spool_signal + S + Copying <= L
  BY DEF Ring, Credits, Signals
<1>7. CASE Ready
  <2>1. /\ UNCHANGED <<buffer_count, spool_signal, buffer_print_index, mybuf, log>>
        /\ lpc = "init" /\ lpc' = "wait"
    BY <1>7 DEF Ready, LGoto, ring
  <2>2. /\ Copied' = Copied /\ L' = L /\ Releasing' = Releasing /\ Copying' = Copying
        /\ \A k : Place(k)' = Place(k)
    BY <2>1 DEF Copied, Left, Releasing, Copying, Place
  <2>3. Story(w)' /\ Stored(w)'
    BY <1>1, <2>1, <2>2 DEF Ring, Story, Stored
  <2>4. Credits(w)' /\ Signals(w)'
    BY <1>2, <2>1, <2>2 DEF Ring, Credits, Signals
  <2>5. AtHead(w)'
    BY <1>1, <2>1, <2>2 DEF Ring, AtHead, Slot
  <2> QED
    BY <1>2, <2>3, <2>4, <2>5 DEF Ring
<1>8. CASE Wait
  <2>1. /\ UNCHANGED <<mutex, buffer_count, buffer_print_index, mybuf, log>>
        /\ lpc = "wait" /\ lpc' = "copy" /\ spool_signal' = spool_signal - 1
    BY <1>8 DEF Wait, LGoto, ring
  <2>2. /\ Copied' = Copied /\ L' = L /\ Releasing' = Releasing
        /\ Copying = 0 /\ Copying' = 1
        /\ \A k : Place(k)' = Place(k)
    BY <2>1 DEF Copied, Left, Releasing, Copying, Place
  <2>3. Story(w)' /\ Stored(w)'
    BY <1>1, <2>1, <2>2 DEF Ring, Story, Stored
  <2>4. Credits(w)'
    BY <1>2, <2>1, <2>2 DEF Ring, Credits
  <2> HIDE DEF H, S, L
  <2>5. (spool_signal - 1) + S + 1 <= L
    BY <1>4, <1>5, <1>6, <2>2
  <2>6. spool_signal' + S' + Copying' <= L'
    BY <1>2, <2>1, <2>2, <2>5, Zenon
  <2>7. Signals(w)'
    BY <2>6 DEF Signals, S, L
  <2>8. AtHead(w)'
    BY <1>1, <2>1, <2>2 DEF Ring, AtHead, Slot, L
  <2> QED
    BY <1>2, <2>3, <2>4, <2>7, <2>8 DEF Ring
<1>9. CASE Copy
  <2>1. /\ UNCHANGED <<mutex, buffer_count, spool_signal, log>>
        /\ lpc = "copy" /\ lpc' = "print" /\ mybuf' = buf[buffer_print_index]
        /\ buffer_print_index' = Slot(buffer_print_index + 1)
    <3>1. (buffer_print_index + 1) % MAX_BUFFERS = Slot(buffer_print_index + 1)
      <4>1. buffer_print_index \in Slots
        BY <1>3 DEF TypeOK
      <4>2. (buffer_print_index + 1) % MAX_BUFFERS =
              IF buffer_print_index + 1 = MAX_BUFFERS THEN 0 ELSE buffer_print_index + 1
        BY <4>1, NextSlot
      <4> QED
        BY <4>1, <4>2, BufferAssumption DEF Slot, Slots
    <3> QED
      BY <1>9, <3>1 DEF Copy, LGoto, sems
  <2>2. Copying = 1 /\ Copying' = 0 /\ Releasing = 0 /\ Releasing' = 1
    BY <2>1 DEF Copying, Releasing
  <2>3. Copied' = Copied + 1 /\ Copied = Len(log)
    BY <1>5, <2>1 DEF Copied
  <2>4. L >= 1
    BY <1>4, <1>5, <1>6, <2>2
  <2>5. L' = L - 1 /\ Copied + 1 <= Len(w)
    BY <1>4, <2>3, <2>4 DEF Left
  <2>6. \A k \in 0 .. MAX_BUFFERS - 1 : Place(k)' = Place(k + 1)
    BY <1>3, <2>1, SlotAfter DEF Place, Slot, TypeOK
  <2>7. Story(w)'
    <3>1. buf[Place(0)] = w[Copied + 0 + 1]
      BY <1>4, <2>4 DEF Ring, Stored
    <3>2. Place(0) = buffer_print_index
      BY <1>3, BufferAssumption DEF Place, Slot, TypeOK, Slots
    <3>3. mybuf' = w[Copied']
      BY <1>4, <2>1, <2>3, <3>1, <3>2
    <3> QED
      BY <1>4, <2>1, <2>3, <2>5, <3>3 DEF Ring, Story
  <2>8. Stored(w)'
    <3> SUFFICES ASSUME NEW k \in 0 .. L' - 1
                 PROVE  buf'[Place(k)'] = w[Copied' + k + 1]
      BY DEF Stored
    <3>1. k + 1 \in 0 .. L - 1 /\ k \in 0 .. MAX_BUFFERS - 1
      BY <1>4, <1>5, <2>5
    <3>2. buf[Place(k + 1)] = w[Copied + (k + 1) + 1]
      BY <3>1 DEF Ring, Stored
    <3>3. Copied + (k + 1) + 1 = Copied' + k + 1
      BY <1>4, <2>3, <3>1
    <3> QED
      BY <1>1, <2>6, <3>1, <3>2, <3>3
  <2>9. Credits(w)' /\ Signals(w)'
    <3> HIDE DEF H, S, L
    <3>1. /\ buffer_count + H + (L - 1) + 1 <= MAX_BUFFERS
          /\ spool_signal + S + 0 <= L - 1
      BY <1>4, <1>5, <1>6, <2>2
    <3>2. /\ buffer_count' + H' + L' + Releasing' <= MAX_BUFFERS
          /\ spool_signal' + S' + Copying' <= L'
      BY <1>2, <2>1, <2>2, <2>5, <3>1, Zenon
    <3> QED
      BY <3>2 DEF Credits, Signals, H, S, L
  <2>10. AtHead(w)'
    <3>1. h' = h
      BY <1>4, <1>5, <2>4, <2>5, <2>6
    <3> QED
      BY <1>1, <2>1, <3>1 DEF Ring, AtHead, Slot
  <2> QED
    BY <1>2, <2>7, <2>8, <2>9, <2>10 DEF Ring
<1>10. CASE Release
  <2>1. /\ UNCHANGED <<mutex, spool_signal, buffer_print_index, mybuf, log>>
        /\ lpc = "print" /\ lpc' = "log" /\ buffer_count' = buffer_count + 1
    BY <1>10 DEF Release, LGoto, ring
  <2>2. /\ Copied' = Copied /\ L' = L /\ Copying' = Copying
        /\ Releasing = 1 /\ Releasing' = 0
        /\ \A k : Place(k)' = Place(k)
    BY <2>1 DEF Copied, Left, Releasing, Copying, Place
  <2>3. Story(w)' /\ Stored(w)'
    BY <1>1, <2>1, <2>2 DEF Ring, Story, Stored
  <2>4. Signals(w)'
    BY <1>2, <2>1, <2>2 DEF Ring, Signals
  <2> HIDE DEF H, S, L
  <2>5. (buffer_count + 1) + H + L + 0 <= MAX_BUFFERS
    BY <1>4, <1>5, <1>6, <2>2
  <2>6. buffer_count' + H' + L' + Releasing' <= MAX_BUFFERS
    BY <1>2, <2>1, <2>2, <2>5, Zenon
  <2>7. Credits(w)'
    BY <2>6 DEF Credits, H, L
  <2>8. AtHead(w)'
    BY <1>1, <2>1, <2>2 DEF Ring, AtHead, Slot, L
  <2> QED
    BY <1>2, <2>3, <2>4, <2>7, <2>8 DEF Ring
<1>11. CASE Log
  <2>1. /\ UNCHANGED <<mutex, spool_signal, buffer_count, buffer_print_index, mybuf>>
        /\ lpc = "log" /\ lpc' = "wait" /\ log' = Append(log, mybuf)
    BY <1>11 DEF Log, LGoto, ring, sems
  <2>2. /\ Len(log') = Len(log) + 1 /\ log'[Len(log) + 1] = mybuf
        /\ \A i \in 1 .. Len(log) : log'[i] = log[i]
    BY <1>3, <2>1 DEF TypeOK
  <2>3. Copied = Len(log) + 1 /\ Copied' = Copied
    BY <1>5, <2>1, <2>2 DEF Copied
  <2>4. /\ L' = L /\ Releasing' = Releasing /\ Copying' = Copying
        /\ \A k : Place(k)' = Place(k)
    BY <2>1, <2>3 DEF Left, Releasing, Copying, Place
  <2>5. Story(w)'
    <3>1. \A i \in 1 .. Len(log) + 1 : log'[i] = w[i]
      <4> SUFFICES ASSUME NEW i \in 1 .. Len(log) + 1 PROVE log'[i] = w[i]
        OBVIOUS
      <4>1. i \in 1 .. Len(log) \/ i = Len(log) + 1
        BY <1>5
      <4>2. mybuf = w[Copied]
        BY <2>1 DEF Ring, Story
      <4> QED
        BY <2>2, <2>3, <4>1, <4>2 DEF Ring, Story
    <3> QED
      BY <1>4, <2>1, <2>2, <2>3, <3>1 DEF Story
  <2>6. Stored(w)'
    BY <1>1, <2>3, <2>4 DEF Ring, Stored
  <2>7. Credits(w)' /\ Signals(w)'
    BY <1>2, <2>1, <2>4 DEF Ring, Credits, Signals
  <2>8. AtHead(w)'
    BY <1>1, <2>1, <2>4 DEF Ring, AtHead, Slot
  <2> QED
    BY <1>2, <2>5, <2>6, <2>7, <2>8 DEF Ring
<1> QED
  BY <1>7, <1>8, <1>9, <1>10, <1>11 DEF Logger

(* At first nothing is written. *)
LEMMA RingInit == Init => RingInv
<1> SUFFICES ASSUME Init PROVE Ring(<<>>)
  <2>1. <<>> \in Seq(Lines)
    OBVIOUS
  <2> QED
    BY <2>1 DEF RingInv
<1>1. /\ Copied = 0 /\ Left(<<>>) = 0 /\ Len(log) = 0
      /\ Releasing = 0 /\ Copying = 0
  <2>1. log = <<>> /\ lpc = "init"
    BY DEF Init
  <2>2. Len(<<>>) = 0
    OBVIOUS
  <2>3. Copied = 0
    BY <2>1, <2>2 DEF Copied
  <2> QED
    BY <2>1, <2>2, <2>3 DEF Left, Releasing, Copying
<1>2. Story(<<>>)
  BY <1>1 DEF Init, Story
<1>3. Numbered(<<>>)
  <2>1. \A c : Count(<<>>, c, Len(<<>>)) = 0
    <3>1. \A c : {j \in 1 .. Len(<<>>) : <<>>[j].client = c} = {}
      OBVIOUS
    <3> QED
      BY <3>1, FS_EmptySet DEF Count
  <2>2. \A c \in Clients : Written(c) = 0
    BY DEF Init, Written
  <2> QED
    BY <2>1, <2>2 DEF Numbered
<1>4. Stored(<<>>)
  BY <1>1 DEF Stored
<1>5. Credits(<<>>) /\ Signals(<<>>)
  <2>1. At(Holding) = {} /\ At({"signal"}) = {}
    BY DEF Init, At, Holding, Critical
  <2> QED
    BY <1>1, <2>1, FS_EmptySet, BufferAssumption DEF Init, Credits, Signals
<1>6. AtHead(<<>>)
  <2>1. Place(Left(<<>>)) = 0
    BY <1>1, BufferAssumption DEF Init, Place, Slot
  <2> QED
    BY <2>1 DEF Init, AtHead
<1> QED
  BY <1>2, <1>3, <1>4, <1>5, <1>6 DEF Ring

(* Each step keeps the lines in the ring, with one line more after Leave. *)
LEMMA RingStep ==
  ASSUME TypeInv, TypeInv', IInv, RingInv, [Next]_vars
  PROVE  RingInv'
<1> SUFFICES ASSUME starts' = 1 PROVE \E w \in Seq(Lines) : Ring(w)'
  BY DEF RingInv
<1>1. starts = 1 /\ ~ Restart
  <2>1. starts \in Nat \ {0}
    BY DEF TypeInv, TypeOK
  <2>2. ~ Restart
    BY <2>1 DEF Restart
  <2> QED
    BY <2>2 DEF Next, Client, Logger, Type, GetBuffer, Enter, BeginWrite, EndWrite, Load,
                Store, Wrap, Leave, Signal, Kill, Ready, Wait, Copy, Release, Log,
                logger, vars
<1>2. PICK w \in Seq(Lines) : Ring(w)
  BY <1>1 DEF RingInv
<1>3. ASSUME NEW c \in Clients, Leave(c)
      PROVE  \E v \in Seq(Lines) : Ring(v)'
  <2>1. PICK l : l = Line(c, lines[c])
    OBVIOUS
  <2>2. Append(w, l) \in Seq(Lines) /\ Ring(Append(w, l))'
    BY <1>1, <1>2, <1>3, <2>1, LeaveAppendsLine
  <2> QED
    BY <2>2
<1>4. ASSUME NEW c \in Clients, Type(c) \/ Client(c) \/ Kill(c)
      PROVE  \E v \in Seq(Lines) : Ring(v)'
  BY <1>1, <1>2, <1>3, <1>4, OutsideKeepsRing, InsideKeepsRing DEF Client
<1>5. CASE Logger
  BY <1>1, <1>2, <1>5, LoggerKeepsRing
<1>6. CASE UNCHANGED vars
  <2>1. UNCHANGED <<logger, buffer_print_index, buffer_count, spool_signal, lines, mutex,
                    pc, buf, buffer_index, reg>>
    BY <1>6 DEF vars, sems, ring, clients
  <2>2. /\ Story(w)' /\ Copied' = Copied /\ Left(w)' = Left(w)
        /\ Releasing' = Releasing /\ Copying' = Copying
        /\ \A k : Place(k)' = Place(k)
    BY <1>2, <2>1, ClientKeeps DEF Ring
  <2>3. /\ Numbered(w)'
        /\ \A P : Cardinality(At(P))' = Cardinality(At(P))
    BY <1>2, <2>1, LoggerKeeps DEF Ring
  <2>4. Stored(w)' /\ Credits(w)' /\ Signals(w)'
    BY <1>2, <2>1, <2>2, <2>3 DEF Ring, Stored, Credits, Signals
  <2>5. AtHead(w)'
    BY <1>2, <2>1, <2>2 DEF Ring, AtHead, Slot, logger
  <2> QED
    BY <2>2, <2>3, <2>4, <2>5 DEF Ring
<1> QED
  BY <1>1, <1>4, <1>5, <1>6 DEF Next

(* What the first logger prints is whole, and the lines of each client are  *)
(* all there, once, in the order they were typed: whatever the number of    *)
(* clients and of buffers, and whoever is killed on the way.                *)
THEOREM LinesInOrder == Spec => []InOrder
<1>1. TypeInv /\ RingInv => InOrder
  <2> SUFFICES ASSUME TypeInv, RingInv, starts = 1, NEW i \in 1 .. Len(log)
               PROVE  /\ log[i] \in Lines
                      /\ log[i].number =
                           Cardinality({j \in 1 .. i : log[j].client = log[i].client})
    BY DEF InOrder
  <2>1. PICK w \in Seq(Lines) : Ring(w)
    BY DEF RingInv
  <2>2. Len(log) \in Nat /\ Len(w) \in Nat /\ Len(log) <= Len(w)
    BY <2>1 DEF TypeInv, TypeOK, Ring, Story, Copied
  <2>3. \A j \in 1 .. i : j \in 1 .. Len(log) /\ log[j] = w[j]
    BY <2>1, <2>2 DEF Ring, Story
  <2>4. log[i] = w[i] /\ i \in 1 .. Len(w)
    BY <2>2, <2>3
  <2>5. w[i] \in Lines
    BY <2>4
  <2>6. {j \in 1 .. i : log[j].client = log[i].client} =
        {j \in 1 .. i : w[j].client = w[i].client}
    BY <2>3, <2>4
  <2>7. w[i].number = Cardinality({j \in 1 .. i : w[j].client = w[i].client})
    BY <2>1, <2>4 DEF Ring, Numbered, Count
  <2> QED
    BY <2>4, <2>5, <2>6, <2>7
<1>2. TypeInv /\ TypeInv' /\ IInv /\ RingInv /\ [Next]_vars => RingInv'
  BY RingStep
<1> QED
  BY <1>1, <1>2, RingInit, Exclusion, Typing, PTL DEF Spec

=============================================================================

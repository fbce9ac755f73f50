---------------------------- MODULE SpoolLogger ----------------------------
(***************************************************************************)
(* shared_mem/client.c and shared_mem/logger.c: clients hand lines to a    *)
(* logger through a ring of buffers in shared memory, with three named     *)
(* semaphores, which are external: they and the memory outlive processes.  *)
(* A client may be killed, and the logger may be killed and started again. *)
(***************************************************************************)
EXTENDS Integers, Sequences, FiniteSets, Functions

CONSTANTS
  Clients,
  MAX_BUFFERS, \* buffers in the ring (10 in the code)
  MaxLines,    \* bound: lines typed into all clients together
  MaxStarts,   \* bound: logger processes, one after the other
  MaxKills     \* bound: clients that are killed

ASSUME ClientsAssumption == IsFiniteSet(Clients)
ASSUME BufferAssumption == MAX_BUFFERS \in Nat \ {0}
ASSUME BoundsAssumption == MaxLines \in Nat /\ MaxStarts \in Nat \ {0} /\ MaxKills \in Nat

VARIABLES
  mutex,              \* mutex_sem
  buffer_count,       \* buffer_count_sem, the buffers that are available
  spool_signal,       \* spool_signal_sem, the lines to be printed
  buf,                \* the ring; a line that is half written is Torn
  buffer_index,       \* where the next line goes
  buffer_print_index, \* the next line to print
  pc,                 \* pc[c]: where client c is
  lines,              \* lines[c]: how many lines have been typed into c
  reg,                \* reg[c]: the index c writes at, and then increments
  lpc,                \* where the logger is
  mybuf,              \* the line it has copied
  log,                \* the file
  starts              \* how many loggers have been started

sems    == <<mutex, buffer_count, spool_signal>>
ring    == <<buf, buffer_index, buffer_print_index>>
clients == <<pc, lines, reg>>
logger  == <<lpc, mybuf, log, starts>>
vars == <<sems, ring, clients, logger>>

-----------------------------------------------------------------------------
Slots   == 0 .. MAX_BUFFERS - 1
Line(c, n) == [client |-> c, number |-> n]
Unused  == [number |-> 0]
Torn    == [number |-> -1]

(* The first logger has created the semaphores and the memory; clients that *)
(* open them before that give up.                                           *)
Init ==
  /\ mutex = 0 /\ buffer_count = MAX_BUFFERS /\ spool_signal = 0
  /\ buf = [i \in Slots |-> Unused]
  /\ buffer_index = 0 /\ buffer_print_index = 0
  /\ pc = [c \in Clients |-> "type"]
  /\ lines = [c \in Clients |-> 0]
  /\ reg = [c \in Clients |-> 0]
  /\ lpc = "init" /\ mybuf = Unused /\ log = <<>> /\ starts = 1

Goto(c, from, to) == pc[c] = from /\ pc' = [pc EXCEPT ![c] = to]

-----------------------------------------------------------------------------
(* main of client.c *)

Type(c) ==
  /\ Goto(c, "type", "buffer")
  /\ FoldFunction(+, 0, lines) < MaxLines
  /\ lines' = [lines EXCEPT ![c] = @ + 1]
  /\ UNCHANGED <<sems, ring, reg, logger>>

(* Variant: the client does not wait for a buffer to be available. *)
GetBufferAnyway(c) ==
  /\ Goto(c, "buffer", "mutex")
  /\ UNCHANGED <<sems, ring, lines, reg, logger>>

GetBuffer(c) ==
  /\ Goto(c, "buffer", "mutex")
  /\ buffer_count > 0 /\ buffer_count' = buffer_count - 1
  /\ UNCHANGED <<mutex, spool_signal, ring, lines, reg, logger>>

(* Variant: the client does not wait for the mutex. *)
EnterAnyway(c) ==
  /\ Goto(c, "mutex", "write")
  /\ reg' = [reg EXCEPT ![c] = buffer_index]
  /\ UNCHANGED <<sems, ring, lines, logger>>

Enter(c) ==
  /\ Goto(c, "mutex", "write")
  /\ mutex > 0 /\ mutex' = mutex - 1
  /\ reg' = [reg EXCEPT ![c] = buffer_index]
  /\ UNCHANGED <<buffer_count, spool_signal, ring, lines, logger>>

(* sprintf takes a while: its beginning and its end are two steps. *)
BeginWrite(c) ==
  /\ Goto(c, "write", "writing")
  /\ buf' = [buf EXCEPT ![reg[c]] = Torn]
  /\ UNCHANGED <<sems, buffer_index, buffer_print_index, lines, reg, logger>>

EndWrite(c) ==
  /\ Goto(c, "writing", "load")
  /\ buf' = [buf EXCEPT ![reg[c]] = Line(c, lines[c])]
  /\ UNCHANGED <<sems, buffer_index, buffer_print_index, lines, reg, logger>>

(* buffer_index++ loads the index again and stores it incremented. *)
Load(c) ==
  /\ Goto(c, "load", "store")
  /\ reg' = [reg EXCEPT ![c] = buffer_index + 1]
  /\ UNCHANGED <<sems, ring, lines, logger>>

Store(c) ==
  /\ Goto(c, "store", "wrap")
  /\ buffer_index' = reg[c]
  /\ UNCHANGED <<sems, buf, buffer_print_index, lines, reg, logger>>

(* Variant: the index is not set back to 0. *)
WrapNever(c) ==
  /\ Goto(c, "wrap", "leave")
  /\ UNCHANGED <<sems, ring, lines, reg, logger>>

Wrap(c) ==
  /\ Goto(c, "wrap", "leave")
  /\ buffer_index' = IF buffer_index = MAX_BUFFERS THEN 0 ELSE buffer_index
  /\ UNCHANGED <<sems, buf, buffer_print_index, lines, reg, logger>>

Leave(c) ==
  /\ Goto(c, "leave", "signal")
  /\ mutex' = mutex + 1
  /\ UNCHANGED <<buffer_count, spool_signal, ring, lines, reg, logger>>

(* Variant: the logger is not told about the line. *)
SignalNever(c) ==
  /\ Goto(c, "signal", "type")
  /\ UNCHANGED <<sems, ring, lines, reg, logger>>

Signal(c) ==
  /\ Goto(c, "signal", "type")
  /\ spool_signal' = spool_signal + 1
  /\ UNCHANGED <<mutex, buffer_count, ring, lines, reg, logger>>

Kill(c) ==
  /\ Cardinality({d \in Clients : pc[d] = "killed"}) < MaxKills
  /\ pc[c] # "killed" /\ pc' = [pc EXCEPT ![c] = "killed"]
  /\ UNCHANGED <<sems, ring, lines, reg, logger>>

-----------------------------------------------------------------------------
(* main of logger.c *)

LGoto(from, to) == lpc = from /\ lpc' = to

(* "now we can set mutex semaphore as 1": it is incremented. *)
Ready ==
  /\ LGoto("init", "wait")
  /\ mutex' = mutex + 1
  /\ UNCHANGED <<buffer_count, spool_signal, ring, clients, mybuf, log, starts>>

Wait ==
  /\ LGoto("wait", "copy")
  /\ spool_signal > 0 /\ spool_signal' = spool_signal - 1
  /\ UNCHANGED <<mutex, buffer_count, ring, clients, mybuf, log, starts>>

(* Variant: the buffer is released before it has been copied. *)
CopyLate ==
  /\ LGoto("copy", "print")
  /\ buffer_print_index' = (buffer_print_index + 1) % MAX_BUFFERS
  /\ mybuf' = buf[(buffer_print_index + 1) % MAX_BUFFERS]
  /\ UNCHANGED <<sems, buf, buffer_index, clients, log, starts>>

Copy ==
  /\ LGoto("copy", "print")
  /\ mybuf' = buf[buffer_print_index]
  /\ buffer_print_index' = (buffer_print_index + 1) % MAX_BUFFERS
  /\ UNCHANGED <<sems, buf, buffer_index, clients, log, starts>>

Release ==
  /\ LGoto("print", "log")
  /\ buffer_count' = buffer_count + 1
  /\ UNCHANGED <<mutex, spool_signal, ring, clients, mybuf, log, starts>>

Log ==
  /\ LGoto("log", "wait")
  /\ log' = Append(log, mybuf)
  /\ UNCHANGED <<sems, ring, clients, mybuf, starts>>

(* The logger is killed and started again.  sem_open leaves the value of a  *)
(* semaphore that exists alone; both indices are set to 0.                  *)
Restart ==
  /\ starts < MaxStarts /\ lpc # "init" /\ starts' = starts + 1
  /\ lpc' = "init" /\ mybuf' = Unused
  /\ buffer_index' = 0 /\ buffer_print_index' = 0
  /\ UNCHANGED <<sems, buf, clients, log>>

-----------------------------------------------------------------------------
Critical == {"write", "writing", "load", "store", "wrap", "leave"}

Client(c) ==
  \/ GetBuffer(c) \/ Enter(c) \/ BeginWrite(c) \/ EndWrite(c) \/ Load(c)
  \/ Store(c) \/ Wrap(c) \/ Leave(c) \/ Signal(c)

Logger == Ready \/ Wait \/ Copy \/ Release \/ Log

Next ==
  \/ \E c \in Clients : Type(c) \/ Client(c) \/ Kill(c)
  \/ Logger \/ Restart

Spec == Init /\ [][Next]_vars

(* A semaphore serves everyone who waits for it over and over again. *)
Fairness ==
  /\ WF_vars(Logger)
  /\ \A c \in Clients : SF_vars(Client(c))

FairSpec == Spec /\ Fairness

-----------------------------------------------------------------------------
(* Properties *)

Inside == {c \in Clients : pc[c] \in Critical}

Lines == [client : Clients, number : Nat \ {0}]

(* Every variable has its type, and as long as one logger has been started  *)
(* the index of the producers stays inside the ring.                        *)
TypeOK ==
  /\ mutex \in Nat /\ buffer_count \in Nat /\ spool_signal \in Nat
  /\ buf \in [Slots -> Lines \cup {Unused, Torn}]
  /\ buffer_index \in Nat /\ (starts = 1 => buffer_index \in 0 .. MAX_BUFFERS)
  /\ buffer_print_index \in Slots
  /\ pc \in [Clients -> Critical \cup {"type", "buffer", "mutex", "signal", "killed"}]
  /\ lines \in [Clients -> Nat] /\ reg \in [Clients -> Nat]
  /\ lpc \in {"init", "wait", "copy", "print", "log"}
  /\ mybuf \in Lines \cup {Unused, Torn} /\ log \in Seq(Lines \cup {Unused, Torn})
  /\ starts \in 1 .. MaxStarts

(* No more clients are in the critical section than loggers were started:   *)
(* one, unless a logger was started again.                                  *)
AsManyAsLoggers == Cardinality(Inside) + mutex <= starts

(* What the comment in client.c says: only one producer uses buffer_index   *)
(* at a time.                                                               *)
OneProducer == Cardinality(Inside) <= 1

(* What the first logger prints: every line whole, and the n-th line of a   *)
(* client with the number n, so those of a client come in the order they    *)
(* were typed, none of them twice and none left out.                        *)
InOrder ==
  starts = 1 =>
    \A i \in 1 .. Len(log) :
      /\ log[i] \in Lines
      /\ log[i].number = Cardinality({j \in 1 .. i : log[j].client = log[i].client})

(* A line that was typed is printed, unless a client was killed or the      *)
(* logger was started again.                                                *)
AllPrinted ==
  \A c \in Clients : \A n \in 1 .. MaxLines :
    lines[c] = n ~> \/ Line(c, n) \in Range(log)
                    \/ starts > 1
                    \/ \E d \in Clients : pc[d] = "killed"

=============================================================================

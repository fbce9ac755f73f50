# Verification of the VirtualGL NvIFR transport

`src/testplugin.cpp` is a VirtualGL image transport plugin. It reads an
application's frames back into a pool of GPU buffers, and its encoder thread
encodes one of them with NvIFR (H.264) whenever a *mighty* server asks for a
frame over ZeroMQ. Two more programs live beside it: a standalone capture of an X
window, and a spooler that tries out shared memory. This directory holds TLA+
modules of these programs, TLC configurations that check them on small
instances, and proofs that hold for all instances.

    tlc -workers 2 -config Pool.cfg MCGPUEncTrans      (one run)
    tlapm GPUEncTransProofs.tla                        (one module of proofs)

1. [The system](#1-the-system)
2. [Modules, and how they correspond to the code](#2-modules-and-how-they-correspond-to-the-code)
3. [Runs, bounds, fairness](#3-runs-bounds-fairness)
4. [Proofs](#4-proofs)
5. [Disagreements between the code and what is said of it](#5-disagreements-between-the-code-and-what-is-said-of-it)
6. [What is not modelled](#6-what-is-not-modelled)
7. [Plan](#7-plan)

## 1. The system

### Components

| component | state it keeps | operations | who it talks to |
|---|---|---|---|
| frame pool and transport calls: `GPUEncBuffer`, `GPUEncTrans`, the `RRTrans*` C functions (testplugin.cpp) | three buffers, each with an FBO, a size and a "complete" event; the pool's mutex; the queue of sent frames; the event `synchronize` waits for; the error the encoder thread died of | `RRTransGetFrame` (scan, take, `init`), `RRTransSendFrame` (`copyPixels`, `spoil`), `RRTransSynchronize`; `RRTransReady` and `RRTransConnect`, which change nothing | application threads call it; the encoder thread takes frames off its queue and completes them |
| plugin lifecycle: `RRTransInit`, `RRTransDestroy`, constructors, destructors | per window: buffers, ZeroMQ context and sockets, cloned display, thread; for all windows: the log `debug`, NvIFR's entry points, the handler of X errors | construct, unwind after an exception, join and destroy | application threads, one for each window |
| encoder thread: `GPUEncTrans::run` | the frame it holds, the size a RESTART asked for | one loop: receive, `reset_encoder`, take a frame, `setupNVIFRHwEnc`, `captureHwEnc`, complete, respond; a catch block; the clean-up after the loop | the pool (queue, events), NvIFR, the server |
| hardware encoding: `initNVIFR`, `setupNVIFRHwEnc`, `captureHwEnc`, `reset_encoder` | NvIFR session, transfer object, their size, the output file, the mapped segment | create, reuse or replace the transfer object; transfer, lock, write, release; reset | NvIFR, a file, `SharedMem` |
| NvIFR, as NvIFROpenGL.h describes it | a session, its transfer objects, the queue of encoded segments of each | create, destroy, transfer, lock, release | the plugin and the standalone program |
| `SharedMem` (shared_mem_comm.cpp) | the mapping of one segment | map by id, `write`, `get_written_size` | the encoder writes, the server reads |
| `VglMightyIPC`, `VglRPC` (shared_mem_comm.cpp) | two ZeroMQ sockets: requests are published (PUB/SUB), responses pushed (PUSH/PULL) | `send`, `receive` on both sides, `clear_receive`; a PING is answered inside `receive_vgl` | the encoder thread and the server |
| mighty server (mini_mighty.cpp) | its segment, whether it believes it is connected | drain, PING, PONG, RESTART, then FRAME_REQUEST and response for ever; starts over when a receive times out | all encoders that subscribe |
| C++ binding of ZeroMQ (zmq.hpp) | which object holds which context, socket or message of the C library | construct, move, swap, copy, close, send, receive, monitor | `VglMightyIPC` |
| spooler example (shared_mem/client.c, logger.c) | ring of ten lines, two indices, three named semaphores | client: type, write, signal; logger: wait, copy, print | clients and the logger share memory |
| standalone capture (nvifr-encoder/XCapture.cpp, encoder.cpp) | list of windows, GLX context, NvIFR session and transfer object, file | find a window by name, open a context for it, capture in a loop | the X server, NvIFR, a file |
| test client (vgl_tester.cpp) | none | answers FRAME_REQUEST | the server |
| backtrace, timers | — | formatting | — |

### Behaviours that are hard

* **Three parties on one buffer.** A buffer goes from the pool to an application
  thread, to the queue, to the encoder and back. Three locks or events of
  different kinds guard it (the pool's mutex, the queue's lock and semaphore,
  the buffer's event), and `spoil` returns buffers to the pool behind the back
  of the encoder. A `TODO` in `sendFrame` (testplugin.cpp:321) asks whether
  that is safe.
* **Claims that are not atomic.** `items()` and `get()` are two steps of the
  encoder, and `get()` itself claims an item and unlinks one in two steps.
* **Errors on the way.** Every GLX, GL, NvIFR or ZeroMQ call can throw, between
  two assignments that belong together or half-way through a constructor, and
  one kind of exception (`error_t`) is caught by nobody.
* **Contexts.** A GLX context is current on one thread at a time; buffers move
  between threads together with theirs.
* **Shared by accident.** Every window has an instance and an encoder thread, but
  the log is one pointer without a lock, which any of them closes.
* **Two lifetimes.** Server and encoders start, die and restart independently;
  requests are lost without a subscriber while responses outlive their reader,
  and neither side waits when a pipe is full.
* **Timeouts and signals.** The server starts over after 200 ms although the
  answer may be on its way; a signal ends a receive and counts as a message.
* **Streams.** An H.264 frame can be decoded only with the one before it, so that
  a new file or segment has to begin with a new transfer object.
* **A tree that changes.** The standalone program walks through windows that other
  programs destroy meanwhile.
* **Shutdown** with the encoder thread anywhere in its loop, or dead, and with
  sockets that nothing closes.

`PROJECT.json` ("hazards") has one entry for each place in the code, with the
properties that would catch it going wrong.

## 2. Modules, and how they correspond to the code

    FrameLifecycle          what the pool promises              (abstract)
        ^ Refines
    GPUEncTrans             pool, queue, calls, run             MCGPUEncTrans: Pool, Threads, Progress
        ^ GPUEncTransProofs     inductive invariant and its theorems
            ^ PoolSizeProofs        how many buffers are enough

    NvIFR                   what NvIFR asks of a client         (abstract)
        ^ UsesNvIFR
    HwEncoder               run, NvIFR and the outputs          MCHwEncoder: HwEncoder, DestroyTwice
    XCapture                the standalone program              MCXCapture: Capture
        ^ HwEncoderProofs, XCaptureProofs

    MightyIPC               server and encoders over ZeroMQ     MCMightyIPC: Restarts, Served
        ^ MightyIPCProofs
    PluginInstances         instances of all windows            MCPluginInstances: Instances, Terminate
        ^ PluginInstancesProofs
    ZmqBinding              objects of zmq.hpp                  MCZmqBinding: Binding
        ^ ZmqBindingProofs
    SpoolLogger             clients, logger and the ring        MCSpoolLogger: Spool
        ^ SpoolLoggerProofs

The encoder thread appears in four modules, each time seen from the part it
interacts with and with the other parts replaced by a choice. In `GPUEncTrans`
the message that is received and every NvIFR call are choices, in `MightyIPC`
whether a frame is queued, in `HwEncoder` both the message and the queue, and
`PluginInstances` has only its start and its end. Those choices admit at least
what the other modules do, so that the safety properties of each module hold of
the whole.

A definition whose name is another one's with a suffix (`EnqueueOnly`,
`SetupReuseAny`, ...), under a comment that starts with "Variant", is what a
plausible mistake would have made of it. No specification uses it;
`PROJECT.json` ("mutants") says which property it must break.

### GPUEncTrans

| state | code |
|---|---|
| `complete[f]` | the event in `GPUEncBuffer` (`signalComplete`, `waitComplete`, `isComplete`) |
| `size[f]`, `storage[f]` | members `width`/`height`, and what `fbo`/`rbo` really hold: they differ after a failed `init` |
| `list`, `hasItem`, `queueLock` | VirtualGL's `GenericQ`: linked list, semaphore, critical section |
| `mutex`, `index`, `scan` | `SafeLock` and the locals of `getFrame` |
| `frame`, `dummy`, `pc` | an application thread: the frame it was given, the item `spoil` has unlinked, its place in the code |
| `current`, `saved` | the GLX context that is current on each thread, and the local `vglCtx` |
| `epc`, `eframe` | the encoder thread's place and its local `frame` |
| `ready`, `threadError`, `phase` | the event of `synchronize`, `Thread::setError`, progress of the destructor (`shutdown`, the queue's `deadYet`) |

An action is what happens between two points where another thread can
interfere: `getFrame` is `CallGetFrame`, `LockPool`, one `ScanBuffer` per buffer,
then `TakeBuffer` or `NoFreeBuffer`; `init` is `InitReuse`, or `InitEnter`
followed by `InitFinish` or `InitThrow`, or `InitRefused`; `sendFrame` is
`CopyEnter`, `CopyFinish` or `CopyThrow`, `SpoilLock`, any number of `Drain` and
`SpoilFunction` pairs, and `Enqueue`. `run` is `Loop`, `Receive`, `ResetEncoder`,
`Items`, `ClaimItem`, `PopItem`, `SignalReady`, `MakeCurrent`, `EncodeFrame`,
`SignalComplete`, with `ReturnEarly`, `GetReleased` and `EncThrow` for the other
ways. The destructor is `RRTransDestroy`, `ReleaseQueue`, `JoinThread`.

VirtualGL is not in the repository. Its `GenericQ`, `Event`, `CriticalSection` and
`Thread` are modelled from how the plugin uses them; the actions are marked in
the map by the plugin's lines they stand for. What is taken from VirtualGL as a
caller: it destroys a transport only when no call on it is in progress and makes
no call afterwards, and a window's frames may be sent by several threads.

### FrameLifecycle

What remains when threads, locks and contexts are forgotten: the status of each
frame and the order of those that wait. `GPUEncTrans!Refines` maps the one to
the other: `Status(f)` reads the status off the owner, and `Waiting` puts the
frame `spoil` has unlinked, but not yet signalled, back at the front of the list.

### MightyIPC

`Server` is the loop of `main` in mini_mighty.cpp, cut at each send and receive;
`spc` is the place in it: "clear", "ping", "pong" for the branch that is not
connected, then "restart", and "request", "response", "read" for the other.
`EncoderRun(e)` is `receive_vgl` and as much of `run` as the protocol sees.
`requests[e]` and `responses[e]` are the pipes; a pipe that holds `HWM` messages
drops the next one, and `dropped[e]` remembers that one of the requests was.
`linked[e]` says that the SUB socket is connected to this server process:
`Publish` skips the others.

The faults are actions. `ServerRestart` kills the server; what it had sent and
what had reached it may be lost, a prefix of the requests and a suffix of the
responses remain. The new segment has a new id or the last one's
(`GenerateMemId`), since ids are times in whole seconds. `AppRestart(e)` kills and
starts the application, `Fail(e)` ends its encoder thread and leaves the sockets,
`NullSegment(e)` is the encoder that writes without a segment and takes the
application down. `ServerInterrupt` and `EncoderInterrupt(e)` are signals: the
`error_t` is caught, and the caller goes on with the message NONE. `Timeout` is a
receive that has waited for 200 ms; when `patient` holds, it happens only with
nothing under way. `proved[e]` and the field `by` of messages are for the
properties only.

### NvIFR and HwEncoder

`NvIFR` has an operator for each call, which says what the call does and, in
`Needs`, when a client may make it. A call that may not be made changes `misused`,
also where it changes nothing else, so that `Spec`, which keeps `misused`, sees
it: a dead handle that is destroyed again, say, is no stuttering step. From the
header come the rules about handles and data (objects are created in a session, a
segment is locked only when one is in the queue and released only when it is
locked) and about the context, which has to be current when a session is created
and when a frame is transferred. `current` is the client's variable: `HwEncoder`
has one of its own, and `XCapture` says `current <- context = "current"`. Two rules
are not the header's, but those of the part of NvIFR that is used: one session at
a time, and its objects are destroyed before it. `count[o]` and `taken[o]` are the
segments that have entered and left the queue of `o`.

`HwEncoder` builds its actions from these operators. `dims` and `transfer` are the
members `width`/`height` and `m_hTransferObject`, `pinned` the locals
`width`/`height` of `run` that only a RESTART sets, `frame` the size of the frame.
A frame in an output is `Frame(object, number)`, by which `Decodable` knows what
comes before it. `file` and `segment` are the last frame in each output, `refused`
the frame `SharedMem::write` found too large, and `NewServer` empties the segment
that is mapped, with `reused` to remember it. `BitRate` computes as C does, in an
`int` that wraps (`Wrap`) and with the conversion to `unsigned` of a negative
quotient; `IntMax` is a constant, so that the run can have a small one. Every
call that can fail has a `...Throw` action, and `Crash` stands for the three ways
to take the application down. `MakeCurrent` is the call of the buffer between
`TakeFrame` and the set-up, `Respond` and both clean-ups let go of the context.
`UsesNvIFR` is `NvIFR!Spec` with one exception, `DestroysAgain`: in the catch block
the thread destroys the handle of an object of another size, which `SetupDestroy`
has destroyed before `SetupThrow`. This is the counterexample of `DestroyTwice`, and
the only call that may not be made.

### PluginInstances

`pc[w]` is where the thread is that makes the calls for window `w`: `RRTransInit`
opens the log in two steps (`CheckLog`, `OpenLog`) and runs the constructors in
the order the members are declared, one action for each thing that exists
afterwards (`BuildBuffer`, `NewContext`, `NewSocket`, `StartThread`), with a
`...Throw` beside each. An exception unwinds what is built: `CloseContext`, which
waits for `sockets[w] = 0`, then `Unwind`, then `Catch`. An `error_t` is not caught
(`Uncaught`). `RRTransDestroy` closes the log, `JoinThread` waits for the thread,
and the destructors follow the same way. `why[w]` tells the two apart. What the
instances share is `debug` and `files` (the pointer and the log files that are
open), `loaded` and `handler`. The process ends, with `crashed` saying of what, when
somebody prints to a log that is closed or not there (`BadLog`, `VglXErrorFunc`),
when nobody catches an exception, or when NvIFR is called through NULL. `raced` and
`denied` are history, for the properties only: two windows have been between
`CheckLog` and `OpenLog` at once, and `fopen` has failed. `OpenLog` assigns `debug`
in any case, NULL when `fopen` fails, whatever another window has put there.

### XCapture

Windows are numbered in the order of a document, as any ordered tree can be:
`Numbering` says which parents such numbers can have, and `Init` takes all of
them. `Children(w)` is what `XQueryTree` returns, the children that are still there
from the first to the last. `todo` is the recursion of `GetWindowWithGivenName` as a
stack of calls: `Walk` visits a window and puts its children in front. The X server is there with
`Destroy` and `Resize`; a request for a window that is gone is `BadWindow`, and
`XErrorFunc` ends the program for all but the two errors it returns from.
`CreateContext` and `MakeCurrentError` go through `TryAgain`, which tries again with
alpha and then gives up. `Padded` rounds the size to the multiple of 32 that
NvIFR gets. The loop of `captureThreadSync` ignores what `CaptureSync` returns:
`LockFails` and `ReleaseFails` go back to the next transfer. `NvIFROGLInitialize`
ends in "crashed" when no window was found, since `windowList[0]` is read from an
empty vector (encoder.cpp:37).

### ZmqBinding

What zmq.hpp's objects hold: `ptr[c]` is the C context of a `context_t`, `handle[s]`
and `ctxptr[s]` are the members of a `socket_t`, `block[m]` is what a `message_t` has.
`alive`, `down`, `home[h]` and `refs[b]` are the C library's side. There is an action
for each constructor, move, swap, close and destructor, for `message_t::rebuild`,
`move` and `copy`, `send` and `recv`, and for `monitor_t`, of whose two members
`_monitor_socket` is one of the sockets and `_socket` is `ref`. The move
assignment of `socket_t` swaps `_handle` and not `ctxptr`; `assigned` remembers
those sockets.

### SpoolLogger

One action per semaphore operation and per access to shared memory; `sprintf`
is two (`BeginWrite`, `EndWrite`) and `buffer_index++` is `Load` and `Store`, so that
two clients in the critical section would be seen to interfere. `Ready` is the
`sem_post` on the mutex by each logger that starts, `Restart` a logger killed and
started again, `Kill` a client killed anywhere. A line is who typed it and the
how manieth it is; `Torn` is half of one. `InOrder` asks that the n-th line of a
client in `log` has the number n. So no line is torn, printed
twice, left out or overtaken by a later one of the same client. `MaxLines` bounds the
run alone, and the theorems hold for every value of it.

## 3. Runs, bounds, fairness

| run | instance | properties | what it shows | distinct states |
|---|---|---|---|---|
| `Pool` | 1 thread, 3 buffers, 2 sizes | `TypeOK`, `ExhaustedOnlyAfterLoss`, `AppContextRestored`, `FrameDrawable`, `QueueBound` | failures, spoiling, resizes and the destructor leave pool, contexts, storage and queue consistent | 347,591 |
| `Threads` | 2 threads, 3 buffers, 1 size | `OneOwner`, `WaitCompleteNeverBlocks`, `ContextExclusive`, `Refines` | two threads and the encoder, interleaved step by step, never share a buffer or a context, and implement `FrameLifecycle` | 271,580 |
| `Progress` | 1 thread that also synchronizes, 3 buffers | `SentFrameReturned`, `CallReturns`, `SyncWakes`, `DestructorJoins` | calls return, sent frames come back, the destructor joins the thread | 67,863 |
| `Restarts` | 1 encoder started twice, 2 servers, pipes of 2, a signal, early timeouts | `TypeOK`, `NullOnlyAfterRestart`, `OwnSegment` | a server that has had its own PONG reads its own segment, whatever else is under way | 935,385 |
| `Served` | 1 encoder started twice, 3 servers, pipes of 4, a signal, no early timeouts | `OneAhead`, `ServedInTheEnd` | the encoder runs at most one answer ahead; every server is served in the end | 77,151 |
| `HwEncoder` | 2 sizes, 3 objects, 2 frames each, 2 segments, an `int` up to 511 | `TypeOK`, `CodedSize`, `OwnFrame`, `NothingLeaks`, `RateFits`, `Decodable`, `UsesNvIFR` | right size and bit rate, nothing left over but by the early return, outputs that can be decoded from their start, and one call of NvIFR only that may not be made | 2,653,286 |
| `Spool` | 2 clients, 2 buffers, 3 lines, 1 kill, 1 restart | `TypeOK`, `AsManyAsLoggers`, `InOrder`, `AllPrinted` | lines are printed whole, once, in order and all of them | 98,380 |
| `Instances` | 2 windows, 2 buffers each, 2 calls of `RRTransInit` each | `TypeOK`, `NothingOutlives`, `FailedInitClean`, `LogLost`, `InitReturns` | encoder threads have all they use, a failed init leaves nothing behind, a log is forgotten only after a race of two windows, and the process dies of it only by a destroy or a failing `fopen` | 65,094 |
| `Capture` | 3 windows below the root, in every tree; sizes 0, 32, 33; 2 frames | `TypeOK`, `WindowsInOrder`, `FileInOrder`, `UsesNvIFR` | the right windows are found although others are destroyed; the file has every frame once; no call of NvIFR that may not be made | 967,424 |
| `Binding` | 2 contexts, 3 sockets (one of a monitor), 2 messages, symmetry | `HandlesOwned`, `BlocksCounted` | nothing of ZeroMQ is closed twice, leaks, or is freed while it is held | 453,495 |
| `Terminate`, `DestroyTwice` | | `ContextTerminates`, `HandleLive` | end in a counterexample, see section 5 | |

What each property says is in the comment above its definition.

**Why the bounds are enough.**

* `Pool` has the three buffers of the code. With one thread the pool is never
  exhausted without a failure, and enough failures happen to lose all three, so
  that `NoFreeBuffer` is reached. Two sizes make `init` go both ways, and allow a
  resize while the old frame is queued and another is encoded.
* `Threads` has two application threads, the least number for which the mutex, the
  queue's lock and the ownership of frames mean anything, and the code's three
  buffers, so that a thread also finds the pool empty. `ExhaustedOnlyAfterLoss`
  says something about two threads only for four buffers or more, and is proved
  for those.
* `Restarts` has two server processes and two lives of the application, each of
  which may be killed with messages under way in both directions. Two messages
  fill a pipe: PING and RESTART do, so that any of the three requests may be the
  one that is dropped. More of everything is covered by the theorems.
* `Served` has three server processes: an answer to the first can meet the third.
  A pipe of four holds more than is ever under way to an encoder that works
  (`OneAhead`), so that nothing is dropped but what an encoder that has failed
  does not read.
* `HwEncoder` has three transfer objects, so that a resize follows a RESTART and the
  reverse, two frames per object, the least number for which a frame needs the
  one before it, two segments and a server that may ask for a size of its own.
  With `IntMax = 511` the product of the bit rate fits for size 1 (360) and
  overflows for size 2 (720). Encoding stops when objects or frames run out, but
  the thread still ends through its loop, the early return or its catch block.
* `Spool` has a ring of two, in which both indices wrap, and three lines, one more
  than buffers, so that a client waits for the logger. One kill and one restart
  are every way a semaphore can be left behind.
* `Instances` has two windows, whose calls interleave in the log and in `loaded`,
  and two buffers, so that a constructor fails with one made; an init that failed
  is tried again, and opens a log again if another's `fopen` has failed meanwhile, so
  that a window may open one at each of its calls.
* `Capture` enumerates all trees, names and sizes of three windows, the least
  number with which a walk goes down, back up and on; 33 is padded and 32 is not.
  Two frames are enough for one to wait in the queue behind the other.
* `Binding` has two of each kind, which is all that a move or a swap relates.
  Addresses of the C library are used again, so that a stale one would be
  mistaken for a new one.

**Deadlock** is checked except in four configurations. In `Progress` the
application may call `synchronize` after the encoder thread has died and then
hangs, as the code does (it does not look for the error). In `Spool` everything
stops when all lines are printed, or when a client was killed inside the critical
section. In `Instances` and `Terminate` everything stops when the process has
died, or when a destructor waits for sockets that nobody closes. A plugin that has
been destroyed, and an encoder thread or a program that has ended, stutter
explicitly (`Joined`, `Stopped`).

**Fairness.**

* `GPUEncTrans`: weak fairness of a thread inside a call, of the encoder thread
  and of a destructor that has begun: the scheduler runs threads that can run. No
  application is forced to make a call. Weak fairness is enough for `SpoilLock`
  and `LockPool` with one thread, which is what `Progress` has. `Run` includes
  `Receive`, hence the assumption that the server keeps sending; without it the
  destructor waits for ever, since the receive at testplugin.cpp:373 has no
  timeout.
* `MightyIPC`: both loops go on, and ZeroMQ connects in the end. Restarts, failures
  and signals are not fair, they merely may happen.
* `SpoolLogger`: weak for the logger, strong for each client, whose waits are
  disabled again and again by the other; POSIX semaphores under the default
  scheduler do not starve a waiter for ever. Typing is not forced.
* `PluginInstances`: a call that has begun goes on where it can, and an encoder
  thread that is told to stop does, again because the server keeps sending
  (`DestructorJoins` is this statement about the thread itself). The counterexample
  of `Terminate` is under this fairness.

## 4. Proofs

The proof modules are checked by TLAPS with Z3, Zenon and LS4. Theorems and
their assumptions are about every value of the constants; the only assumptions
are the named `ASSUME`s of the modules: at least one buffer; finitely many
threads, clients, windows, encoders and messages; an encoder that is no
application thread and a monitor's socket that is a socket; positive sizes,
segments and pipes; bounds that are natural numbers.

| module | theorem | says |
|---|---|---|
| `GPUEncTransProofs` | `TypeCorrect` | `[]TypeOK` |
| | `Ownership` | `[]OneOwner`: spoil never completes a frame that is being encoded (the TODO at testplugin.cpp:321) |
| | `WaitComplete` | `[]WaitCompleteNeverBlocks` |
| | `Contexts`, `ContextRestored` | `[]ContextExclusive`, `[]AppContextRestored` |
| | `Drawables` | `[]FrameDrawable` |
| | `QueueBounded` | `[]QueueBound` |
| | `LostForGood` | a buffer dropped by an error is never used again |
| | `Implements` | `Refines`: pool, queue and encoder thread implement `FrameLifecycle` |
| `PoolSizeProofs` | `PoolSize` | `[]ExhaustedOnlyAfterLoss`: one buffer per thread and two more are enough |
| `HwEncoderProofs` | `TypeCorrect`, `RightSize`, `WritesOwnFrame`, `NoLeak`, `BitRates` | `[]` of `TypeOK`, `CodedSize`, `OwnFrame`, `NothingLeaks`, `RateFits` |
| | `Refinement` | `UsesNvIFR`: each call of NvIFR is one that may be made, but for the handle of an object of another size that the catch block destroys again |
| | `OutputsDecodable` | `Decodable` |
| `MightyIPCProofs` | `TypeCorrect` | `[]TypeOK` |
| | `Segment` | `OwnSegment`, with any number of encoders, processes and messages in a pipe |
| | `SegmentMapped` | `[]NullOnlyAfterRestart` |
| | `AheadByOne` | `[]OneAhead`: a lone encoder runs ahead by one answer and no more |
| `PluginInstancesProofs` | `TypeCorrect`, `EncoderSafe`, `FailedInit`, `LogKept` | `[]` of `TypeOK`, `NothingOutlives`, `FailedInitClean`, `LogLost` |
| | `DestroyNeverReturns` | once `RRTransDestroy` has begun it never returns |
| `XCaptureProofs` | `TypeCorrect`, `FramesInOrder`, `Refinement` | `[]TypeOK`, `[]FileInOrder`, `UsesNvIFR` |
| | `FoundInOrder` | `[]WindowsInOrder`, in any tree and whichever windows go meanwhile |
| `ZmqBindingProofs` | `Ownership`, `Counted` | `[]HandlesOwned`, `[]BlocksCounted` |
| `SpoolLoggerProofs` | `TypeCorrect` | `[]TypeOK` |
| | `MutualExclusion` | `[]AsManyAsLoggers`: as many clients in the critical section as loggers were started |
| | `LinesInOrder` | `[]InOrder`: one logger prints every line whole, once and in order, whichever clients are killed |

Every module follows the same line: an inductive invariant, `IInv` in most, a
lemma per part of it that each step preserves the part, and then the theorems.

**The pool.** `OneOwner` alone is not inductive: that
`Drain` hands `spoil` a frame nobody else has depends on the queue's list being
as long as its semaphore says, which depends on who is inside the lock, and on
what the encoder has claimed but not yet unlinked. `IInv` is the conjunction of

* `TypeOK`;
* `ThreadInv`: what a thread holds at each place in its call, and that it is
  alone inside `mutex` and `queueLock`;
* `EncoderInv`: the encoder has a frame only from "check" to "complete";
* `QueueBound`: `Len(list)` is the unclaimed items plus the encoder's claim;
* `OwnerInv`: `OneOwner`, frame by frame, which is easier on the provers than
  sets of owners;
* `ContextInv`: whose context is current where, and what each call will restore;
* `DrawInv`: in the pool `storage` agrees with `size` or is unset, so that
  `InitReuse` never reuses an FBO of another size;
* `ScanInv`: the index found stays complete while the mutex is held, since
  only the holder of the mutex makes a buffer incomplete.

**Counting.** `PoolSize` adds the invariant `ScanFinds`: while a thread's scan has
found nothing, some buffer it has not looked at yet is complete, unless
`NFRAMES <= Cardinality(Lost) + Cardinality(AppThreads) + 1` (`TooFew`). It holds
when the scan begins: a buffer that is not complete belongs to one of the *other*
threads (one each), to the queue, a spoiling thread or the encoder (two at most,
by `QueueBound`: `TwoQueued`), or it is lost; `Counting` adds these up. It goes on holding
because only the holder of the mutex makes a buffer incomplete, and because
`TooFew`, once true, stays true: lost buffers never come back (`LostForGood`).

**The refinement of `FrameLifecycle`.** `Status(f)` looks for a buffer in one place
after the other. By `OwnerInv` it is in one place at most, so that `StatusIsWhere`
can replace it with `Where(f)`, which looks at single threads and items and is
easier to follow through a step. `WaitingIs` says what `Waiting` is when some thread
has unlinked a frame, and when none has. Then there is a lemma for each action that
moves a buffer, with the abstract step it takes (`TakeBufferGives`, `AbandonLoses`
and so on), and `KeepStep` for all the others, which stutter.

**NvIFR.** `HandleInv` of `HwEncoderProofs` relates the members to what NvIFR has:
`m_hTransferObject` is the only object that can be live, and it is live at every
place of `Held`, that is until the catch block or the creation of a new one.
`ObjectInv` says that a live object has the size of `dims` and that its queue is
empty but between transfer and lock; that is why the segment that is locked is the
frame that was just transferred. `UsesNvIFR` needs of them that a handle is live
wherever it is used, data locked at "release" only, a session closed before it is
created, and a context current from `MakeCurrent` to `Respond`. At "catch" a dead
handle is of an object of another size than `dims`, which is the exception
`DestroysAgain`. `OutputInv` adds that both outputs end with the
last frame written, and `Decodable` follows step by step. In `XCaptureProofs` the
queue need not be empty, since failures of a lock are ignored, and `ObjectInv` has
`taken <= count`; the order of the file comes from `FileInOrder` itself.

**The protocol.** What the server takes for the PONG proves nothing, and messages of
several server processes are under way at once. The argument of `Segment` starts
from a PING of the current process in an encoder's pipe. Behind it there are only
messages of this process (`From`), RESTART comes before the first FRAME_REQUEST, and
RESTART is there once the server is connected (`Behind`). When the encoder has
answered (`Answered`: its PONG is on its way or has come), it either has the
segment or works on nothing and RESTART comes next (`RequestOrder`). Hence a
FRAME_RESPONSE behind that PONG names the server's segment (`ResponseOrder`).
`PastInv` says that no message is of a process that has not begun. All this is for
an encoder to which nothing was dropped, that no signal met and that was not
started again (`Clean`), as `OwnSegment` says. `FirstInv` is about the only encoder of
the first server, which is connected when the server sends RESTART since the
server has had its PONG; it gives `SegmentMapped`.

`OneAhead` says 2 for every place of the server's loop, which is not inductive. How
many requests and responses are under way depends on the place: none before PING
and once its PONG has come, one after PING, one after RESTART, whose answer nobody
waits for, and two while a FRAME_REQUEST is out as well. `Credit` is that number, and
`AheadInv` bounds what is under way with it, plus one when a signal has come: a server that is interrupted sends again
without an answer, an encoder answers what it has not received. The property is
about a lone encoder: two answer each request, of which the server takes one, and
what is under way grows without a bound.

**Instances.** `Early`, `Middle` and `Late` say what exists of an instance at each place
of its construction and destruction, per window; `EncoderInv` that a thread runs
only between `StartThread` and the join. `LogInv` is behind `LogKept`: a file other
than that of `debug` is open only after a race, and a window is in `OpenLog` with a log
already there only if another one was there with it (`Past` follows the history
through a step). `debug` goes back to `Null` only where `fopen` fails, so that without
such a failure every window past `OpenLog` finds a log. `DestroyInv` says that an instance
whose destruction has begun has its two sockets open for ever, so that it stays
in "stop" or "close": this is `DestroyNeverReturns`, the general form of the run
`Terminate`.

**ZeroMQ's objects.** `Owns` is `HandlesOwned` socket by socket, for any two functions
that say who holds and what is open. One lemma each for opening, closing and
swapping is then about `Owns` alone. `Counted` needs that
one message less or more changes `Cardinality` by one (`CountExcept`).

**The mutex of the spooler.** `Cardinality(Inside) + mutex + Owed <= starts`, where
`Owed` is the post a logger that has just been started is going to make. A client
that is killed inside takes its unit with it, hence `<=`.

**The ring of the spooler.** The invariant speaks of a sequence that no variable
has: `RingInv` says that there is a sequence `w` of all lines that were written, in
the order of the critical section, such that `log` is its beginning and `mybuf` the
next of it (`Story`), the n-th line of a client in it has the number n (`Numbered`),
and the rest of it is in the ring from the logger's index on (`Stored`). That a client
never writes over a line that is still to be read, and that the logger never reads
one that is half written, is counted: the buffers that are available, held, full and
being released are at most `MAX_BUFFERS` (`Credits`), and the posts to the logger at
most the lines in the ring (`Signals`). `AtHead` gives the place where the next line
goes, through each step of `buffer_index++` and its wrap. All this is for the first
logger: a second one gives the mutex twice.

**The walk.** `WalkInv` has three parts. `Listed`: what is in the list matches, and a
window goes only after those below it. `Stacked`: list and stack are ascending, every
window of the stack comes after the list, and is below a window that comes before
the whole stack; hence the children of the first one of the stack fit between the
list and the rest (`Pushed`). `Visited`: there is a set of windows, those that were
visited, such that a window below one of them is among them or on the stack. When the
stack is empty, each window that is still there was visited: otherwise take the
first that was not, and its parent was, so that it would have been. This is the
only place where a proof needs induction, as the least element of a set of numbers
(`Least`).

**Only model-checked**: liveness (`SentFrameReturned`, `CallReturns`, `SyncWakes`,
`DestructorJoins`, `ServedInTheEnd`, `AllPrinted`, `InitReturns`), which is out of the
prover's reach, and the two counterexamples of section 5. Every invariant and every
refinement that a run checks has a theorem. The prover cannot use the induction
theorems of the library for a predicate of ours; where numbers are concerned,
well-foundedness of `<` on `Nat` does instead. `RECURSIVE` operators are not used: what
the code does by recursion over a tree is a stack in the model, as in the machine.

## 5. Disagreements between the code and what is said of it

Two runs end in a counterexample by design; `PROJECT.json` ("findings") quotes
the lines.

* `Terminate` — the comment on `context_t::close` (zmq.hpp:747) says that it
  terminates the context. `~VglMightyIPC` deletes neither of the two sockets its
  constructor made with `new` (shared_mem_comm.cpp:103 and 107, "TODO
  unique_ptr.."), and the context's destructor waits for them: `RRTransDestroy`
  never returns, after it has joined the encoder thread. `DestroyNeverReturns`
  proves it. The same happens to a `RRTransInit` that fails with a socket open.
* `DestroyTwice` — when a resize destroys the transfer object and the new one cannot
  be created, the catch block destroys the old handle again
  (testplugin.cpp:418 and 497, against NvIFROpenGL.h:1033). It depends on
  NvIFR leaving the handle alone when it fails, which its header does not say.
  `UsesNvIFR` names this call as its exception.

More that came up on the way and has no run of its own; what can go wrong at run
time is among the hazards:

* The plugin answers RESTART although the server does not wait for that answer, and
  is one answer ahead from then on: the server reads the frame before the one it
  asked for. `OneAhead` shows that it gets no worse.
* `width` and `height` of FRAME_RESPONSE are the size of the last RESTART, which
  mini_mighty leaves 0, and not the frame's.
* A logger that is started again posts the mutex once more: `AsManyAsLoggers`.
* The early `return` at testplugin.cpp:388 skips the clean-up: session and transfer
  object stay. `NothingLeaks` says that it is no more than what the members name, and
  that no data is locked.
* A call of `synchronize` after the encoder has died never returns; `SyncWakes` is
  about calls made before.
* An encoder that gets FRAME_REQUEST before any RESTART writes through a null
  pointer; `NullOnlyAfterRestart` says when that can happen.
* NvIFR's entry points are called although `initialize` failed (testplugin.cpp:446).
* A window that is destroyed closes the log of all others: `LogLost`.
* Two windows that are made at once may both open the log (testplugin.cpp:633). One
  file is then forgotten and stays open; and when the second `fopen` fails, it takes
  away the log that the first has opened, which the catch block of the first then
  prints to (testplugin.cpp:645). `LogLost` says how far this goes.
* Above 5,965,232 pixels the bit rate is not the one meant: `RateFits`.
* With no window of the right name encoder.cpp:37 reads the first element of an
  empty vector.
* Two windows' encoders both answer each request, and write to one segment.

## 6. What is not modelled

* `setupNVIFRSYS` and `captureSys`, which are never called; NvIFR's transfers to
  system memory and between processes, which are never used.
* vgl_tester.cpp, a driver for tests by hand: it answers each FRAME_REQUEST with an
  empty response and has no state and no segment.
* The bytes in the shared segment: nobody in the repository reads them
  (mini_mighty prints the size). Torn reads are therefore listed and not
  modelled. Segments that killed servers leave behind are not counted.
* Of zmq.hpp: options, polling, the events of a monitor, and formatting. The
  declarations of zmq.h and of NvIFR_API.h have no behaviour of their own.
* Backtraces, timers, and what is printed; of the log only who opens, closes and
  uses it.
* Contexts that the application itself makes current between calls, and
  the render mode check, which cannot fail in the plugin's own contexts.
* `THROW` after `queue.get()` (testplugin.cpp:389) is in `EncThrow`, but no state
  enables it: a queue hands out nothing only after its release, when `shutdown`
  has been set, and then line 388 returns.
* `~XCapture`, which never runs, and `GetVisibleWindow`, which is never called.
* Two encoders in `MightyIPC` have no run: the model has them, and the theorems hold
  for them (but for `AheadByOne` and `SegmentMapped`, which are about one), but the code gives no rule for which window a response belongs to.

## 7. Plan

Done: `GPUEncTrans` with `FrameLifecycle`, `MightyIPC`, `HwEncoder` with `NvIFR`,
`PluginInstances`, `XCapture`, `ZmqBinding` and `SpoolLogger`, their runs, and a
module of proofs for each.

All invariants and refinements that runs check are proved. Next:

1. What remains true of the spooler after a logger has been started again: how
   many lines a second client in the critical section can spoil.
2. `OneAhead` for later servers: what the encoder can be behind by after a restart
   depends on what was lost with the server before.
3. A run of `MightyIPC` with two encoders, when there is a rule for responses to
   check it against.
4. The events of `monitor_t`, if the plugin comes to use them.

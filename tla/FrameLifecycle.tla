--------------------------- MODULE FrameLifecycle ---------------------------
(***************************************************************************)
(* What the frame pool of the transport promises, whatever the threads do: *)
(* a frame is either free, drawn into by an application, waiting, being    *)
(* encoded, or lost after a failure.  Frames are encoded or dropped in the *)
(* order they were sent in, one at a time, a frame is only dropped for the *)
(* sake of a newer one, and no more than one waits behind the one that is  *)
(* being taken or encoded.                                                 *)
(***************************************************************************)
EXTENDS Naturals, Sequences

CONSTANT Frames

VARIABLES
  status,   \* status[f] for every frame
  waiting   \* the frames sent and neither encoded nor dropped, oldest first

lvars == <<status, waiting>>

Status == {"free", "drawn", "waiting", "encoded", "lost"}

LInit ==
  /\ status = [f \in Frames |-> "free"]
  /\ waiting = <<>>

Become(f, from, to) == status[f] = from /\ status' = [status EXCEPT ![f] = to]

With(s) == {f \in Frames : status[f] = s}

(* getFrame returns f *)
Give(f) == Become(f, "free", "drawn") /\ UNCHANGED waiting

(* sendFrame of f: what was waiting has been dropped, except that one older *)
(* frame may be on its way to the encoder, or be in it.                     *)
Send(f) ==
  /\ Become(f, "drawn", "waiting")
  /\ Len(waiting) + (IF With("encoded") = {} THEN 0 ELSE 1) < 2
  /\ waiting' = Append(waiting, f)

Oldest(f) ==
  /\ waiting # <<>> /\ f = Head(waiting)
  /\ waiting' = Tail(waiting)

(* spoil of f, by a thread that has a newer frame to send *)
Spoil(f) ==
  /\ With("drawn") # {}
  /\ Oldest(f)
  /\ Become(f, "waiting", "free")

Encode(f) ==
  /\ With("encoded") = {}
  /\ Oldest(f)
  /\ Become(f, "waiting", "encoded")

Return(f) == Become(f, "encoded", "free") /\ UNCHANGED waiting

Lose(f) ==
  /\ Become(f, "drawn", "lost") \/ Become(f, "encoded", "lost")
  /\ UNCHANGED waiting

LNext ==
  \E f \in Frames :
    Give(f) \/ Send(f) \/ Spoil(f) \/ Encode(f) \/ Return(f) \/ Lose(f)

Spec == LInit /\ [][LNext]_lvars

=============================================================================

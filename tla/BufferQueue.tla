----------------------------- MODULE BufferQueue -----------------------------
(***************************************************************************)
(* What an OpenSL ES buffer queue promises its client: buffers go to the   *)
(* host one at a time in the order they were enqueued, each of them ends   *)
(* once, reported or not, and a buffer that nobody cleared or paused is    *)
(* reported.  AudioStream implements it.                                   *)
(***************************************************************************)
EXTENDS Naturals, Sequences

CONSTANTS
    Buffers,    \* what a client enqueues
    Capacity,   \* slots of the queue
    NoBuffer    \* nothing at the host

VARIABLES
    open,       \* the stream exists and nobody destroys it
    active,     \* it is playing or recording
    waiting,    \* enqueued, in order
    slot,       \* the buffer that is at the host
    cut,        \* slot's stream was paused or stopped meanwhile
    index       \* parity of the buffers reported since the last Clear

qvars == <<open, active, waiting, slot, cut, index>>

Init ==
    /\ open = FALSE /\ active = FALSE
    /\ waiting = <<>> /\ slot = NoBuffer /\ cut = FALSE
    /\ index = 0

Open ==
    /\ ~open /\ slot = NoBuffer /\ waiting = <<>>
    /\ open' = TRUE /\ active' = FALSE /\ index' = 0
    /\ UNCHANGED <<waiting, slot, cut>>

Enqueue(b) ==
    /\ open /\ Len(waiting) < Capacity
    /\ waiting' = Append(waiting, b)
    /\ UNCHANGED <<open, active, slot, cut, index>>

SetActive(a) ==
    /\ active' = a
    /\ cut' = (slot # NoBuffer /\ (cut \/ ~a))
    /\ UNCHANGED <<open, waiting, slot, index>>

Take ==
    /\ open /\ active /\ slot = NoBuffer /\ waiting # <<>>
    /\ slot' = Head(waiting) /\ waiting' = Tail(waiting)
    /\ UNCHANGED <<open, active, cut, index>>

(* The host failed: the buffer is the first one to be tried again.         *)
GiveBack ==
    /\ slot # NoBuffer
    /\ waiting' = <<slot>> \o waiting
    /\ slot' = NoBuffer /\ cut' = FALSE
    /\ UNCHANGED <<open, active, index>>

Finish(how) ==
    /\ slot # NoBuffer
    /\ how = "done" => open /\ active
    /\ how = "dropped" => cut
    /\ index' = IF how = "done" THEN 1 - index ELSE index
    /\ slot' = NoBuffer /\ cut' = FALSE
    /\ UNCHANGED <<open, active, waiting>>

(* Clear, and with open' = FALSE Destroy: what is queued or at the host    *)
(* will not be reported.                                                   *)
Clear ==
    /\ waiting' = <<>> /\ slot' = NoBuffer /\ cut' = FALSE
    /\ \/ index' = 0 /\ UNCHANGED open
       \/ open' = FALSE /\ UNCHANGED index
    /\ UNCHANGED active

Next ==
    \/ Open
    \/ \E b \in Buffers : Enqueue(b)
    \/ \E a \in BOOLEAN : SetActive(a)
    \/ Take
    \/ GiveBack
    \/ \E how \in {"done", "dropped"} : Finish(how)
    \/ Clear

Spec == Init /\ [][Next]_qvars

==============================================================================

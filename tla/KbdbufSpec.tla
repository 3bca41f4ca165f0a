----------------------------- MODULE KbdbufSpec -----------------------------
(***************************************************************************)
(* What feeding text to the emulated machine promises: the characters      *)
(* reach the KERNAL's keyboard buffer in the order they were fed, each     *)
(* once, and never more at a time than the buffer holds.                   *)
(***************************************************************************)
EXTENDS Naturals, Sequences

CONSTANTS Text, BufferSize

VARIABLES
  pending,   \* characters fed that have not been delivered
  buffer     \* the KERNAL's buffer

Init == pending = <<>> /\ buffer = <<>>

\* The first k of the characters in all are delivered, the rest waits.
Deliver(all, k) ==
  /\ pending' = SubSeq(all, k + 1, Len(all))
  /\ buffer' = buffer \o SubSeq(all, 1, k)
  /\ k > 0 => Len(buffer') <= BufferSize

Flush == \E k \in 1 .. Len(pending) : Deliver(pending, k)

Feed == \E text \in Text : LET all == pending \o text
                           IN  \E k \in 0 .. Len(all) : Deliver(all, k)

Abort == pending' = <<>> /\ UNCHANGED buffer

\* The KERNAL reads a key, or initializes its buffer.
Read == buffer # <<>> /\ buffer' \in {Tail(buffer), <<>>} /\ UNCHANGED pending

\* A key is typed on the emulated keyboard.
Type ==
  /\ Len(buffer) < BufferSize
  /\ \E key \in {"key"} : buffer' = Append(buffer, key)
  /\ UNCHANGED pending

Next == Flush \/ Feed \/ Abort \/ Read \/ Type

Spec == Init /\ [][Next]_<<pending, buffer>>
=============================================================================

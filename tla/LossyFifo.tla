------------------------------ MODULE LossyFifo ------------------------------
(***************************************************************************)
(* What one observer may rely on from the gateway's event queue: a lossy   *)
(* FIFO channel.  Events are numbered in the order in which they are sent. *)
(* A sent event may be refused or displaced, but an event that does arrive *)
(* arrives once, in the order of sending, and nothing else arrives.        *)
(***************************************************************************)
EXTENDS Integers, Sequences

VARIABLES
  sent,   \* how many events have been sent so far
  chan,   \* the events on their way to the observer
  out     \* what the observer has been given

vars == <<sent, chan, out>>

Init == sent = 0 /\ chan = <<>> /\ out = <<>>

Send ==
  /\ sent' = sent + 1
  /\ chan' = Append(chan, sent + 1)
  /\ UNCHANGED out

(* The new event is refused.                                               *)
Refuse == sent' = sent + 1 /\ UNCHANGED <<chan, out>>

(* The new event takes the place of one that is still on its way.          *)
Displace ==
  /\ \E i \in 1 .. Len(chan) :
       chan' = SubSeq(chan, 1, i - 1) \o SubSeq(chan, i + 1, Len(chan)) \o <<sent + 1>>
  /\ sent' = sent + 1
  /\ UNCHANGED out

Deliver ==
  /\ \E n \in 1 .. Len(chan) :
       /\ out' = out \o SubSeq(chan, 1, n)
       /\ chan' = SubSeq(chan, n + 1, Len(chan))
  /\ UNCHANGED sent

Next == Send \/ Refuse \/ Displace \/ Deliver

Spec == Init /\ [][Next]_vars
=============================================================================

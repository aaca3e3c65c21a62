----------------------------- MODULE RequestLink -----------------------------
(***************************************************************************)
(* What the controller and the switch expect of the sending of requests:   *)
(* the requests are on the wire in the order in which they were sent, each *)
(* of them once.                                                           *)
(***************************************************************************)
EXTENDS Naturals, Sequences

CONSTANT Requests

VARIABLES waiting,   \* requests sent, not yet on the wire
          wire       \* requests on the wire

Init == waiting = <<>> /\ wire = <<>>

Send(r) == waiting' = Append(waiting, r) /\ UNCHANGED wire

Transmit ==
  /\ waiting # <<>>
  /\ wire' = Append(wire, Head(waiting))
  /\ waiting' = Tail(waiting)

Next == (\E r \in Requests : Send(r)) \/ Transmit

Spec == Init /\ [][Next]_<<waiting, wire>>
=============================================================================

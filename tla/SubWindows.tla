----------------------------- MODULE SubWindows -----------------------------
(***************************************************************************)
(* What collecting and resetting promises: the packets of each key are     *)
(* counted, one instant closes the sub-window for all keys at once, and    *)
(* what was counted before that instant is added to the result once.  No   *)
(* packet is lost between two sub-windows and none is counted in both,     *)
(* while packets keep arriving.                                            *)
(***************************************************************************)
EXTENDS Naturals

CONSTANT Keys

VARIABLES current,  \* packets of each key in the open sub-window
          closed,   \* counts of the closed sub-window, until they are merged
          merged    \* counts merged so far

abstractVars == <<current, closed, merged>>

NoCounts == [k \in Keys |-> 0]

Init == current = NoCounts /\ closed = NoCounts /\ merged = NoCounts

Count(k) ==
  /\ current' = [current EXCEPT ![k] = @ + 1]
  /\ UNCHANGED <<closed, merged>>

Close ==
  /\ closed = NoCounts
  /\ closed' = current
  /\ current' = NoCounts
  /\ UNCHANGED merged

AddClosed ==
  /\ merged' = [k \in Keys |-> merged[k] + closed[k]]
  /\ closed' = NoCounts
  /\ UNCHANGED current

Next == (\E k \in Keys : Count(k)) \/ Close \/ AddClosed

Safety == Init /\ [][Next]_abstractVars

Spec == Safety /\ WF_abstractVars(AddClosed)
=============================================================================

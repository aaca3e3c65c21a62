---------------------------- MODULE SlidingWindow ----------------------------
(***************************************************************************)
(* What a controller of a sliding-window query promises: with every        *)
(* sub-window that closes, it reports the keys whose packets in the last   *)
(* NEpoch sub-windows, this one included, reach the threshold.             *)
(***************************************************************************)
EXTENDS Sums

CONSTANTS Keys,      \* the keys of the query
          NEpoch,    \* sub-windows of a window
          Threshold

VARIABLES current,  \* counts of the sub-window that is being collected
          past,     \* past[i]: counts of the i-th last sub-window before it
          abnormal  \* the keys of the last report

windowVars == <<current, past, abnormal>>

NoCounts == [k \in Keys |-> 0]
Remembered == 1 .. NEpoch - 1

Init ==
  /\ current = NoCounts
  /\ past = [i \in Remembered |-> NoCounts]
  /\ abnormal = {}

InWindow(k) == current[k] + Total([i \in Remembered |-> past[i][k]])

Close ==
  /\ current = NoCounts
  /\ current' \in [Keys -> Nat]
  /\ UNCHANGED <<past, abnormal>>

Slide ==
  /\ abnormal' = {k \in Keys : InWindow(k) >= Threshold}
  /\ past' = [i \in Remembered |-> IF i = 1 THEN current ELSE past[i - 1]]
  /\ current' = NoCounts

Next == Close \/ Slide

Spec == Init /\ [][Next]_windowVars
=============================================================================

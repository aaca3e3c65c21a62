---------------------------- MODULE SynFloodHost ----------------------------
(***************************************************************************)
(* The controller program of the query syn-flood. A value has three 16-bit *)
(* lanes: SYN, SYN-ACK and ACK packets of a host.                          *)
(***************************************************************************)
EXTENDS QueryState

(* A value, and the values that are tried.                                 *)
Val == <<0, 0, 0>>
Samples == {<<1, 1, 0>>, <<0, 0, 1>>}

(* add_epi16 and sub_epi16.                                                *)
AddEpi16(x, y) == [i \in 1 .. 3 |-> (x[i] + y[i]) % Width16]
SubEpi16(x, y) == [i \in 1 .. 3 |-> (x[i] - y[i]) % Width16]

(* The difference is an int and threshold a uint32_t, so the comparison is *)
(* one of unsigned numbers, and a negative difference is a large one.      *)
Diff(v) == v[1] + v[2] - v[3]
Compared(v) == Diff(v) % Width32 >= Threshold

(* The query as its simulation has it, in signed numbers, and with the     *)
(* negative differences that only the controller reports.                  *)
Flooded(v) == Diff(v) >= Threshold
FloodedOrNegative(v) == Flooded(v) \/ Diff(v) < 0

(* Of a key that is deleted.                                               *)
Vanished(v) == v = Val

Host == INSTANCE QueryHost WITH
  Zero <- Val, Sample <- Samples, Add <- AddEpi16, Sub <- SubEpi16, Abnormal <- Compared,
  Suspect <- FloodedOrNegative, Vanished <- Vanished,
  ValidOnly <- TRUE, RespectsPin <- FALSE, HotKeys <- {}

(* fscanf matches one item of "%x%*u" where two are asked for: no key of   *)
(* the input file is inserted.                                             *)
InsKeys == Host!InsertInput

Server == Host!Construct
Init == Server /\ InsKeys

SwitchWin == Host!SwitchWin
RecvKeys == Host!RecvKeys
SendRequests == Host!SendRequests
Answered == Host!AnswerQuery

(* nextMsg waits for the completion of DONE.                               *)
NextMsg == Host!DoneSent
RecvKeyVals == NextMsg /\ Host!RecvKeyVals
MergeSliding == Host!MergeSliding
MergeTumbling == Host!MergeTumbling
RecvDone == Host!RecvDone

Next ==
  \/ SwitchWin
  \/ RecvKeys
  \/ SendRequests
  \/ Answered
  \/ RecvKeyVals
  \/ MergeSliding
  \/ MergeTumbling
  \/ RecvDone
=============================================================================

------------------------- MODULE CompletedFlowHost --------------------------
(***************************************************************************)
(* The controller program of the query completed-flow. A value has two     *)
(* 16-bit lanes: SYN and FIN packets of a host.                            *)
(***************************************************************************)
EXTENDS QueryState

(* A value, and the values that are tried.                                 *)
Val == <<0, 0>>
Samples == {<<2, 1>>, <<0, 1>>}

(* add_epi16 and sub_epi16.                                                *)
AddEpi16(x, y) == [i \in 1 .. 2 |-> (x[i] + y[i]) % Width16]
SubEpi16(x, y) == [i \in 1 .. 2 |-> (x[i] - y[i]) % Width16]

(* sub_epi32 of the two lanes and cmpge_epu32, which is unsigned: a        *)
(* negative difference is a large number.                                  *)
Diff(v) == v[1] - v[2]
Compared(v) == Diff(v) % Width32 >= Threshold

(* The query as its simulation has it, in signed numbers, and with the     *)
(* negative differences that only the controller reports.                  *)
Unfinished(v) == Diff(v) >= Threshold
UnfinishedOrNegative(v) == Unfinished(v) \/ Diff(v) < 0

(* Of a key that is deleted.                                               *)
Vanished(v) == v = Val

Host == INSTANCE QueryHost WITH
  Zero <- Val, Sample <- Samples, Add <- AddEpi16, Sub <- SubEpi16, Abnormal <- Compared,
  Suspect <- UnfinishedOrNegative, Vanished <- Vanished,
  ValidOnly <- FALSE, RespectsPin <- TRUE, HotKeys <- {}

(* fscanf matches one item of "%x%*u" where two are asked for: no key of   *)
(* the input file is inserted.                                             *)
InsKeys == Host!InsertInput

Server == Host!Construct
Init == Server /\ InsKeys

SwitchWin == Host!SwitchWin
RecvKeys == Host!RecvKeys
SendRequests == Host!SendRequests
Answered == Host!AnswerQuery

(* nextMsg waits for the completion of DONE.                               *)
NextMsg == Host!DoneSent
RecvKeyVals == NextMsg /\ Host!RecvKeyVals
MergeSliding == Host!MergeSliding
MergeTumbling == Host!MergeTumbling
RecvDone == Host!RecvDone

Next ==
  \/ SwitchWin
  \/ RecvKeys
  \/ SendRequests
  \/ Answered
  \/ RecvKeyVals
  \/ MergeSliding
  \/ MergeTumbling
  \/ RecvDone
=============================================================================

------------------------------ MODULE DdosHost ------------------------------
(***************************************************************************)
(* The controller program of the query ddos. A value is the number of      *)
(* distinct hosts that send to a host.                                     *)
(***************************************************************************)
EXTENDS QueryState

(* A value, and the values that are tried.                                 *)
Val == <<0>>
Samples == {<<1>>, <<2>>}

(* add_epi32 and sub_epi32.                                                *)
AddEpi32(x, y) == <<(x[1] + y[1]) % Width32>>
SubEpi32(x, y) == <<(x[1] - y[1]) % Width32>>

(* cmpge_epu32.                                                            *)
Compared(v) == v[1] >= Threshold

(* The query.                                                              *)
Attacked(v) == v[1] >= Threshold

(* Of a key that is deleted.                                               *)
Vanished(v) == v = Val

Host == INSTANCE QueryHost WITH
  Zero <- Val, Sample <- Samples, Add <- AddEpi32, Sub <- SubEpi32, Abnormal <- Compared,
  Suspect <- Attacked, Vanished <- Vanished,
  ValidOnly <- FALSE, RespectsPin <- TRUE, HotKeys <- InputKeys

(* Each key of the input file is inserted and pinned, and its address in   *)
(* the first row is sent to the switch.                                    *)
InsKeys == Host!InsertInput

Server == Host!Construct
Init == Server /\ InsKeys

SwitchWin == Host!SwitchWin
RecvKeys == Host!RecvKeys
SendRequests == Host!SendRequests
Answered == Host!AnswerQuery

(* The switch has the addresses of the input keys.                         *)
WriteHotKey == Host!WriteHotKey

(* nextMsg waits for the completion of DONE.                               *)
NextMsg == Host!DoneSent
RecvKeyVals == NextMsg /\ Host!RecvKeyVals
MergeSliding == Host!MergeSliding
MergeTumbling == Host!MergeTumbling
RecvDone == Host!RecvDone

Next ==
  \/ SwitchWin
  \/ RecvKeys
  \/ SendRequests
  \/ Answered
  \/ WriteHotKey
  \/ RecvKeyVals
  \/ MergeSliding
  \/ MergeTumbling
  \/ RecvDone
=============================================================================

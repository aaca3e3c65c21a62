---------------------------- MODULE SshBruteHost ----------------------------
(***************************************************************************)
(* The controller program of the query ssh-brute. A key is a host and a    *)
(* packet size, which takes two 64-bit loads where other queries need one  *)
(* 32-bit load; a value is the number of distinct hosts that send such     *)
(* packets to the host.                                                    *)
(***************************************************************************)
EXTENDS QueryState

(* A value, and the values that are tried.                                 *)
Val == <<0>>
Samples == {<<1>>, <<2>>}

(* add_epi32 and sub_epi32.                                                *)
AddEpi32(x, y) == <<(x[1] + y[1]) % Width32>>
SubEpi32(x, y) == <<(x[1] - y[1]) % Width32>>

(* cmpge_epu32; each half of the mask then selects among eight keys.       *)
Compared(v) == v[1] >= Threshold

(* The query.                                                              *)
Forced(v) == v[1] >= Threshold

(* Of a key that is deleted.                                               *)
Vanished(v) == v = Val

Host == INSTANCE QueryHost WITH
  Zero <- Val, Sample <- Samples, Add <- AddEpi32, Sub <- SubEpi32, Abnormal <- Compared,
  Suspect <- Forced, Vanished <- Vanished,
  ValidOnly <- FALSE, RespectsPin <- TRUE, HotKeys <- {}

(* The input keys are not inserted (the loop that reads them is a comment), *)
(* and the number 0 is sent to the switch.                                 *)
InsKeys == Host!InsertInput

Server == Host!Construct
Init == Server /\ InsKeys

SwitchWin == Host!SwitchWin
RecvKeys == Host!RecvKeys
SendRequests == Host!SendRequests
Answered == Host!AnswerQuery

(* nextMsg waits for the completion of DONE.                               *)
NextMsg == Host!DoneSent
RecvKeyVals == NextMsg /\ Host!RecvKeyVals
MergeSliding == Host!MergeSliding
MergeTumbling == Host!MergeTumbling
RecvDone == Host!RecvDone

Next ==
  \/ SwitchWin
  \/ RecvKeys
  \/ SendRequests
  \/ Answered
  \/ RecvKeyVals
  \/ MergeSliding
  \/ MergeTumbling
  \/ RecvDone
=============================================================================

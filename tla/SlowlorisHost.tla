--------------------------- MODULE SlowlorisHost ----------------------------
(***************************************************************************)
(* The controller program of the query slowloris-attack. A value is a      *)
(* number of bytes v2 and a number of connections v1, which 32-bit         *)
(* additions keep in lanes of 32 bits.                                     *)
(***************************************************************************)
EXTENDS QueryState

(* A value, and the values that are tried.                                 *)
Val == <<0, 0>>
Samples == {<<2, 1>>, <<2, 0>>, <<1, 1>>}

(* add_epi32 and sub_epi32; the second lane is v1 with its padding.        *)
AddEpi32(x, y) == [i \in 1 .. 2 |-> (x[i] + y[i]) % Width32]
SubEpi32(x, y) == [i \in 1 .. 2 |-> (x[i] - y[i]) % Width32]

(* threshold2, as a fraction.                                              *)
Ratio == <<1, 2>>

(* threshold1 bytes, and threshold2 connections a byte; v1 is read as 16   *)
(* bits.                                                                   *)
Compared(v) == v[1] >= Threshold /\ (v[2] % Width16) * Ratio[2] >= Ratio[1] * v[1]

(* The query.                                                              *)
Slow(v) == v[1] >= Threshold /\ v[2] * Ratio[2] >= Ratio[1] * v[1]

(* Of a key that is deleted; v1 is read as 16 bits.                        *)
Vanished(v) == v[1] = 0 /\ v[2] % Width16 = 0

Host == INSTANCE QueryHost WITH
  Zero <- Val, Sample <- Samples, Add <- AddEpi32, Sub <- SubEpi32, Abnormal <- Compared,
  Suspect <- Slow, Vanished <- Vanished,
  ValidOnly <- TRUE, RespectsPin <- FALSE, HotKeys <- {}

(* fscanf matches one item of "%x%*u" where two are asked for: no key of   *)
(* the input file is inserted.                                             *)
InsKeys == Host!InsertInput

Server == Host!Construct
Init == Server /\ InsKeys

SwitchWin == Host!SwitchWin
RecvKeys == Host!RecvKeys
SendRequests == Host!SendRequests
Answered == Host!AnswerQuery

(* nextMsg waits for the completion of DONE.                               *)
NextMsg == Host!DoneSent
RecvKeyVals == NextMsg /\ Host!RecvKeyVals
MergeSliding == Host!MergeSliding
MergeTumbling == Host!MergeTumbling
RecvDone == Host!RecvDone

Next ==
  \/ SwitchWin
  \/ RecvKeys
  \/ SendRequests
  \/ Answered
  \/ RecvKeyVals
  \/ MergeSliding
  \/ MergeTumbling
  \/ RecvDone
=============================================================================

----------------------------- MODULE Controller -----------------------------
(***************************************************************************)
(* The controller program of a tumbling-window query: Server::switchWin    *)
(* and the ring reader under it.  switchWin is sequential; its phases are  *)
(* the values of pc, and each message it consumes is one action.           *)
(*                                                                         *)
(* A key's position in keys[], epochData[] and mergedData[] is given by    *)
(* the hash table once and for all (a tumbling controller never deletes a  *)
(* key), so the arrays are indexed by the key itself and inserted is the   *)
(* set of the keys with a position.                                        *)
(*                                                                         *)
(* README.md builds the controller with CMAKE_BUILD_TYPE=Release, which    *)
(* compiles assert() away: recvKeys takes every message but DONE for a     *)
(* KEY, recvKeyVals for a KEYVAL, and recvDone takes any message.          *)
(***************************************************************************)
EXTENDS Wire

CONSTANTS InputKeys,  \* keys of the input file, inserted before the first window
          NReq,       \* nReq: collect packets, and reset packets, per switch
          NEpoch,     \* nEpoch: sub-windows of a window
          Threshold   \* threshold of an abnormal key

ASSUME ControllerAssumption ==
  /\ InputKeys \subseteq Keys
  /\ NReq \in Nat \ {0}
  /\ NEpoch \in Nat \ {0}
  /\ Threshold \in Nat

VARIABLES pc,            \* the phase of switchWin, "idle" between calls
          msgHead,       \* msgHead, in slots
          msgTail,       \* msgTail, in slots
          overflowKeys,  \* overflowKeys: the keys to query
          inserted,      \* keys[0 .. nKeys - 1]
          mergedData,    \* mergedData
          abnormalKeys,  \* abnormalKeys of the last comparison
          curEpoch       \* curEpoch

controllerVars ==
  <<pc, msgHead, msgTail, overflowKeys, inserted, mergedData, abnormalKeys, curEpoch>>

Phases == {"idle", "recvKeys", "waitVals", "recvVals", "merge", "recvDone", "exit"}

ControllerTypeOK ==
  /\ pc \in Phases
  /\ msgHead \in Slot
  /\ msgTail \in Slot
  /\ overflowKeys \in Seq(Keys)
  /\ inserted \subseteq Keys
  /\ mergedData \in [Keys -> Nat]
  /\ abnormalKeys \subseteq Keys
  /\ curEpoch \in 0 .. NEpoch - 1

ControllerInit ==
  /\ pc = "idle"
  /\ msgHead = 0 /\ msgTail = 0
  /\ overflowKeys = <<>>
  /\ inserted = InputKeys
  /\ mergedData = [k \in Keys |-> 0]
  /\ abnormalKeys = {}
  /\ curEpoch = 0

NextSlot(s) == (s + 1) % MSGS

Goto(from, to) == pc = from /\ pc' = to

-----------------------------------------------------------------------------
(* waitNewMsg: a completion says how far the ring has been written.        *)
WaitNewMsg ==
  /\ cq # <<>>
  /\ msgTail' = NextSlot(Head(cq))
  /\ cq' = Tail(cq)

(* nextMsg: wait if the ring has been read to its tail, then read msgBuf   *)
(* at the head.                                                            *)
Unread == msgHead # msgTail
HasMsg == Unread \/ cq # <<>>
FirstMsg == msgBuf[msgHead]
NextMsg ==
  /\ IF Unread THEN UNCHANGED <<cq, msgTail>> ELSE WaitNewMsg
  /\ msgHead' = NextSlot(msgHead)

(* switchWin begins: forget the last overflow and flush the key reports.   *)
SwitchWinSending(push) ==
  /\ Goto("idle", "recvKeys")
  /\ overflowKeys' = <<>>
  /\ hostQ' = Append(hostQ, push)
  /\ UNCHANGED <<msgBuf, epochData, cq, msgHead, msgTail, inserted, mergedData,
                 abnormalKeys, curEpoch>>

SwitchWin == SwitchWinSending(Req("PUSH"))

(* recvKeys: each KEY message is a key to query.                           *)
RecvKey ==
  /\ pc = "recvKeys" /\ HasMsg /\ FirstMsg.op # "DONE"
  /\ NextMsg
  /\ inserted' = inserted \cup {FirstMsg.key}
  /\ overflowKeys' = Append(overflowKeys, FirstMsg.key)
  /\ UNCHANGED <<hostQ, msgBuf, epochData, pc, mergedData, abnormalKeys, curEpoch>>

Repeat(n, op) == [i \in 1 .. n |-> Req(op)]
Queries == [i \in 1 .. Len(overflowKeys) |-> QryKey(overflowKeys[i])]

(* A variant with a fault: the queries follow the RST_START.               *)
RequestBatchLateQueries ==
  << Req("START") >> \o Repeat(NReq - 1, "COL") \o << Req("RST_START") >>
    \o Queries \o Repeat(NReq - 1, "RST")

(* The requests of one switch; the queries go before the RST_START whose   *)
(* sending flushes them.                                                   *)
RequestBatch ==
  << Req("START") >> \o Repeat(NReq - 1, "COL") \o Queries
    \o << Req("RST_START") >> \o Repeat(NReq - 1, "RST")

(* The DONE of PUSH ends recvKeys.                                         *)
SendRequestsOf(batch) ==
  /\ Goto("recvKeys", "waitVals")
  /\ HasMsg /\ FirstMsg.op = "DONE"
  /\ NextMsg
  /\ hostQ' = hostQ \o batch
  /\ UNCHANGED <<msgBuf, epochData, overflowKeys, inserted, mergedData,
                 abnormalKeys, curEpoch>>

SendRequests == SendRequestsOf(RequestBatch)

(* The first thing switchWin waits for is that a completion arrives.       *)
AwaitValues ==
  /\ Goto("waitVals", "recvVals")
  /\ WaitNewMsg
  /\ UNCHANGED <<hostQ, msgBuf, epochData, msgHead, overflowKeys, inserted,
                 mergedData, abnormalKeys, curEpoch>>

(* recvKeyVals: insert the key and store its value.                        *)
RecvKeyVal ==
  /\ pc = "recvVals" /\ HasMsg /\ FirstMsg.op # "DONE"
  /\ NextMsg
  /\ inserted' = inserted \cup {FirstMsg.key}
  /\ epochData' = [epochData EXCEPT ![FirstMsg.key] = FirstMsg.val]
  /\ UNCHANGED <<hostQ, msgBuf, pc, overflowKeys, mergedData, abnormalKeys, curEpoch>>

RecvKeyValsDone ==
  /\ Goto("recvVals", "merge")
  /\ HasMsg /\ FirstMsg.op = "DONE"
  /\ NextMsg
  /\ UNCHANGED <<hostQ, msgBuf, epochData, overflowKeys, inserted, mergedData,
                 abnormalKeys, curEpoch>>

(* Add the sub-window to the window; in the last sub-window, compare.      *)
Merge ==
  /\ Goto("merge", "recvDone")
  /\ mergedData' = [k \in Keys |-> IF k \in inserted THEN mergedData[k] + epochData[k]
                                                     ELSE mergedData[k]]
  /\ abnormalKeys' = IF curEpoch = NEpoch - 1
                     THEN {k \in inserted : mergedData'[k] >= Threshold}
                     ELSE abnormalKeys
  /\ UNCHANGED <<wireVars, msgHead, msgTail, overflowKeys, inserted, curEpoch>>

(* A variant with a fault: the slots of input keys only.                   *)
ClearedInputSlots == [k \in Keys |-> IF k \in InputKeys THEN 0 ELSE epochData[k]]

(* memset of the slots in use.                                             *)
ClearedSlots == [k \in Keys |-> IF k \in inserted THEN 0 ELSE epochData[k]]

(* recvDone: the reset is over; clear the slots for the next sub-window.   *)
RecvDone ==
  /\ Goto("recvDone", "idle")
  /\ NextMsg
  /\ epochData' = ClearedSlots
  /\ curEpoch' = (curEpoch + 1) % NEpoch
  /\ UNCHANGED <<hostQ, msgBuf, overflowKeys, inserted, mergedData, abnormalKeys>>

(* End of input: main leaves its loop.                                     *)
Exit ==
  /\ Goto("idle", "exit")
  /\ UNCHANGED <<wireVars, msgHead, msgTail, overflowKeys, inserted, mergedData,
                 abnormalKeys, curEpoch>>
=============================================================================

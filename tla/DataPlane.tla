------------------------------ MODULE DataPlane ------------------------------
(***************************************************************************)
(* The egress pipeline of the switch program of a query with one counter   *)
(* per key: two copies of the sketch (selected by the parity of the        *)
(* epoch), the buffer of new keys, and the collect-and-reset packets that  *)
(* circulate through egress mirroring.                                     *)
(*                                                                         *)
(* One packet's pass through the pipeline is one action: every register is *)
(* touched by one stage, and packets traverse the stages in order, so      *)
(* passes are serialisable in the order of arrival.  The field eg_op.op is *)
(* modelled by the name of the request it encodes.                         *)
(***************************************************************************)
EXTENDS Wire

CONSTANTS HotKeys,              \* keys of tab_addr, written without a message
          NDATA,                \* cells of one copy of one sketch row
          NKEYS,                \* capacity of one copy of the key buffer
          EpochMod,             \* 2^8: reg_epoch is eight bits wide
          BfX, BfY, CmX, CmY    \* the hash of a key, for each sketch row

Cell == 0 .. NDATA - 1

ASSUME DataPlaneAssumption ==
  /\ HotKeys \subseteq Keys
  /\ NDATA \in Nat \ {0, 1}
  /\ NKEYS \in Nat \ {0}
  /\ EpochMod \in Nat \ {0} /\ EpochMod % 2 = 0
  /\ BfX \in [Keys -> Cell] /\ BfY \in [Keys -> Cell]
  /\ CmX \in [Keys -> Cell] /\ CmY \in [Keys -> Cell]

VARIABLES epoch,      \* reg_epoch
          resetIdx,   \* reg_reset_idx
          bfX, bfY,   \* reg_bf_x, reg_bf_y: the filter that finds new keys
          keyIdx,     \* reg_key_idx: number of keys in each copy's buffer
          keyBuf,     \* reg_dst_ip: the key buffer
          cmX, cmY,   \* reg_cm_x, reg_cm_y: the count-min sketch
          msgAddr,    \* reg_msg_addr, in slots
          mirrorQ     \* mirrored packets on their way back to the egress

sketchVars == <<bfX, bfY, cmX, cmY>>
switchVars == <<epoch, resetIdx, bfX, bfY, keyIdx, keyBuf, cmX, cmY, msgAddr, mirrorQ>>

Copies == {0, 1}
Copy(e) == e % 2

(* NDATA: no reset; RSTIDX_MID: one of the two RST_START has come; smaller *)
(* values: the next cell to reset.                                         *)
RSTIDX_MID == NDATA * 3

Mirrored == [op : KeylessOps, key : {NoKey}] \cup [op : {"KEY"}, key : Keys]
            \cup [op : KeylessOps, key : {NoKey}, rstDistinct : BOOLEAN]
Report(k) == [op |-> "KEY", key |-> k]

DataPlaneTypeOK ==
  /\ epoch \in 0 .. EpochMod - 1
  /\ resetIdx \in 0 .. NDATA \cup {RSTIDX_MID}
  /\ bfX \in [Copies -> [Cell -> {0, 1}]]
  /\ bfY \in [Copies -> [Cell -> {0, 1}]]
  /\ keyIdx \in [Copies -> 0 .. NKEYS]
  /\ keyBuf \in [Copies -> [0 .. NKEYS - 1 -> Keys \cup {NoKey}]]
  /\ cmX \in [Copies -> [Cell -> Val]]
  /\ cmY \in [Copies -> [Cell -> Val]]
  /\ msgAddr \in Slot
  /\ mirrorQ \in Seq(Mirrored)

Zeros == [c \in Copies |-> [i \in Cell |-> 0]]

(* The registers as the control script leaves them.                        *)
DataPlaneInit ==
  /\ epoch = 0
  /\ resetIdx = NDATA
  /\ bfX = Zeros /\ bfY = Zeros
  /\ keyIdx = [c \in Copies |-> 0]
  /\ keyBuf = [c \in Copies |-> [i \in 0 .. NKEYS - 1 |-> NoKey]]
  /\ cmX = Zeros /\ cmY = Zeros
  /\ msgAddr = 0
  /\ mirrorQ = <<>>

-----------------------------------------------------------------------------
(* The copy that traffic updates, and the copy that collect and reset work *)
(* on: get_epoch and get_col_epoch.                                        *)
ActiveCopy == Copy(epoch)
ColCopyInUse == Copy(epoch)  \* a variant with a fault
ColCopy == Copy(epoch + EpochMod - 1)

(* Variants with a fault: the wrong copy.                                  *)
MarkOther(row, c, i) == [row EXCEPT ![1 - c][i] = 1]
ClearOther(row, c, i) == [row EXCEPT ![1 - c][i] = 0]

(* upd_bf_x, upd_bf_y; upd_cm_x, upd_cm_y; reset_bf_x to reset_cm_y.        *)
MarkCell(row, c, i) == [row EXCEPT ![c][i] = 1]
CountCell(row, c, i) == [row EXCEPT ![c][i] = (@ + 1) % CmMod]
ClearCell(row, c, i) == [row EXCEPT ![c][i] = 0]

LooksNew(c, k) == bfX[c][BfX[k]] = 0 \/ bfY[c][BfY[k]] = 0

CmRead(c, k) ==
  LET x == cmX[c][CmX[k]]
      y == cmY[c][CmY[k]]
  IN  IF x <= y THEN x ELSE y

(***************************************************************************)
(* A packet reaches the egress from the controller or from the mirror      *)
(* session, whichever the egress port serves; out is the packet, if any,   *)
(* that this pass mirrors.                                                 *)
(***************************************************************************)
Sources == {"host", "mirror"}
Arrived(src) == IF src = "host" THEN hostQ ELSE mirrorQ
Arrives(src, ops) == Arrived(src) # <<>> /\ Head(Arrived(src)).op \in ops

(* The packet goes round again as op, with what else its header says.      *)
Again(src, op) == [Head(Arrived(src)) EXCEPT !.op = op]

Pass(src, out) ==
  /\ hostQ' = IF src = "host" THEN Tail(hostQ) ELSE hostQ
  /\ mirrorQ' = (IF src = "mirror" THEN Tail(mirrorQ) ELSE mirrorQ) \o out

(* A variant with a fault: the completion names the slot after the message.*)
SendMsgAhead(op, k, v) ==
  /\ msgBuf' = [msgBuf EXCEPT ![msgAddr] = [op |-> op, key |-> k, val |-> v]]
  /\ msgAddr' = IF msgAddr = MSGS - 1 THEN 0 ELSE msgAddr + 1
  /\ cq' = IF op = "DONE" THEN Append(cq, msgAddr') ELSE cq

(* A response message takes the next slot of the ring; a DONE message is   *)
(* written with immediate data, which raises a completion.                 *)
SendMsg(op, k, v) ==
  /\ msgBuf' = [msgBuf EXCEPT ![msgAddr] = [op |-> op, key |-> k, val |-> v]]
  /\ msgAddr' = IF msgAddr = MSGS - 1 THEN 0 ELSE msgAddr + 1
  /\ cq' = IF op = "DONE" THEN Append(cq, msgAddr) ELSE cq

SendNothing == UNCHANGED <<msgBuf, msgAddr, cq>>

-----------------------------------------------------------------------------
(* get_next_store_key_idx stops at NKEYS.                                  *)
BufferFull(c) == keyIdx[c] = NKEYS

(***************************************************************************)
(* A packet of the monitored traffic with key k: it is counted, and if the *)
(* filter has not seen k in this sub-window k is stored or, when the       *)
(* buffer is full, mirrored as a report.                                   *)
(***************************************************************************)
NormalPacket(k) ==
  LET c == ActiveCopy
      new == LooksNew(c, k)
      full == BufferFull(c)
  IN  /\ bfX' = MarkCell(bfX, c, BfX[k])
      /\ bfY' = MarkCell(bfY, c, BfY[k])
      /\ cmX' = CountCell(cmX, c, CmX[k])
      /\ cmY' = CountCell(cmY, c, CmY[k])
      /\ IF new /\ ~full
         THEN /\ keyIdx' = [keyIdx EXCEPT ![c] = @ + 1]
              /\ keyBuf' = [keyBuf EXCEPT ![c][keyIdx[c]] = k]
         ELSE UNCHANGED <<keyIdx, keyBuf>>
      /\ mirrorQ' = mirrorQ \o (IF new /\ full THEN <<Report(k)>> ELSE <<>>)
      /\ UNCHANGED <<epoch, resetIdx, msgAddr, wireVars>>

(* The mirrored report of an overflowing key becomes a KEY message.        *)
ReportKey ==
  /\ Arrives("mirror", {"KEY"})
  /\ Pass("mirror", <<>>)
  /\ SendMsg("KEY", Head(mirrorQ).key, 0)
  /\ UNCHANGED <<epoch, resetIdx, sketchVars, keyIdx, keyBuf, epochData>>

(* START moves traffic to the other copy before it collects from this one. *)
SwitchEpoch(src) ==
  epoch' = IF Head(Arrived(src)).op = "START" THEN (epoch + 1) % EpochMod ELSE epoch

CopyCollectedBy(src) ==
  IF Head(Arrived(src)).op = "START" THEN ActiveCopy ELSE ColCopy

(* A variant with a fault: the reset is never started by the last key.     *)
NextCollectOpEndless(i) == "COL"

(* What a collect packet that took buffer place i goes round as.           *)
NextCollectOp(i) == IF i = 0 THEN "RST_START" ELSE "COL"

(***************************************************************************)
(* START or COL takes the last key of the buffer, sends its counter to the *)
(* key's slot (a hot key) or as a KEYVAL message, and goes round again: as *)
(* COL while keys are left, as RST_START when it took the last one.        *)
(***************************************************************************)
CollectKey(src) ==
  /\ Arrives(src, {"START", "COL"})
  /\ LET c == CopyCollectedBy(src)
         i == keyIdx[c] - 1
         k == keyBuf[c][i]
     IN  /\ keyIdx[c] # 0
         /\ keyIdx' = [keyIdx EXCEPT ![c] = i]
         /\ IF k \in HotKeys
            THEN epochData' = [epochData EXCEPT ![k] = CmRead(c, k)] /\ SendNothing
            ELSE SendMsg("KEYVAL", k, CmRead(c, k)) /\ UNCHANGED epochData
         /\ Pass(src, << Again(src, NextCollectOp(i)) >>)
  /\ SwitchEpoch(src)
  /\ UNCHANGED <<resetIdx, sketchVars, keyBuf>>

(* With no key left the packet is only mirrored: a START opens the reset,  *)
(* a COL becomes one of the packets that carry it out.                     *)
CollectNothing(src) ==
  /\ Arrives(src, {"START", "COL"})
  /\ keyIdx[CopyCollectedBy(src)] = 0
  /\ Pass(src, << Again(src, IF Head(Arrived(src)).op = "START" THEN "RST_START"
                                                             ELSE "RST") >>)
  /\ SwitchEpoch(src)
  /\ SendNothing
  /\ UNCHANGED <<resetIdx, sketchVars, keyIdx, keyBuf, epochData>>

(* A query for an overflowing key: its counter is written to the address   *)
(* the request names, the key's slot.                                      *)
QueryKey ==
  /\ Arrives("host", {"QRY_KEY"})
  /\ LET k == Head(hostQ).key
     IN  epochData' = [epochData EXCEPT ![k] = CmRead(ColCopy, k)]
  /\ Pass("host", <<>>)
  /\ SendNothing
  /\ UNCHANGED <<epoch, resetIdx, sketchVars, keyIdx, keyBuf>>

-----------------------------------------------------------------------------
(* start_reset_idx and get_next_reset_idx: the index a reset packet gets,  *)
(* and the value it leaves.  RSTIDX_MID truncated to 17 bits is NDATA.     *)
ResetIdxGot(op) ==
  IF op = "RST_START" THEN IF resetIdx = NDATA THEN NDATA ELSE 0
  ELSE IF resetIdx = RSTIDX_MID THEN NDATA ELSE resetIdx

(* A variant with a fault: one RST_START is enough.                        *)
ResetIdxLeftAtOnce(op) ==
  IF op = "RST_START" THEN 1
  ELSE IF resetIdx \in {NDATA, RSTIDX_MID} THEN resetIdx ELSE resetIdx + 1

ResetIdxLeft(op) ==
  IF op = "RST_START" THEN IF resetIdx = NDATA THEN RSTIDX_MID ELSE 1
  ELSE IF resetIdx \in {NDATA, RSTIDX_MID} THEN resetIdx ELSE resetIdx + 1

(* Variants with a fault: a packet without a cell is answered too; the     *)
(* last cell is not.                                                       *)
IsDoneTooOften(op, idx) == idx \in {0, NDATA - 1, NDATA} \/ op = "PUSH"
IsDoneOnce(op, idx) == idx = 0 \/ op = "PUSH"

(* The reset packets that are answered with DONE.                          *)
IsDone(op, idx) == idx \in {0, NDATA - 1} \/ op = "PUSH"

(***************************************************************************)
(* A reset packet clears one cell of every row of the collected copy and   *)
(* goes round again; with index NDATA it clears only cell 0 of the filter  *)
(* (the index is cut to 16 bits) and ends.  The first and the last cell,   *)
(* and every PUSH, are answered with DONE.                                 *)
(***************************************************************************)
ResetPacket(src) ==
  /\ Arrives(src, {"RST_START", "RST", "PUSH"})
  /\ LET op == Head(Arrived(src)).op
         idx == ResetIdxGot(op)
         c == ColCopy
         resets == idx # NDATA
     IN  /\ resetIdx' = ResetIdxLeft(op)
         /\ bfX' = ClearCell(bfX, c, idx % NDATA)
         /\ bfY' = ClearCell(bfY, c, idx % NDATA)
         /\ cmX' = IF resets THEN ClearCell(cmX, c, idx) ELSE cmX
         /\ cmY' = IF resets THEN ClearCell(cmY, c, idx) ELSE cmY
         /\ IF IsDone(op, idx)
            THEN SendMsg("DONE", NoKey, 0)
            ELSE SendNothing
         /\ Pass(src, IF resets THEN << Again(src, "RST") >> ELSE <<>>)
  /\ UNCHANGED <<epoch, keyIdx, keyBuf, epochData>>

(* The mirror session may drop the packet at its head.                     *)
LoseMirrored ==
  /\ mirrorQ # <<>>
  /\ mirrorQ' = Tail(mirrorQ)
  /\ UNCHANGED <<epoch, resetIdx, sketchVars, keyIdx, keyBuf, msgAddr, wireVars>>
=============================================================================

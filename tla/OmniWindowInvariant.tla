------------------------- MODULE OmniWindowInvariant -------------------------
(***************************************************************************)
(* Why the switch and the controller stay in step: an inductive invariant  *)
(* of OmniWindow, as named parts.                                          *)
(***************************************************************************)
EXTENDS OmniWindow, Sums

(***************************************************************************)
(* The sizes for which the parts hold.  The ring has room for a message of *)
(* every key, or of every place of the buffer, and for the DONE messages   *)
(* beside them; the program has 2^21 slots for at most 2^17 keys and 2^14  *)
(* places.  A key is never reported while the controller collects: traffic *)
(* pauses, or the buffer has room for every key.                           *)
(***************************************************************************)
NoOverflow == Cardinality(Keys) =< NKEYS

Fits ==
  /\ IsFiniteSet(Keys)
  /\ MSGS > Cardinality(Keys) + 1
  /\ MSGS > NKEYS + 2
  /\ Quiesced \/ NoOverflow

-----------------------------------------------------------------------------
(***************************************************************************)
(* The ring.  The controller has still to read the slots from msgHead to   *)
(* msgAddr, and it knows of those before msgTail.                          *)
(***************************************************************************)
Dist(from, s) == IF s >= from THEN s - from ELSE s - from + MSGS
Off(s) == Dist(msgHead, s)
Behind == Off(msgAddr)
UnreadSlots == {s \in Slot : Off(s) < Behind}

(* The completions name unread DONE messages, in the order of the ring.    *)
RingOK ==
  /\ Off(msgTail) =< Behind
  /\ \A i \in 1 .. Len(cq) : /\ Off(msgTail) =< Off(cq[i]) /\ Off(cq[i]) < Behind
                             /\ msgBuf[cq[i]].op = "DONE"
  /\ \A i, j \in 1 .. Len(cq) : i < j => Off(cq[i]) < Off(cq[j])

(* The last d unread messages, and no others, are DONE.                    *)
Dones(d) ==
  /\ d =< Behind
  /\ \A s \in UnreadSlots : msgBuf[s].op = "DONE" <=> Off(s) >= Behind - d

(* The other unread messages are of one kind and carry keys.               *)
Kind(op) ==
  \A s \in UnreadSlots : \/ msgBuf[s].op = "DONE"
                         \/ msgBuf[s].op = op /\ msgBuf[s].key \in Keys

-----------------------------------------------------------------------------
(***************************************************************************)
(* The two queues of packets.                                              *)
(***************************************************************************)
Ops(q) == {q[i].op : i \in 1 .. Len(q)}
Once(q, op) == \A i, j \in 1 .. Len(q) : q[i].op = op /\ q[j].op = op => i = j

(* A host RST_START follows all that collects, and only what is left of an *)
(* earlier sub-window is in front of a START.                              *)
RequestsInOrder ==
  /\ \A i \in 1 .. Len(hostQ) :
       hostQ[i].op \in {"START", "COL", "QRY_KEY"} =>
         \E j \in i + 1 .. Len(hostQ) : hostQ[j].op = "RST_START"
  /\ \A i \in 1 .. Len(hostQ) :
       hostQ[i].op = "START" => \A j \in 1 .. i - 1 : hostQ[j].op = "RST"
  /\ Once(hostQ, "RST_START") /\ Once(hostQ, "PUSH")

MirrorOK ==
  /\ Once(mirrorQ, "RST_START")
  /\ Ops(mirrorQ) \subseteq {"COL", "RST_START", "RST", "KEY"}

(* The controller waits for the answer to the PUSH it sent.                *)
PushAwaited == "PUSH" \in Ops(hostQ) => pc = "recvKeys"

-----------------------------------------------------------------------------
(***************************************************************************)
(* The keys that the switch found new.                                     *)
(***************************************************************************)
Stored(c) == {keyBuf[c][i] : i \in 0 .. keyIdx[c] - 1}

BuffersOK ==
  /\ \A c \in Copies : \A i \in 0 .. keyIdx[c] - 1 : keyBuf[c][i] \in Keys
  /\ \A c \in Copies : \A i, j \in 0 .. keyIdx[c] - 1 : keyBuf[c][i] = keyBuf[c][j] => i = j
  /\ Stored(ActiveCopy) \subseteq newKeys

(* The filter knows the new keys.                                          *)
Marked == \A k \in newKeys : ~LooksNew(ActiveCopy, k)

Overflowing == newKeys \ Stored(ActiveCopy)
Reporting == {i \in 1 .. Len(mirrorQ) : mirrorQ[i].op = "KEY"}
Reported == {s \in UnreadSlots : msgBuf[s].op = "KEY"}

(* A report is of a key that found the buffer full, each key has one.      *)
ReportsOK ==
  /\ Reporting # {} => Quiesced /\ pc \in {"idle", "exit"}
  /\ \A i \in Reporting : mirrorQ[i].key \in Overflowing
  /\ \A s \in Reported : msgBuf[s].key \in Overflowing
  /\ \A i, j \in Reporting : mirrorQ[i].key = mirrorQ[j].key => i = j
  /\ \A s, t \in Reported : msgBuf[s].key = msgBuf[t].key => s = t
  /\ \A i \in Reporting, s \in Reported : mirrorQ[i].key # msgBuf[s].key

-----------------------------------------------------------------------------
(***************************************************************************)
(* The stages of a collection, named by the DONE messages sent so far: 0   *)
(* while keys are collected, 1 while cells are reset, 2 when that is over. *)
(***************************************************************************)
ZeroAt(c, i) == bfX[c][i] = 0 /\ bfY[c][i] = 0 /\ cmX[c][i] = 0 /\ cmY[c][i] = 0

(* Nothing is left that collects or that starts a reset.                   *)
Calm ==
  /\ Ops(hostQ) \subseteq {"RST", "PUSH"}
  /\ "RST_START" \notin Ops(mirrorQ)
  /\ keyIdx[ColCopy] = 0

(* Before START everything is as the last reset left it; the RST_START of  *)
(* the mirror is made by what takes the last key.                          *)
Collecting ==
  /\ resetIdx \in {NDATA, RSTIDX_MID}
  /\ "START" \in Ops(hostQ) =>
       /\ resetIdx = NDATA /\ IsClean(ColCopy)
       /\ "RST_START" \notin Ops(mirrorQ) /\ Behind = 0
  /\ "RST_START" \in Ops(mirrorQ) => keyIdx[ColCopy] = 0
  /\ resetIdx = RSTIDX_MID /\ "RST_START" \in Ops(hostQ) =>
       keyIdx[ColCopy] = 0 /\ "RST_START" \notin Ops(mirrorQ)

Resetting ==
  /\ resetIdx \in 1 .. NDATA - 1 /\ Calm
  /\ \A i \in 0 .. resetIdx - 1 : ZeroAt(ColCopy, i)

Cleared == resetIdx = NDATA /\ Calm /\ IsClean(ColCopy)

Stage(d) ==
  \/ d = 0 /\ Collecting
  \/ d = 1 /\ Resetting
  \/ d = 2 /\ Cleared

(* What each phase of switchWin may assume of the switch and of the ring.  *)
PhaseOK ==
  /\ pc \in {"idle", "exit"} => Cleared /\ Kind("KEY") /\ Dones(0)
  /\ pc = "recvKeys" =>
       /\ Cleared /\ Kind("KEY")
       /\ \E d \in {0, 1} : Dones(d) /\ (d = 1 => "PUSH" \notin Ops(hostQ))
  /\ pc \in {"waitVals", "recvVals"} =>
       /\ Kind("KEYVAL")
       /\ \E d \in {0, 1, 2} : /\ Stage(d) /\ Dones(d)
                               /\ Behind - d + keyIdx[ColCopy] =< NKEYS
  /\ pc \in {"merge", "recvDone"} =>
       \E d \in {1, 2} : Stage(d) /\ Dones(d - 1) /\ Behind = d - 1

InStep ==
  /\ TypeOK
  /\ RingOK
  /\ RequestsInOrder
  /\ MirrorOK
  /\ PushAwaited
  /\ BuffersOK
  /\ Marked
  /\ ReportsOK
  /\ PhaseOK

-----------------------------------------------------------------------------
(***************************************************************************)
(* The values.  Every key that is new in a sub-window is collected from    *)
(* the buffer or asked for, so that what the controller merges is what the *)
(* sketch held when the sub-window was closed.                             *)
(*                                                                         *)
(* Where keys overflow the buffer none of their reports or queries may be  *)
(* lost: nothing in the program notices.                                   *)
(***************************************************************************)
Delivered == NoOverflow \/ ~Lossy

(* The keys that the packets op of a queue are about.                      *)
KeysOf(q, op) == {q[i].key : i \in {j \in 1 .. Len(q) : q[j].op = op}}

Asked == KeysOf(hostQ, "QRY_KEY")
ToAsk == {overflowKeys[i] : i \in 1 .. Len(overflowKeys)}
Told == {msgBuf[s].key : s \in {u \in UnreadSlots : msgBuf[u].op = "KEYVAL"}}

(* Where a key that has no place of the buffer is known from.              *)
Known(k) ==
  \/ k \in KeysOf(mirrorQ, "KEY")
  \/ \E s \in Reported : msgBuf[s].key = k
  \/ pc = "recvKeys" /\ k \in ToAsk
  \/ "START" \in Ops(hostQ) /\ k \in Asked

KeysAccounted ==
  /\ \A k \in Overflowing : Known(k)
  /\ NoOverflow => Overflowing = {} /\ ToAsk = {} /\ Asked = {}
  /\ pc = "recvKeys" => ToAsk \subseteq newKeys
  /\ "START" \in Ops(hostQ) => Asked \subseteq newKeys

(* The slots that the controller clears are those that may hold a value.   *)
SlotsKnown ==
  /\ InputKeys \cup ToAsk \cup Asked \subseteq inserted
  /\ \A k \in Keys : epochData[k] # 0 => k \in inserted

ValuesRight ==
  /\ pc \in {"idle", "exit", "recvKeys", "recvDone"} \/ "START" \in Ops(hostQ) =>
       closed = NoCounts
  /\ pc \in {"idle", "exit", "recvKeys"} \/ "START" \in Ops(hostQ) =>
       epochData = NoCounts
  /\ pc \in {"waitVals", "recvVals"} =>
       /\ \A k \in Stored(ColCopy) \cup Asked : CmRead(ColCopy, k) = closed[k]
       /\ \A s \in UnreadSlots :
            msgBuf[s].op = "KEYVAL" => msgBuf[s].val = closed[msgBuf[s].key]
       /\ \A k \in Keys : epochData[k] = closed[k] \/ k \in Stored(ColCopy) \cup Asked \cup Told
  /\ pc = "merge" => epochData = closed

Accounts ==
  /\ KeysAccounted
  /\ SlotsKnown
  /\ ValuesRight

(* Switch and controller are in step, and no key or value is unaccounted   *)
(* for, at any stage of a sub-window and whatever was lost on the way.     *)
IInv == InStep /\ Accounts

-----------------------------------------------------------------------------
(***************************************************************************)
(* The counters.  A counter that does not wrap is never less than the      *)
(* packets of a key that it counts, and is exact where the key has its     *)
(* cell alone; a filter cell that only one key marks knows that key.       *)
(***************************************************************************)
Alone(row, k) == \A j \in Keys : row[j] = row[k] => j = k

(* Every key has a counter and a filter bit that no other key touches.     *)
NoCollision ==
  \A k \in Keys : /\ Alone(CmX, k) \/ Alone(CmY, k)
                  /\ Alone(BfX, k) \/ Alone(BfY, k)

(* No counter of the traffic is at its last value.                         *)
RoomToCount ==
  \A i \in Cell : cmX[ActiveCopy][i] < CmMod - 1 /\ cmY[ActiveCopy][i] < CmMod - 1

SketchRight ==
  \A k \in Keys :
    /\ seen[k] =< cmX[ActiveCopy][CmX[k]] /\ seen[k] =< cmY[ActiveCopy][CmY[k]]
    /\ Alone(CmX, k) => cmX[ActiveCopy][CmX[k]] = seen[k]
    /\ Alone(CmY, k) => cmY[ActiveCopy][CmY[k]] = seen[k]

FilterRight ==
  \A k \in Keys :
    /\ Alone(BfX, k) /\ bfX[ActiveCopy][BfX[k]] # 0 => k \in newKeys
    /\ Alone(BfY, k) /\ bfY[ActiveCopy][BfY[k]] # 0 => k \in newKeys
    /\ seen[k] > 0 /\ (Alone(BfX, k) \/ Alone(BfY, k)) => k \in newKeys

(* The packets of the open sub-window whose key hashes to cell i.          *)
SeenAt(row, i) == Total(Restrict(seen, {k \in Keys : row[k] = i}))

(* Every counter of the active copy is the number of packets of the open   *)
(* sub-window whose key hashes to it, as far as a counter can tell: no     *)
(* packet of another sub-window is in it and none of this one is missing.  *)
ActiveSketchExact ==
  \A i \in Cell : /\ cmX[ActiveCopy][i] = SeenAt(CmX, i) % CmMod
                  /\ cmY[ActiveCopy][i] = SeenAt(CmY, i) % CmMod

-----------------------------------------------------------------------------
(***************************************************************************)
(* The packets, counted.  CollectReset bounds the queries of a call by the *)
(* keys, and the packets of earlier calls by what those calls have sent.   *)
(***************************************************************************)

(* Queries go after the requests that collect from the buffer.             *)
QueriesLast ==
  \A i, j \in 1 .. Len(hostQ) : i < j /\ hostQ[i].op = "QRY_KEY" => hostQ[j].op # "COL"

(* No key is asked for twice.                                              *)
AskedOnce ==
  /\ \A i, j \in 1 .. Len(overflowKeys) : overflowKeys[i] = overflowKeys[j] => i = j
  /\ pc = "recvKeys" => \A s \in Reported : msgBuf[s].key \notin ToAsk

(* A call sends 2 * NReq packets that go round, each of them as one.       *)
Going(q) == Number(q, "START") + Number(q, "COL") + Number(q, "RST_START") + Number(q, "RST")
Sent == IF pc = "recvKeys" THEN switches - 1 ELSE switches
FewPackets == Sent >= 0 /\ Going(hostQ) + Going(mirrorQ) =< 2 * NReq * Sent

PacketsRight == QueriesLast /\ AskedOnce /\ FewPackets
=============================================================================

-------------------------- MODULE OmniWindow_proofs --------------------------
(***************************************************************************)
(* For any keys, hash functions, sizes and numbers of requests that fit:   *)
(* switch and controller stay in step while traffic flows and packets are  *)
(* lost; and what the controller merges is what the sketch held when the   *)
(* sub-window was closed: the accounts of keys and values are an invariant *)
(* beside InStep.  With what the sketch counts, the whole system is then   *)
(* the atomically cut counter of SubWindows.                               *)
(***************************************************************************)
EXTENDS OmniWindowInvariant, Sums_proofs, FiniteSetTheorems, TLAPS

-----------------------------------------------------------------------------
(***************************************************************************)
(* The ring.                                                               *)
(***************************************************************************)

(* NextSlot without the remainder.                                         *)
LEMMA NextSlotIs ==
  ASSUME NEW s \in Slot
  PROVE  NextSlot(s) = (IF s = MSGS - 1 THEN 0 ELSE s + 1) /\ NextSlot(s) \in Slot
<1>1. MSGS \in Nat \ {0} /\ s \in 0 .. MSGS - 1
  BY WireAssumption DEF Slot
<1>2. CASE s = MSGS - 1
  <2>1. (s + 1) % MSGS = 0
    BY <1>1, <1>2
  <2> QED
    BY <1>1, <1>2, <2>1 DEF NextSlot, Slot
<1>3. CASE s # MSGS - 1
  <2>1. (s + 1) % MSGS = s + 1
    BY <1>1, <1>3
  <2> QED
    BY <1>1, <1>3, <2>1 DEF NextSlot, Slot
<1> QED
  BY <1>2, <1>3

(* The distance to a slot names the slot.                                  *)
LEMMA DistIs ==
  ASSUME NEW h \in Slot, NEW s \in Slot
  PROVE  /\ Dist(h, s) \in 0 .. MSGS - 1
         /\ Dist(h, h) = 0
         /\ \A t \in Slot : Dist(h, s) = Dist(h, t) => s = t
  BY WireAssumption DEF Dist, Slot

(* A slot on, the distance is one more; from a slot on, one less.          *)
LEMMA DistOfNext ==
  ASSUME NEW h \in Slot, NEW s \in Slot
  PROVE  /\ Dist(h, s) < MSGS - 1 => Dist(h, NextSlot(s)) = Dist(h, s) + 1
         /\ s # h => Dist(NextSlot(h), s) = Dist(h, s) - 1 /\ Dist(h, s) > 0
         /\ s = h => Dist(NextSlot(h), s) = MSGS - 1
<1>1. /\ NextSlot(s) = (IF s = MSGS - 1 THEN 0 ELSE s + 1)
      /\ NextSlot(h) = (IF h = MSGS - 1 THEN 0 ELSE h + 1)
  BY NextSlotIs
<1> QED
  BY <1>1, WireAssumption DEF Dist, Slot
(* A message takes the slot behind the unread ones, if one is left over.   *)
LEMMA SendMsgKeepsRing ==
  ASSUME TypeOK, RingOK, Behind < MSGS - 1, UNCHANGED <<msgHead, msgTail>>,
         NEW op \in {"DONE", "KEY", "KEYVAL"}, NEW k \in Keys \cup {NoKey}, NEW v \in Val,
         SendMsg(op, k, v)
  PROVE  /\ RingOK'
         /\ Behind' = Behind + 1
         /\ Off(msgAddr) = Behind /\ msgAddr \notin UnreadSlots
         /\ UnreadSlots' = UnreadSlots \cup {msgAddr}
         /\ msgBuf'[msgAddr] = [op |-> op, key |-> k, val |-> v]
         /\ \A s \in UnreadSlots : msgBuf'[s] = msgBuf[s]
         /\ msgBuf' \in [Slot -> Msg] /\ msgAddr' \in Slot /\ cq' \in Seq(Slot)
<1>1. /\ msgHead \in Slot /\ msgTail \in Slot /\ msgAddr \in Slot
      /\ msgBuf \in [Slot -> Msg] /\ MSGS \in Nat \ {0}
  BY WireAssumption DEF TypeOK, WireTypeOK, DataPlaneTypeOK, ControllerTypeOK
<1>2. cq \in Seq(Slot)
  BY DEF TypeOK, WireTypeOK
<1> DEFINE m == [op |-> op, key |-> k, val |-> v]
           h == msgHead
           b == Behind
<1>3. m \in Msg
  BY DEF Msg
<1>4. /\ msgBuf' = [msgBuf EXCEPT ![msgAddr] = m]
      /\ msgAddr' = NextSlot(msgAddr)
      /\ cq' = IF op = "DONE" THEN Append(cq, msgAddr) ELSE cq
  BY <1>1, NextSlotIs DEF SendMsg
<1>5. b = Dist(h, msgAddr) /\ b \in 0 .. MSGS - 1 /\ Behind' = b + 1 /\ msgAddr' \in Slot
  BY <1>1, <1>4, DistIs, DistOfNext, NextSlotIs DEF Behind, Off
<1> HIDE DEF m, b
<1>6. \A s \in Slot : Dist(h, s) \in 0 .. MSGS - 1 /\ (Dist(h, s) = b => s = msgAddr)
  BY <1>1, <1>5, DistIs
<1>7. UnreadSlots = {s \in Slot : Dist(h, s) < b} /\ UnreadSlots' = {s \in Slot : Dist(h, s) < b + 1}
  BY <1>5 DEF UnreadSlots, Off, b
<1>8. UnreadSlots' = UnreadSlots \cup {msgAddr} /\ msgAddr \notin UnreadSlots
  BY <1>1, <1>5, <1>6, <1>7
<1>9. msgBuf' \in [Slot -> Msg] /\ msgBuf'[msgAddr] = m /\ \A s \in UnreadSlots : msgBuf'[s] = msgBuf[s]
  BY <1>1, <1>3, <1>4, <1>7, <1>8
<1>10. /\ Dist(h, msgTail) =< b
       /\ \A i \in 1 .. Len(cq) : /\ cq[i] \in Slot /\ Dist(h, msgTail) =< Dist(h, cq[i]) /\ Dist(h, cq[i]) < b
                                  /\ msgBuf'[cq[i]].op = "DONE"
       /\ \A i, j \in 1 .. Len(cq) : i < j => Dist(h, cq[i]) < Dist(h, cq[j])
  <2>1. \A i \in 1 .. Len(cq) : cq[i] \in Slot
    BY <1>2
  <2>2. \A i \in 1 .. Len(cq) : Dist(h, msgTail) =< Dist(h, cq[i]) /\ Dist(h, cq[i]) < b
    BY DEF RingOK, Off, b
  <2>3. \A i \in 1 .. Len(cq) : cq[i] \in UnreadSlots
    BY <1>7, <2>1, <2>2
  <2> QED
    BY <1>9, <2>1, <2>2, <2>3 DEF RingOK, Off, b
<1>11. RingOK'
  <2>1. CASE op # "DONE"
    <3>1. cq' = cq
      BY <1>4, <2>1
    <3> QED
      BY <1>1, <1>5, <1>6, <1>10, <3>1 DEF RingOK, Off
  <2>2. CASE op = "DONE"
    <3>1. cq' = Append(cq, msgAddr)
      BY <1>4, <2>2
    <3>2. PICK n \in Nat : n = Len(cq)
      BY <1>2
    <3>3. /\ Len(cq') = n + 1 /\ cq'[n + 1] = msgAddr
          /\ \A i \in 1 .. n : cq'[i] = cq[i]
      BY <1>1, <1>2, <3>1, <3>2
    <3>4. msgBuf'[msgAddr].op = "DONE"
      BY <1>9, <2>2 DEF m
    <3>5. \A i \in 1 .. n + 1 : /\ Dist(h, msgTail) =< Dist(h, cq'[i]) /\ Dist(h, cq'[i]) < b + 1
                                /\ msgBuf'[cq'[i]].op = "DONE"
      <4> SUFFICES ASSUME NEW i \in 1 .. n + 1
                   PROVE  /\ Dist(h, msgTail) =< Dist(h, cq'[i]) /\ Dist(h, cq'[i]) < b + 1
                          /\ msgBuf'[cq'[i]].op = "DONE"
        OBVIOUS
      <4>1. CASE i = n + 1
        BY <1>5, <1>10, <3>3, <3>4, <4>1
      <4>2. CASE i \in 1 .. n
        BY <1>5, <1>6, <1>10, <3>2, <3>3, <4>2
      <4> QED
        BY <3>2, <4>1, <4>2
    <3>6. ASSUME NEW i \in 1 .. n + 1, NEW j \in 1 .. n + 1, i < j
          PROVE  Dist(h, cq'[i]) < Dist(h, cq'[j])
      <4>1. i \in 1 .. n
        BY <3>2, <3>6
      <4>2. CASE j = n + 1
        BY <1>5, <1>10, <3>2, <3>3, <4>1, <4>2
      <4>3. CASE j \in 1 .. n
        BY <1>10, <3>2, <3>3, <3>6, <4>1, <4>3
      <4> QED
        BY <3>2, <4>2, <4>3
    <3>7. Dist(h, msgTail) =< b + 1
      BY <1>1, <1>5, <1>6, <1>10
    <3> QED
      BY <1>5, <3>3, <3>5, <3>6, <3>7 DEF RingOK, Off
  <2> QED
    BY <2>1, <2>2
<1>12. cq' \in Seq(Slot)
  BY <1>1, <1>2, <1>4
<1> QED
  BY <1>5, <1>8, <1>9, <1>11, <1>12 DEF m, b, Off

(* What a completion tells: its message is there to read.                  *)
LEMMA HasMsgIsUnread ==
  ASSUME TypeOK, RingOK, HasMsg
  PROVE  Behind > 0 /\ msgHead \in UnreadSlots /\ Off(msgHead) = 0
<1>1. /\ msgHead \in Slot /\ msgTail \in Slot /\ msgAddr \in Slot
  BY DEF TypeOK, WireTypeOK, DataPlaneTypeOK, ControllerTypeOK
<1>2. cq \in Seq(Slot)
  BY DEF TypeOK, WireTypeOK
<1>3. Behind \in 0 .. MSGS - 1 /\ Off(msgHead) = 0 /\ Off(msgTail) \in 0 .. MSGS - 1
  BY <1>1, DistIs DEF Behind, Off
<1>4. CASE Unread
  <2>1. Off(msgTail) # 0
    BY <1>1, <1>3, <1>4, DistIs DEF Unread, Off
  <2> QED
    BY <1>1, <1>3, <2>1 DEF RingOK, UnreadSlots
<1>5. CASE cq # <<>>
  <2>1. 1 \in 1 .. Len(cq) /\ cq[1] \in Slot
    BY <1>2, <1>5
  <2>2. Off(cq[1]) \in 0 .. MSGS - 1
    BY <1>1, <2>1, DistIs DEF Off
  <2> QED
    BY <1>1, <1>3, <2>1, <2>2 DEF RingOK, UnreadSlots
<1> QED
  BY <1>4, <1>5 DEF HasMsg

(* The head of the completions is unread, and the slot after it the new    *)
(* tail.                                                                   *)
LEMMA WaitNewMsgTells ==
  ASSUME TypeOK, RingOK, WaitNewMsg
  PROVE  /\ msgTail' \in Slot /\ cq' \in Seq(Slot)
         /\ Off(msgTail) =< Off(Head(cq)) /\ Head(cq) \in Slot
         /\ Dist(msgHead, msgTail') = Off(Head(cq)) + 1 /\ Off(Head(cq)) < Behind
         /\ \A i \in 1 .. Len(cq') : /\ cq'[i] \in Slot
                                     /\ Off(Head(cq)) < Off(cq'[i]) /\ Off(cq'[i]) < Behind
                                     /\ msgBuf[cq'[i]].op = "DONE"
         /\ \A i, j \in 1 .. Len(cq') : i < j => Off(cq'[i]) < Off(cq'[j])
<1>1. /\ msgHead \in Slot /\ msgTail \in Slot /\ msgAddr \in Slot
  BY DEF TypeOK, WireTypeOK, DataPlaneTypeOK, ControllerTypeOK
<1>2. cq \in Seq(Slot)
  BY DEF TypeOK, WireTypeOK
<1>3. Behind \in 0 .. MSGS - 1
  BY <1>1, DistIs DEF Behind, Off
<1>4. cq # <<>> /\ msgTail' = NextSlot(Head(cq)) /\ cq' = Tail(cq)
  BY DEF WaitNewMsg
<1>5. PICK n \in Nat : n + 1 = Len(cq)
  <2>1. Len(cq) \in Nat \ {0} /\ (Len(cq) - 1) + 1 = Len(cq) /\ Len(cq) - 1 \in Nat
    BY <1>2, <1>4
  <2> QED
    BY <2>1
<1>6. /\ Head(cq) = cq[1] /\ 1 \in 1 .. Len(cq) /\ cq[1] \in Slot
      /\ Len(cq') = n /\ \A i \in 1 .. n : cq'[i] = cq[i + 1] /\ cq[i + 1] \in Slot
  BY <1>2, <1>4, <1>5
<1>7. Off(cq[1]) < Behind /\ Off(msgTail) =< Off(cq[1]) /\ Off(cq[1]) \in 0 .. MSGS - 1
  BY <1>1, <1>6, DistIs DEF RingOK, Off
<1>8. Dist(msgHead, msgTail') = Off(cq[1]) + 1 /\ msgTail' \in Slot
  <2>1. msgTail' = NextSlot(cq[1]) /\ cq[1] \in Slot /\ Dist(msgHead, cq[1]) < MSGS - 1
    BY <1>3, <1>4, <1>6, <1>7, WireAssumption DEF Off
  <2> QED
    BY <1>1, <2>1, DistOfNext, NextSlotIs DEF Off
<1>9. \A i \in 1 .. n : i + 1 \in 1 .. Len(cq) /\ 1 < i + 1
  BY <1>5
<1>10. \A i \in 1 .. n : /\ cq'[i] \in Slot
                         /\ Off(cq[1]) < Off(cq'[i]) /\ Off(cq'[i]) < Behind
                         /\ msgBuf[cq'[i]].op = "DONE"
  BY <1>6, <1>9 DEF RingOK, Off
<1>11. ASSUME NEW i \in 1 .. n, NEW j \in 1 .. n, i < j
       PROVE  Off(cq'[i]) < Off(cq'[j])
  <2>1. i + 1 < j + 1
    BY <1>11
  <2> QED
    BY <1>6, <1>9, <2>1 DEF RingOK, Off
<1>12. cq' \in Seq(Slot)
  BY <1>2, <1>4
<1> QED
  BY <1>4, <1>6, <1>7, <1>8, <1>10, <1>11, <1>12

(* Reading a message moves the head one slot on.                           *)
LEMMA NextMsgKeepsRing ==
  ASSUME TypeOK, RingOK, NextMsg, UNCHANGED <<msgAddr, msgBuf>>
  PROVE  /\ RingOK'
         /\ Behind > 0 /\ Behind' = Behind - 1
         /\ msgHead \in UnreadSlots /\ Off(msgHead) = 0
         /\ UnreadSlots' = UnreadSlots \ {msgHead}
         /\ \A s \in UnreadSlots' : Dist(msgHead', s) = Off(s) - 1
         /\ msgHead' \in Slot /\ msgTail' \in Slot /\ cq' \in Seq(Slot)
<1>1. /\ msgHead \in Slot /\ msgTail \in Slot /\ msgAddr \in Slot /\ MSGS \in Nat \ {0}
  BY WireAssumption DEF TypeOK, WireTypeOK, DataPlaneTypeOK, ControllerTypeOK
<1>2. cq \in Seq(Slot)
  BY DEF TypeOK, WireTypeOK
<1>3. HasMsg
  BY DEF NextMsg, WaitNewMsg, HasMsg
<1>4. Behind > 0 /\ msgHead \in UnreadSlots /\ Off(msgHead) = 0
  BY <1>3, HasMsgIsUnread
<1> DEFINE h == msgHead
           g == msgHead'
           b == Behind
<1>5. g = NextSlot(h) /\ g \in Slot
  BY <1>1, NextSlotIs DEF NextMsg
<1>6. b = Dist(h, msgAddr) /\ b \in 0 .. MSGS - 1
  BY <1>1, DistIs DEF Behind, Off
<1>7. \A s \in Slot : /\ Dist(h, s) \in 0 .. MSGS - 1
                      /\ Dist(h, s) = 0 => s = h
                      /\ s # h => Dist(g, s) = Dist(h, s) - 1 /\ Dist(h, s) > 0
                      /\ s = h => Dist(g, s) = MSGS - 1 /\ Dist(h, s) = 0
  BY <1>1, <1>5, DistIs, DistOfNext
<1>8. Behind' = Dist(g, msgAddr)
  BY DEF Behind, Off
<1> HIDE DEF b
<1>9. Behind' = b - 1
  BY <1>1, <1>4, <1>6, <1>7, <1>8 DEF b
<1>10. UnreadSlots = {s \in Slot : Dist(h, s) < b} /\ UnreadSlots' = {s \in Slot : Dist(g, s) < b - 1}
  BY <1>9 DEF UnreadSlots, Off, b
<1>11. UnreadSlots' = UnreadSlots \ {h} /\ \A s \in UnreadSlots' : Dist(g, s) = Dist(h, s) - 1
  BY <1>1, <1>6, <1>7, <1>10
<1>12. RingOK' /\ msgTail' \in Slot /\ cq' \in Seq(Slot)
  <2>1. CASE Unread
    <3>1. UNCHANGED <<cq, msgTail>>
      BY <2>1 DEF NextMsg
    <3>2. Dist(h, msgTail) # 0
      BY <1>1, <1>7, <2>1 DEF Unread
    <3>3. \A i \in 1 .. Len(cq) : cq[i] \in Slot
      BY <1>2
    <3>4. \A i \in 1 .. Len(cq) : Dist(h, msgTail) =< Dist(h, cq[i]) /\ Dist(h, cq[i]) < b
      BY DEF RingOK, Off, b
    <3>5. \A i \in 1 .. Len(cq) : cq[i] # h /\ Dist(g, cq[i]) = Dist(h, cq[i]) - 1
      BY <1>1, <1>7, <3>2, <3>3, <3>4
    <3>6. Dist(g, msgTail) = Dist(h, msgTail) - 1 /\ Dist(h, msgTail) =< b
      BY <1>1, <1>7, <3>2 DEF RingOK, Off, b
    <3>7. Dist(g, msgTail) =< b - 1
      BY <1>1, <1>6, <1>7, <3>6
    <3>8. \A i \in 1 .. Len(cq) : Dist(g, msgTail) =< Dist(g, cq[i]) /\ Dist(g, cq[i]) < b - 1
      BY <1>1, <1>6, <1>7, <3>3, <3>4, <3>5, <3>6
    <3>9. \A i, j \in 1 .. Len(cq) : i < j => Dist(g, cq[i]) < Dist(g, cq[j])
      <4>1. \A i, j \in 1 .. Len(cq) : i < j => Dist(h, cq[i]) < Dist(h, cq[j])
        BY DEF RingOK, Off
      <4> QED
        BY <1>7, <3>3, <3>5, <4>1
    <3> QED
      BY <1>1, <1>2, <1>9, <3>1, <3>7, <3>8, <3>9 DEF RingOK, Off
  <2>2. CASE ~Unread
    <3>1. WaitNewMsg
      BY <2>2 DEF NextMsg
    <3> DEFINE f == Head(cq)
    <3>2. /\ msgTail' \in Slot /\ cq' \in Seq(Slot) /\ f \in Slot
          /\ Dist(h, msgTail') = Dist(h, f) + 1 /\ Dist(h, f) < b
          /\ \A i \in 1 .. Len(cq') : /\ cq'[i] \in Slot
                                      /\ Dist(h, f) < Dist(h, cq'[i]) /\ Dist(h, cq'[i]) < b
                                      /\ msgBuf[cq'[i]].op = "DONE"
          /\ \A i, j \in 1 .. Len(cq') : i < j => Dist(h, cq'[i]) < Dist(h, cq'[j])
      BY <3>1, WaitNewMsgTells DEF Off, b
    <3> HIDE DEF f
    <3>3. Dist(g, msgTail') = Dist(h, f) /\ Dist(h, f) \in 0 .. MSGS - 1
      <4>1. Dist(h, f) \in 0 .. MSGS - 1
        BY <1>7, <3>2
      <4>2. Dist(h, msgTail') = Dist(h, f) + 1 /\ msgTail' \in Slot
        BY <3>2
      <4>3. msgTail' # h
        BY <1>7, <4>1, <4>2
      <4>4. Dist(g, msgTail') = Dist(h, msgTail') - 1
        BY <1>7, <4>2, <4>3
      <4> QED
        BY <4>1, <4>2, <4>4
    <3>4. \A i \in 1 .. Len(cq') : Dist(g, cq'[i]) = Dist(h, cq'[i]) - 1
      BY <1>7, <3>2, <3>3
    <3>5. Dist(g, msgTail') =< b - 1
      BY <1>6, <3>2, <3>3
    <3>6. \A i \in 1 .. Len(cq') : Dist(g, msgTail') =< Dist(g, cq'[i]) /\ Dist(g, cq'[i]) < b - 1
      BY <1>6, <1>7, <3>2, <3>3, <3>4
    <3>7. \A i, j \in 1 .. Len(cq') : i < j => Dist(g, cq'[i]) < Dist(g, cq'[j])
      BY <1>7, <3>2, <3>4
    <3> QED
      BY <1>9, <3>2, <3>5, <3>6, <3>7 DEF RingOK, Off
  <2> QED
    BY <2>1, <2>2
<1> QED
  BY <1>4, <1>5, <1>9, <1>11, <1>12 DEF b, Off

(* A completion that is only awaited moves the tail.                       *)
LEMMA WaitNewMsgKeepsRing ==
  ASSUME TypeOK, RingOK, WaitNewMsg, UNCHANGED <<msgAddr, msgBuf, msgHead>>
  PROVE  /\ RingOK' /\ Behind' = Behind /\ UnreadSlots' = UnreadSlots
         /\ msgTail' \in Slot /\ cq' \in Seq(Slot)
<1>1. /\ msgHead \in Slot /\ msgTail \in Slot /\ msgAddr \in Slot /\ MSGS \in Nat \ {0}
  BY WireAssumption DEF TypeOK, WireTypeOK, DataPlaneTypeOK, ControllerTypeOK
<1> DEFINE h == msgHead
           b == Behind
           f == Head(cq)
<1>2. Behind' = b /\ UnreadSlots' = UnreadSlots /\ b = Dist(h, msgAddr) /\ b \in 0 .. MSGS - 1
  BY <1>1, DistIs DEF Behind, Off, UnreadSlots
<1>3. /\ msgTail' \in Slot /\ cq' \in Seq(Slot) /\ f \in Slot
      /\ Dist(h, msgTail') = Dist(h, f) + 1 /\ Dist(h, f) < b
      /\ \A i \in 1 .. Len(cq') : /\ cq'[i] \in Slot
                                  /\ Dist(h, f) < Dist(h, cq'[i]) /\ Dist(h, cq'[i]) < b
                                  /\ msgBuf[cq'[i]].op = "DONE"
      /\ \A i, j \in 1 .. Len(cq') : i < j => Dist(h, cq'[i]) < Dist(h, cq'[j])
  BY WaitNewMsgTells DEF Off
<1> HIDE DEF b, f
<1>4. \A s \in Slot : Dist(h, s) \in 0 .. MSGS - 1
  BY <1>1, DistIs
<1>5. Dist(h, msgTail') =< b
  BY <1>2, <1>3, <1>4
<1>6. \A i \in 1 .. Len(cq') : Dist(h, msgTail') =< Dist(h, cq'[i])
  BY <1>3, <1>4
<1> QED
  BY <1>2, <1>3, <1>5, <1>6 DEF RingOK, Off, b

(* What a message does to the number of DONE, and to the kind of the rest. *)
LEMMA SendMsgCounts ==
  ASSUME TypeOK, RingOK, Behind < MSGS - 1, UNCHANGED <<msgHead, msgTail>>,
         NEW op \in {"DONE", "KEY", "KEYVAL"}, NEW k \in Keys \cup {NoKey}, NEW v \in Val,
         SendMsg(op, k, v)
  PROVE  /\ \A d \in Nat : Dones(d) /\ op = "DONE" => Dones(d + 1)'
         /\ Dones(0) /\ op # "DONE" => Dones(0)'
         /\ \A kind \in {"KEY", "KEYVAL"} :
              Kind(kind) /\ (op = "DONE" \/ (op = kind /\ k \in Keys)) => Kind(kind)'
<1>1. /\ Behind' = Behind + 1
      /\ Off(msgAddr) = Behind /\ msgAddr \notin UnreadSlots
      /\ UnreadSlots' = UnreadSlots \cup {msgAddr}
      /\ msgBuf'[msgAddr] = [op |-> op, key |-> k, val |-> v]
      /\ \A s \in UnreadSlots : msgBuf'[s] = msgBuf[s]
  BY SendMsgKeepsRing
<1>2. msgAddr \in Slot /\ msgHead \in Slot
  BY DEF TypeOK, DataPlaneTypeOK, ControllerTypeOK
<1>3. Behind \in 0 .. MSGS - 1 /\ \A s \in UnreadSlots : Off(s) \in 0 .. MSGS - 1 /\ Off(s) < Behind
  BY <1>2, DistIs DEF Behind, Off, UnreadSlots
<1>4. \A s \in UnreadSlots' : Dist(msgHead', s) = Off(s)
  BY DEF Off
<1>5. msgBuf'[msgAddr].op = op /\ msgBuf'[msgAddr].key = k
  BY <1>1
<1>6. ASSUME NEW d \in Nat, Dones(d), op = "DONE" PROVE Dones(d + 1)'
  <2>1. \A s \in UnreadSlots : msgBuf[s].op = "DONE" <=> Off(s) >= Behind - d
    BY <1>6 DEF Dones
  <2>2. \A s \in UnreadSlots : msgBuf'[s].op = "DONE" <=> Off(s) >= Behind' - (d + 1)
    BY <1>1, <1>3, <2>1
  <2>3. msgBuf'[msgAddr].op = "DONE" /\ Off(msgAddr) >= Behind' - (d + 1)
    BY <1>1, <1>3, <1>5, <1>6
  <2>4. d + 1 =< Behind'
    BY <1>1, <1>3, <1>6 DEF Dones
  <2> QED
    BY <1>1, <1>4, <2>2, <2>3, <2>4 DEF Dones, Off
<1>7. ASSUME Dones(0), op # "DONE" PROVE Dones(0)'
  <2>1. \A s \in UnreadSlots : msgBuf'[s].op # "DONE" /\ Off(s) < Behind'
    BY <1>1, <1>3, <1>7 DEF Dones
  <2>2. msgBuf'[msgAddr].op # "DONE" /\ Off(msgAddr) < Behind'
    BY <1>1, <1>3, <1>5, <1>7
  <2>3. \A s \in UnreadSlots' : msgBuf'[s].op # "DONE" /\ Off(s) < Behind' /\ Off(s) \in Int
    BY <1>1, <1>3, <2>1, <2>2
  <2>4. Behind' \in Int /\ 0 =< Behind'
    BY <1>1, <1>3
  <2>5. \A s \in UnreadSlots' : ~ (Off(s) >= Behind' - 0)
    BY <2>3, <2>4
  <2> QED
    BY <1>4, <2>3, <2>4, <2>5 DEF Dones, Off
<1>8. ASSUME NEW kind \in {"KEY", "KEYVAL"}, Kind(kind), op = "DONE" \/ (op = kind /\ k \in Keys)
      PROVE  Kind(kind)'
  BY <1>1, <1>5, <1>8 DEF Kind
<1> QED
  BY <1>6, <1>7, <1>8

(* What reading a message does to them.                                    *)
LEMMA NextMsgCounts ==
  ASSUME TypeOK, RingOK, NextMsg, UNCHANGED <<msgAddr, msgBuf>>
  PROVE  /\ \A d \in Nat : Dones(d) /\ FirstMsg.op = "DONE" => Behind = d /\ d > 0 /\ Dones(d - 1)'
         /\ \A d \in Nat : Dones(d) /\ FirstMsg.op # "DONE" => Behind > d /\ Dones(d)'
         /\ \A kind \in {"KEY", "KEYVAL"} :
              Kind(kind) => /\ Kind(kind)'
                            /\ FirstMsg.op # "DONE" => FirstMsg.op = kind /\ FirstMsg.key \in Keys
<1>1. /\ Behind > 0 /\ Behind' = Behind - 1
      /\ msgHead \in UnreadSlots /\ Off(msgHead) = 0
      /\ UnreadSlots' = UnreadSlots \ {msgHead}
      /\ \A s \in UnreadSlots' : Dist(msgHead', s) = Off(s) - 1
  BY NextMsgKeepsRing
<1>2. msgAddr \in Slot /\ msgHead \in Slot
  BY DEF TypeOK, DataPlaneTypeOK, ControllerTypeOK
<1>3. /\ Behind \in 0 .. MSGS - 1
      /\ \A s \in UnreadSlots : s \in Slot /\ Off(s) \in 0 .. MSGS - 1 /\ Off(s) < Behind
  BY <1>2, DistIs DEF Behind, Off, UnreadSlots
<1>4. FirstMsg = msgBuf[msgHead]
  BY DEF FirstMsg
<1>5. ASSUME NEW d \in Nat, Dones(d), FirstMsg.op = "DONE"
      PROVE  Behind = d /\ d > 0 /\ Dones(d - 1)'
  <2>1. d =< Behind /\ \A s \in UnreadSlots : msgBuf[s].op = "DONE" <=> Off(s) >= Behind - d
    BY <1>5 DEF Dones
  <2>2. 0 >= Behind - d
    BY <1>1, <1>4, <1>5, <2>1
  <2>3. Behind = d /\ d > 0
    BY <1>1, <1>3, <2>1, <2>2
  <2>4. \A s \in UnreadSlots' : msgBuf[s].op = "DONE" <=> Off(s) - 1 >= (Behind - 1) - (d - 1)
    <3>1. \A s \in UnreadSlots' : s \in UnreadSlots /\ s \in Slot /\ s # msgHead
      BY <1>1, <1>3
    <3>2. \A s \in UnreadSlots' : Off(s) # 0
      BY <1>1, <1>2, <3>1, DistIs DEF Off
    <3>3. \A s \in UnreadSlots' : Off(s) - 1 >= 0
      BY <1>3, <3>1, <3>2
    <3>4. \A s \in UnreadSlots' : msgBuf[s].op = "DONE"
      BY <1>3, <2>1, <2>3, <3>1
    <3>5. (Behind - 1) - (d - 1) = 0
      BY <1>3, <2>3
    <3> QED
      BY <3>3, <3>4, <3>5
  <2>5. d - 1 =< Behind - 1
    BY <1>3, <2>3
  <2> QED
    BY <1>1, <2>3, <2>4, <2>5 DEF Dones, Off
<1>6. ASSUME NEW d \in Nat, Dones(d), FirstMsg.op # "DONE"
      PROVE  Behind > d /\ Dones(d)'
  <2>1. d =< Behind /\ \A s \in UnreadSlots : msgBuf[s].op = "DONE" <=> Off(s) >= Behind - d
    BY <1>6 DEF Dones
  <2>2. ~ (0 >= Behind - d)
    BY <1>1, <1>4, <1>6, <2>1
  <2>3. Behind > d /\ d =< Behind - 1
    BY <1>3, <2>2
  <2>4. \A s \in UnreadSlots' : msgBuf[s].op = "DONE" <=> Off(s) - 1 >= (Behind - 1) - d
    BY <1>1, <1>3, <2>1
  <2> QED
    BY <1>1, <2>3, <2>4 DEF Dones, Off
<1>7. ASSUME NEW kind \in {"KEY", "KEYVAL"}, Kind(kind)
      PROVE  /\ Kind(kind)'
             /\ FirstMsg.op # "DONE" => FirstMsg.op = kind /\ FirstMsg.key \in Keys
  BY <1>1, <1>4, <1>7 DEF Kind
<1> QED
  BY <1>5, <1>6, <1>7

(* Nothing is read and nothing is sent.                                    *)
LEMMA RingUntouched ==
  ASSUME RingOK, UNCHANGED <<msgHead, msgTail, msgAddr, msgBuf, cq>>
  PROVE  /\ RingOK' /\ Behind' = Behind /\ UnreadSlots' = UnreadSlots /\ Reported' = Reported
         /\ \A d \in Nat : Dones(d) => Dones(d)'
         /\ \A kind \in {"KEY", "KEYVAL"} : Kind(kind) => Kind(kind)'
<1>1. Behind' = Behind /\ UnreadSlots' = UnreadSlots
  BY DEF Behind, Off, UnreadSlots
<1> QED
  BY <1>1 DEF RingOK, Off, Dones, Kind, Reported

-----------------------------------------------------------------------------
(***************************************************************************)
(* The queues.                                                             *)
(***************************************************************************)

(* What a sequence without its head holds.                                 *)
LEMMA TailIs ==
  ASSUME NEW S, NEW q \in Seq(S), q # <<>>
  PROVE  /\ Tail(q) \in Seq(S) /\ Head(q) \in S /\ Head(q) = q[1] /\ 1 \in 1 .. Len(q)
         /\ Len(q) \in Nat /\ Len(Tail(q)) = Len(q) - 1
         /\ \A i \in 1 .. Len(q) - 1 : Tail(q)[i] = q[i + 1] /\ i + 1 \in 1 .. Len(q)
  OBVIOUS

(* What a sequence with one more element holds.                            *)
LEMMA AppendIs ==
  ASSUME NEW S, NEW q \in Seq(S), NEW m \in S
  PROVE  /\ Append(q, m) \in Seq(S) /\ q \o <<m>> = Append(q, m)
         /\ Len(q) \in Nat /\ Len(Append(q, m)) = Len(q) + 1
         /\ \A i \in 1 .. Len(q) : Append(q, m)[i] = q[i]
         /\ Append(q, m)[Len(q) + 1] = m
  OBVIOUS

(* A sequence without its head holds no other packets.                     *)
LEMMA OpsOfTail ==
  ASSUME NEW S, NEW q \in Seq(S), q # <<>>
  PROVE  /\ Ops(q) = Ops(Tail(q)) \cup {Head(q).op}
         /\ \A op : Once(q, op) => Once(Tail(q), op) /\ (Head(q).op = op => op \notin Ops(Tail(q)))
<1>1. /\ Head(q) = q[1] /\ 1 \in 1 .. Len(q) /\ Len(q) \in Nat /\ Len(Tail(q)) = Len(q) - 1
      /\ \A i \in 1 .. Len(q) - 1 : Tail(q)[i] = q[i + 1] /\ i + 1 \in 1 .. Len(q)
  BY TailIs
<1>2. \A i \in 1 .. Len(q) : i = 1 \/ (i - 1 \in 1 .. Len(q) - 1 /\ (i - 1) + 1 = i)
  BY <1>1
<1> DEFINE t == Tail(q)
           n == Len(q)
<1> HIDE DEF t, n
<1>3. /\ Len(t) = n - 1 /\ \A i \in 1 .. n - 1 : t[i] = q[i + 1] /\ i + 1 \in 1 .. n
      /\ Head(q) = q[1] /\ 1 \in 1 .. n /\ n \in Nat /\ n = Len(q)
      /\ \A i \in 1 .. n : i = 1 \/ (i - 1 \in 1 .. n - 1 /\ (i - 1) + 1 = i)
  BY <1>1, <1>2 DEF t, n
<1>4. Ops(q) = Ops(t) \cup {Head(q).op}
  <2>1. ASSUME NEW i \in 1 .. n - 1 PROVE t[i].op \in Ops(q)
    <3>1. t[i] = q[i + 1] /\ i + 1 \in 1 .. Len(q)
      BY <1>3
    <3> QED
      BY <3>1 DEF Ops
  <2>2. Head(q).op \in Ops(q)
    BY <1>3 DEF Ops
  <2>3. ASSUME NEW i \in 1 .. n PROVE q[i].op \in Ops(t) \cup {Head(q).op}
    <3>1. CASE i = 1
      BY <1>3, <3>1
    <3>2. CASE i # 1
      <4>1. i - 1 \in 1 .. n - 1 /\ t[i - 1] = q[i]
        BY <1>3, <3>2
      <4>2. i - 1 \in 1 .. Len(t)
        BY <1>3, <4>1
      <4>3. t[i - 1].op \in Ops(t)
        BY <4>2 DEF Ops
      <4> QED
        BY <4>1, <4>3
    <3> QED
      BY <3>1, <3>2
  <2>4. PICK U : U = Ops(t) \cup {Head(q).op}
    OBVIOUS
  <2>5. Ops(q) \subseteq U
    BY <1>3, <2>3, <2>4 DEF Ops
  <2>6. Ops(t) \subseteq Ops(q)
    <3>1. ASSUME NEW op \in Ops(t) PROVE op \in Ops(q)
      <4>1. PICK i \in 1 .. Len(t) : op = t[i].op
        BY <3>1 DEF Ops
      <4> QED
        BY <1>3, <2>1, <4>1
    <3> QED
      BY <3>1
  <2> QED
    BY <2>2, <2>4, <2>5, <2>6
<1>5. ASSUME NEW op, Once(q, op) PROVE Once(t, op) /\ (Head(q).op = op => op \notin Ops(t))
  <2>1. ASSUME NEW i \in 1 .. n - 1, NEW j \in 1 .. n - 1, t[i].op = op, t[j].op = op
        PROVE  i = j
    <3>1. i + 1 = j + 1
      BY <1>3, <1>5, <2>1 DEF Once
    <3> QED
      BY <3>1
  <2>2. ASSUME Head(q).op = op, NEW i \in 1 .. n - 1, t[i].op = op
        PROVE  FALSE
    <3>1. i + 1 = 1
      BY <1>3, <1>5, <2>2 DEF Once
    <3> QED
      BY <3>1
  <2> QED
    BY <1>3, <2>1, <2>2 DEF Once, Ops
<1> QED
  BY <1>4, <1>5 DEF t

(* What one packet more adds.                                              *)
LEMMA OpsOfAppend ==
  ASSUME NEW S, NEW q \in Seq(S), NEW m \in S
  PROVE  /\ Ops(Append(q, m)) = Ops(q) \cup {m.op}
         /\ \A op : Once(q, op) /\ (m.op = op => op \notin Ops(q)) => Once(Append(q, m), op)
<1> DEFINE t == Append(q, m)
           n == Len(q)
<1>1. /\ n \in Nat /\ Len(t) = n + 1 /\ t[n + 1] = m /\ n = Len(q)
      /\ \A i \in 1 .. n : t[i] = q[i] /\ i \in 1 .. n + 1
  BY AppendIs
<1> HIDE DEF t, n
<1>2. \A i \in 1 .. n + 1 : i = n + 1 \/ i \in 1 .. n
  BY <1>1
<1>3. Ops(t) = Ops(q) \cup {m.op}
  <2>1. \A i \in 1 .. n + 1 : t[i].op \in Ops(q) \cup {m.op}
    BY <1>1, <1>2 DEF Ops
  <2>2. n + 1 \in 1 .. n + 1
    BY <1>1
  <2>3. m.op \in Ops(t)
    BY <1>1, <2>2 DEF Ops
  <2>4. Ops(q) \subseteq Ops(t)
    BY <1>1 DEF Ops
  <2>5. Ops(t) \subseteq Ops(q) \cup {m.op}
    BY <1>1, <2>1 DEF Ops
  <2> QED
    BY <2>3, <2>4, <2>5
<1>4. ASSUME NEW op, Once(q, op), m.op = op => op \notin Ops(q) PROVE Once(t, op)
  <2>1. ASSUME NEW i \in 1 .. n + 1, NEW j \in 1 .. n + 1, t[i].op = op, t[j].op = op
        PROVE  i = j
    <3>1. CASE i = n + 1 /\ j = n + 1
      BY <3>1
    <3>2. CASE i \in 1 .. n /\ j \in 1 .. n
      BY <1>1, <1>4, <2>1, <3>2 DEF Once
    <3>3. CASE i = n + 1 /\ j \in 1 .. n
      BY <1>1, <1>4, <2>1, <3>3 DEF Ops
    <3>4. CASE i \in 1 .. n /\ j = n + 1
      BY <1>1, <1>4, <2>1, <3>4 DEF Ops
    <3> QED
      BY <1>2, <3>1, <3>2, <3>3, <3>4
  <2> QED
    BY <1>1, <2>1 DEF Once
<1> QED
  BY <1>3, <1>4 DEF t

(* The next request leaves the link.                                       *)
LEMMA RequestLeaves ==
  ASSUME TypeOK, RequestsInOrder, hostQ # <<>>, hostQ' = Tail(hostQ)
  PROVE  /\ RequestsInOrder' /\ hostQ' \in Seq(Request)
         /\ Head(hostQ) \in Request /\ Head(hostQ).op \in Ops(hostQ)
         /\ Ops(hostQ) = Ops(hostQ') \cup {Head(hostQ).op}
         /\ Head(hostQ).op = "RST_START" => Ops(hostQ') \subseteq {"RST", "PUSH"}
         /\ Head(hostQ).op # "RST" => "START" \notin Ops(hostQ')
         /\ Head(hostQ).op = "PUSH" => "PUSH" \notin Ops(hostQ')
<1>1. hostQ \in Seq(Request)
  BY DEF TypeOK, WireTypeOK
<1> DEFINE q == hostQ
           t == hostQ'
<1>2. /\ t \in Seq(Request) /\ Head(q) \in Request
      /\ Ops(q) = Ops(t) \cup {Head(q).op}
      /\ \A op : Once(q, op) => Once(t, op) /\ (Head(q).op = op => op \notin Ops(t))
  BY <1>1, TailIs, OpsOfTail
<1>3. PICK n \in Nat : n + 1 = Len(q)
  <2>1. Len(q) \in Nat \ {0} /\ (Len(q) - 1) + 1 = Len(q) /\ Len(q) - 1 \in Nat
    BY <1>1
  <2> QED
    BY <2>1
<1>4. Len(t) = n /\ Head(q) = q[1] /\ \A i \in 1 .. n : t[i] = q[i + 1]
  BY <1>1, <1>3
<1>5. /\ \A i \in 1 .. n + 1 :
           q[i].op \in {"START", "COL", "QRY_KEY"} =>
             \E j \in i + 1 .. n + 1 : q[j].op = "RST_START"
      /\ \A i \in 1 .. n + 1 :
           q[i].op = "START" => \A j \in 1 .. i - 1 : q[j].op = "RST"
      /\ Once(q, "RST_START") /\ Once(q, "PUSH")
  BY <1>3 DEF RequestsInOrder
<1>6. Ops(t) = {t[i].op : i \in 1 .. n} /\ \A i \in 1 .. n : t[i] \in Request
  BY <1>2, <1>4 DEF Ops
<1> HIDE DEF q, t
<1>7. ASSUME NEW i \in 1 .. n, t[i].op \in {"START", "COL", "QRY_KEY"}
      PROVE  \E j \in i + 1 .. n : t[j].op = "RST_START"
  <2>1. i + 1 \in 1 .. n + 1 /\ q[i + 1] = t[i]
    BY <1>3, <1>4
  <2>2. PICK j \in (i + 1) + 1 .. n + 1 : q[j].op = "RST_START"
    BY <1>5, <1>7, <2>1
  <2>3. j - 1 \in 1 .. n /\ j - 1 \in i + 1 .. n /\ (j - 1) + 1 = j
    BY <1>3, <2>2
  <2>4. t[j - 1] = q[j]
    BY <1>4, <2>3
  <2> QED
    BY <2>2, <2>3, <2>4
<1>8. ASSUME NEW i \in 1 .. n, t[i].op = "START"
      PROVE  Head(q).op = "RST" /\ \A j \in 1 .. i - 1 : t[j].op = "RST"
  <2>1. i + 1 \in 1 .. n + 1 /\ q[i + 1] = t[i] /\ 1 \in 1 .. (i + 1) - 1
    BY <1>3, <1>4
  <2>2. \A j \in 1 .. (i + 1) - 1 : q[j].op = "RST"
    BY <1>5, <1>8, <2>1
  <2>3. \A j \in 1 .. i - 1 : j \in 1 .. n /\ j + 1 \in 1 .. (i + 1) - 1
    BY <1>3
  <2> QED
    BY <1>4, <2>1, <2>2, <2>3
<1>9. ASSUME Head(q).op = "RST_START" PROVE Ops(t) \subseteq {"RST", "PUSH"}
  <2>1. "RST_START" \notin Ops(t)
    BY <1>2, <1>5, <1>9
  <2>2. ASSUME NEW i \in 1 .. n PROVE t[i].op \in {"RST", "PUSH"}
    <3>1. t[i].op \in {"START", "COL", "RST_START", "RST", "PUSH", "QRY_KEY"}
      BY <1>6 DEF Request, KeylessOps
    <3>2. t[i].op # "RST_START"
      BY <1>6, <2>1
    <3>3. t[i].op \notin {"START", "COL", "QRY_KEY"}
      <4> SUFFICES ASSUME t[i].op \in {"START", "COL", "QRY_KEY"} PROVE FALSE
        OBVIOUS
      <4>1. PICK j \in i + 1 .. n : t[j].op = "RST_START"
        BY <1>7
      <4>2. j \in 1 .. n
        BY <4>1
      <4> QED
        BY <1>6, <2>1, <4>1, <4>2
    <3> QED
      BY <3>1, <3>2, <3>3
  <2> QED
    BY <1>6, <2>2
<1>10. Head(q).op # "RST" => "START" \notin Ops(t)
  BY <1>6, <1>8
<1>11. Once(t, "RST_START") /\ Once(t, "PUSH") /\ (Head(q).op = "PUSH" => "PUSH" \notin Ops(t))
  BY <1>2, <1>5
<1>12. RequestsInOrder'
  BY <1>4, <1>7, <1>8, <1>11 DEF RequestsInOrder, t
<1> QED
  BY <1>2, <1>9, <1>10, <1>11, <1>12 DEF q, t

(* Without a host RST_START nothing that collects is on the link.          *)
LEMMA NoRstStartIsCalm ==
  ASSUME TypeOK, RequestsInOrder, "RST_START" \notin Ops(hostQ)
  PROVE  Ops(hostQ) \subseteq {"RST", "PUSH"}
<1> SUFFICES ASSUME NEW i \in 1 .. Len(hostQ) PROVE hostQ[i].op \in {"RST", "PUSH"}
  BY DEF Ops
<1>1. hostQ \in Seq(Request)
  BY DEF TypeOK, WireTypeOK
<1>2. hostQ[i] \in Request /\ Len(hostQ) \in Nat
  BY <1>1
<1>3. hostQ[i].op \in {"START", "COL", "RST_START", "RST", "PUSH", "QRY_KEY"}
  BY <1>2 DEF Request, KeylessOps
<1>4. hostQ[i].op # "RST_START"
  BY DEF Ops
<1>5. hostQ[i].op \notin {"START", "COL", "QRY_KEY"}
  <2> SUFFICES ASSUME hostQ[i].op \in {"START", "COL", "QRY_KEY"} PROVE FALSE
    OBVIOUS
  <2>1. PICK j \in i + 1 .. Len(hostQ) : hostQ[j].op = "RST_START"
    BY DEF RequestsInOrder
  <2>2. j \in 1 .. Len(hostQ)
    BY <1>2, <2>1
  <2> QED
    BY <2>1, <2>2 DEF Ops
<1> QED
  BY <1>3, <1>4, <1>5

(* What a packet goes round as, in a pass that reports no key.             *)
Goes(out, op) == \E m \in Mirrored : m.op = op /\ out = << m >>

Round(out) ==
  \/ out = <<>>
  \/ \E op \in {"COL", "RST_START", "RST"} : Goes(out, op)

KeysIn(q) == {i \in 1 .. Len(q) : q[i].op = "KEY"}

(* A packet goes round at the end of what is left of the mirror queue.     *)
Onto(t, q, m) == t = Append(q, m)

LEMMA GoRound ==
  ASSUME NEW q \in Seq(Mirrored), NEW m \in Mirrored, m.op \in {"COL", "RST_START", "RST"},
         m.op = "RST_START" => "RST_START" \notin Ops(q), Once(q, "RST_START"),
         NEW t, Onto(t, q, m)
  PROVE  /\ t \in Seq(Mirrored) /\ Once(t, "RST_START") /\ Ops(t) = Ops(q) \cup {m.op}
         /\ KeysIn(t) = KeysIn(q) /\ \A i \in KeysIn(q) : t[i] = q[i]
<1> DEFINE n == Len(q)
           op == m.op
<1>1. m \in Mirrored /\ op \in {"COL", "RST_START", "RST"}
  OBVIOUS
<1>2. t = Append(q, m)
  BY DEF Onto
<1>3. n \in Nat
  OBVIOUS
<1>4. t \in Seq(Mirrored) /\ Len(t) = n + 1 /\ t[n + 1] = m /\ \A i \in 1 .. n : t[i] = q[i]
  BY <1>1, <1>2, AppendIs
<1>5. Ops(t) = Ops(q) \cup {op} /\ Once(t, "RST_START")
  BY <1>1, <1>2, OpsOfAppend
<1> HIDE DEF n
<1>6. \A i \in 1 .. n + 1 : i = n + 1 \/ i \in 1 .. n
  BY <1>3
<1>7. \A i \in 1 .. n : i \in 1 .. n + 1
  BY <1>3
<1>8. KeysIn(t) = KeysIn(q) /\ \A i \in KeysIn(q) : t[i] = q[i]
  BY <1>1, <1>4, <1>6, <1>7 DEF KeysIn, n
<1> QED
  BY <1>4, <1>5, <1>8

(* What is left of the mirror queue when its head is taken.                *)
LEMMA MirrorLeaves ==
  ASSUME NEW q \in Seq(Mirrored), q # <<>>, Once(q, "RST_START"), NEW t, t = Tail(q)
  PROVE  /\ t \in Seq(Mirrored) /\ Once(t, "RST_START") /\ Head(q) \in Mirrored
         /\ Ops(q) = Ops(t) \cup {Head(q).op}
         /\ Head(q).op = "RST_START" => "RST_START" \notin Ops(t)
         /\ \A i \in KeysIn(t) : i + 1 \in KeysIn(q) /\ t[i] = q[i + 1]
<1>1. t \in Seq(Mirrored) /\ Head(q) \in Mirrored
  BY TailIs
<1>2. /\ Ops(q) = Ops(t) \cup {Head(q).op} /\ Once(t, "RST_START")
      /\ Head(q).op = "RST_START" => "RST_START" \notin Ops(t)
  BY OpsOfTail
<1>3. Len(t) = Len(q) - 1 /\ \A i \in 1 .. Len(q) - 1 : t[i] = q[i + 1] /\ i + 1 \in 1 .. Len(q)
  BY TailIs
<1>4. \A i \in KeysIn(t) : i + 1 \in KeysIn(q) /\ t[i] = q[i + 1]
  BY <1>3 DEF KeysIn
<1> QED
  BY <1>1, <1>2, <1>4

(* A packet from the link or from the mirror goes round, or ends.          *)
LEMMA MirrorPass ==
  ASSUME TypeOK, MirrorOK, NEW src \in Sources, Arrived(src) # <<>>, NEW out, Round(out),
         Pass(src, out),
         Goes(out, "RST_START") => "RST_START" \notin Ops(mirrorQ)
  PROVE  /\ MirrorOK' /\ mirrorQ' \in Seq(Mirrored)
         /\ out = <<>> => Ops(mirrorQ') \subseteq Ops(mirrorQ)
         /\ \A op \in {"COL", "RST_START", "RST"} :
              Goes(out, op) => Ops(mirrorQ') \subseteq Ops(mirrorQ) \cup {op}
         /\ /\ src = "mirror" /\ Head(mirrorQ).op = "RST_START"
            /\ ~Goes(out, "RST_START")
            => "RST_START" \notin Ops(mirrorQ')
         /\ LET s == IF src = "host" THEN 0 ELSE 1
            IN  \A i \in Reporting' : i + s \in Reporting /\ mirrorQ'[i] = mirrorQ[i + s]
<1>1. mirrorQ \in Seq(Mirrored)
  BY DEF TypeOK, DataPlaneTypeOK
<1>2. Once(mirrorQ, "RST_START") /\ Ops(mirrorQ) \subseteq {"COL", "RST_START", "RST", "KEY"}
  BY DEF MirrorOK
<1> DEFINE q == IF src = "mirror" THEN Tail(mirrorQ) ELSE mirrorQ
           s == IF src = "host" THEN 0 ELSE 1
<1>3. /\ q \in Seq(Mirrored) /\ Once(q, "RST_START") /\ Ops(q) \subseteq Ops(mirrorQ)
      /\ src = "mirror" /\ Head(mirrorQ).op = "RST_START" => "RST_START" \notin Ops(q)
      /\ \A i \in KeysIn(q) : i + s \in KeysIn(mirrorQ) /\ q[i] = mirrorQ[i + s]
  <2>1. CASE src = "mirror"
    <3>1. mirrorQ # <<>> /\ q = Tail(mirrorQ) /\ s = 1
      BY <2>1 DEF Arrived
    <3> DEFINE t == Tail(mirrorQ)
    <3>2. Once(mirrorQ, "RST_START")
      BY <1>2
    <3>3. /\ t \in Seq(Mirrored) /\ Once(t, "RST_START")
          /\ Ops(mirrorQ) = Ops(t) \cup {Head(mirrorQ).op}
          /\ Head(mirrorQ).op = "RST_START" => "RST_START" \notin Ops(t)
          /\ \A i \in KeysIn(t) : i + 1 \in KeysIn(mirrorQ) /\ t[i] = mirrorQ[i + 1]
      BY <1>1, <3>1, <3>2, MirrorLeaves
    <3> HIDE DEF t
    <3>4. q = t /\ s = 1
      BY <3>1 DEF t
    <3> HIDE DEF q, s
    <3> QED
      BY <3>3, <3>4
  <2>2. CASE src # "mirror"
    <3>1. q = mirrorQ /\ s = 0
      BY <2>2 DEF Sources
    <3>2. \A i \in KeysIn(mirrorQ) : i + 0 = i
      BY DEF KeysIn
    <3> QED
      BY <1>1, <1>2, <2>2, <3>1, <3>2
  <2> QED
    BY <2>1, <2>2
<1>4. mirrorQ' = q \o out
  BY DEF Pass
<1> HIDE DEF q, s
<1>5. Reporting' = KeysIn(mirrorQ') /\ Reporting = KeysIn(mirrorQ)
  BY DEF Reporting, KeysIn
<1>6. CASE out = <<>>
  <2>1. mirrorQ' = q
    BY <1>3, <1>4, <1>6
  <2>2. \A op \in {"COL", "RST_START", "RST"} : ~Goes(out, op)
    BY <1>6 DEF Goes
  <2> QED
    BY <1>2, <1>3, <1>5, <2>1, <2>2 DEF MirrorOK, s
<1>7. ASSUME NEW op \in {"COL", "RST_START", "RST"}, Goes(out, op)
      PROVE  /\ MirrorOK' /\ mirrorQ' \in Seq(Mirrored) /\ out # <<>>
             /\ Ops(mirrorQ') \subseteq Ops(mirrorQ) \cup {op}
             /\ \A o \in {"COL", "RST_START", "RST"} : Goes(out, o) => o = op
             /\ op # "RST_START" /\ "RST_START" \notin Ops(q) => "RST_START" \notin Ops(mirrorQ')
             /\ \A i \in Reporting' : i + s \in Reporting /\ mirrorQ'[i] = mirrorQ[i + s]
  <2>1. op = "RST_START" => "RST_START" \notin Ops(q)
    BY <1>3, <1>7
  <2>a. PICK m \in Mirrored : m.op = op /\ out = << m >>
    BY <1>7 DEF Goes
  <2>2. mirrorQ' = Append(q, m)
    <3>1. q \o <<m>> = Append(q, m)
      BY <1>3
    <3> QED
      BY <1>4, <2>a, <3>1
  <2>3. /\ mirrorQ' \in Seq(Mirrored) /\ Once(mirrorQ', "RST_START") /\ Ops(mirrorQ') = Ops(q) \cup {op}
        /\ KeysIn(mirrorQ') = KeysIn(q) /\ \A i \in KeysIn(q) : mirrorQ'[i] = q[i]
    <3>1. q \in Seq(Mirrored)
      BY <1>3
    <3>2. Once(q, "RST_START")
      BY <1>3
    <3>3. Onto(mirrorQ', q, m)
      BY <2>2 DEF Onto
    <3> QED
      BY <2>1, <2>a, <3>1, <3>2, <3>3, GoRound
  <2>4. out # <<>> /\ \A o \in {"COL", "RST_START", "RST"} : Goes(out, o) => o = op
    BY <2>a DEF Goes
  <2> QED
    BY <1>2, <1>3, <1>5, <2>3, <2>4 DEF MirrorOK
<1> QED
  BY <1>3, <1>6, <1>7 DEF Round, s

(* Reports that only move up, or that were there before, stay in order.    *)
LEMMA ReportsKept ==
  ASSUME ReportsOK, NEW s \in {0, 1},
         \A i \in Reporting' : i + s \in Reporting /\ mirrorQ'[i] = mirrorQ[i + s],
         \A t \in Reported' : t \in Reported /\ msgBuf'[t] = msgBuf[t],
         Overflowing \subseteq Overflowing',
         Reporting' # {} => pc' \in {"idle", "exit"}
  PROVE  ReportsOK'
<1>1. \A i \in Reporting' : i \in Int
  BY DEF Reporting
<1>2. ASSUME NEW i \in Reporting', NEW j \in Reporting', i + s = j + s PROVE i = j
  <2>1. i \in Int /\ j \in Int
    BY <1>1
  <2> QED
    BY <1>2, <2>1
<1>3. /\ Reporting' # {} => Reporting # {}
      /\ \A i \in Reporting' : mirrorQ'[i].key \in Overflowing'
      /\ \A t \in Reported' : msgBuf'[t].key \in Overflowing'
      /\ \A i, j \in Reporting' : mirrorQ'[i].key = mirrorQ'[j].key => i + s = j + s
      /\ \A t, u \in Reported' : msgBuf'[t].key = msgBuf'[u].key => t = u
      /\ \A i \in Reporting', t \in Reported' : mirrorQ'[i].key # msgBuf'[t].key
  BY DEF ReportsOK
<1> QED
  BY <1>2, <1>3 DEF ReportsOK

-----------------------------------------------------------------------------
(***************************************************************************)
(* The two copies, and the room in the ring and in the buffer.             *)
(***************************************************************************)

(* The collected copy is the other one, and START exchanges the two.       *)
LEMMA CopiesAre ==
  ASSUME NEW e \in 0 .. EpochMod - 1, NEW f, f = (e + 1) % EpochMod
  PROVE  /\ Copy(e) \in Copies /\ Copy(e + EpochMod - 1) = 1 - Copy(e)
         /\ f \in 0 .. EpochMod - 1 /\ f # e /\ Copy(f) = 1 - Copy(e)
<1>1. EpochMod \in Nat \ {0} /\ EpochMod % 2 = 0 /\ EpochMod # 1
  BY DataPlaneAssumption
<1>2. e \in Nat /\ e < EpochMod
  BY <1>1
<1>3. e % 2 \in {0, 1} /\ (e + EpochMod - 1) % 2 = 1 - (e % 2)
  BY <1>1, <1>2
<1>4. CASE e + 1 < EpochMod
  <2>1. f = e + 1
    BY <1>1, <1>2, <1>4
  <2>2. (e + 1) % 2 = 1 - (e % 2)
    BY <1>2
  <2>3. Copy(f) = 1 - (e % 2)
    BY <2>1, <2>2 DEF Copy
  <2>4. f \in 0 .. EpochMod - 1 /\ f # e
    BY <1>1, <1>2, <1>4, <2>1
  <2> QED
    BY <1>3, <2>3, <2>4 DEF Copy, Copies
<1>5. CASE e + 1 = EpochMod
  <2>1. f = 0
    BY <1>1, <1>5
  <2>2. e % 2 = 1 /\ 0 % 2 = 0 /\ e # 0
    BY <1>1, <1>2, <1>5
  <2> QED
    BY <1>1, <1>2, <1>3, <2>1, <2>2 DEF Copy, Copies
<1> QED
  BY <1>1, <1>2, <1>4, <1>5

(* Pigeonholes: different keys in n places are at most Cardinality(Keys).  *)
LEMMA PlacesOfKeys ==
  ASSUME IsFiniteSet(Keys), NEW n \in Nat, NEW f \in [1 .. n -> Keys],
         \A i, j \in 1 .. n : f[i] = f[j] => i = j
  PROVE  n =< Cardinality(Keys) /\ Cardinality(Keys) \in Nat
<1>1. f \in Injection(1 .. n, Keys)
  BY DEF Injection, IsInjective
<1>2. Cardinality(1 .. n) =< Cardinality(Keys)
  BY <1>1, FS_Injection
<1>3. Cardinality(1 .. n) = n
  BY FS_Interval
<1> QED
  BY <1>2, <1>3, FS_CardinalityType

(* The two copies of the registers, and how START swaps them.              *)
LEMMA TheCopies ==
  ASSUME TypeOK
  PROVE  /\ ActiveCopy \in Copies /\ ColCopy \in Copies /\ ColCopy # ActiveCopy
         /\ \A c \in Copies : c = ActiveCopy \/ c = ColCopy
         /\ epoch' = (epoch + 1) % EpochMod =>
              ActiveCopy' = ColCopy /\ ColCopy' = ActiveCopy /\ epoch' # epoch
<1>1. epoch \in 0 .. EpochMod - 1
  BY DEF TypeOK, DataPlaneTypeOK
<1>2. PICK f : f = (epoch + 1) % EpochMod
  OBVIOUS
<1>3. /\ Copy(epoch) \in Copies /\ Copy(epoch + EpochMod - 1) = 1 - Copy(epoch)
      /\ f \in 0 .. EpochMod - 1 /\ f # epoch /\ Copy(f) = 1 - Copy(epoch)
  BY <1>1, <1>2, CopiesAre
<1>4. PICK g : g = (f + 1) % EpochMod
  OBVIOUS
<1>5. Copy(f + EpochMod - 1) = 1 - Copy(f)
  BY <1>3, <1>4, CopiesAre
<1>6. epoch' = (epoch + 1) % EpochMod => ActiveCopy' = Copy(f) /\ ColCopy' = Copy(f + EpochMod - 1)
  BY <1>2 DEF ActiveCopy, ColCopy
<1>7. \A c \in Copies : 1 - c \in Copies /\ 1 - c # c /\ 1 - (1 - c) = c
  BY DEF Copies
<1>8. \A c, a \in Copies : c = a \/ c = 1 - a
  BY DEF Copies
<1>9. ActiveCopy = Copy(epoch) /\ ColCopy = 1 - ActiveCopy /\ ActiveCopy \in Copies
  BY <1>3 DEF ActiveCopy, ColCopy
<1>10. epoch' = (epoch + 1) % EpochMod => ActiveCopy' = 1 - ActiveCopy /\ ColCopy' = 1 - (1 - ActiveCopy)
  BY <1>3, <1>5, <1>6, <1>9
<1> QED
  BY <1>2, <1>3, <1>7, <1>8, <1>9, <1>10

(* The unread reports are of different keys.                               *)
LEMMA ReportsFit ==
  ASSUME TypeOK, IsFiniteSet(Keys), Kind("KEY"), ReportsOK, NEW d \in Nat, Dones(d)
  PROVE  Behind - d =< Cardinality(Keys) /\ Cardinality(Keys) \in Nat /\ Behind \in 0 .. MSGS - 1
<1>1. msgHead \in Slot /\ msgAddr \in Slot /\ MSGS \in Nat \ {0}
  BY WireAssumption DEF TypeOK, DataPlaneTypeOK, ControllerTypeOK
<1>2. Behind \in 0 .. MSGS - 1
  BY <1>1, DistIs DEF Behind, Off
<1>3. d =< Behind
  BY DEF Dones
<1> DEFINE n == Behind - d
           At(i) == IF msgHead + (i - 1) < MSGS THEN msgHead + (i - 1)
                                                ELSE msgHead + (i - 1) - MSGS
           f == [i \in 1 .. n |-> msgBuf[At(i)].key]
<1>4. \A i \in 1 .. n : At(i) \in Slot /\ Off(At(i)) = i - 1
  BY <1>1, <1>2, <1>3 DEF Slot, Off, Dist
<1>5. \A i \in 1 .. n : i - 1 < Behind /\ ~ (i - 1 >= Behind - d)
  BY <1>2, <1>3
<1> HIDE DEF At
<1>6. \A i \in 1 .. n : At(i) \in UnreadSlots
  BY <1>4, <1>5 DEF UnreadSlots
<1>7. \A i \in 1 .. n : msgBuf[At(i)].op # "DONE"
  BY <1>4, <1>5, <1>6 DEF Dones
<1>8. \A i \in 1 .. n : At(i) \in Reported /\ msgBuf[At(i)].key \in Keys
  BY <1>6, <1>7 DEF Kind, Reported
<1>9. f \in [1 .. n -> Keys]
  BY <1>8
<1>10. ASSUME NEW i \in 1 .. n, NEW j \in 1 .. n, f[i] = f[j]
       PROVE  i = j
  <2>1. At(i) = At(j)
    BY <1>8, <1>10 DEF ReportsOK
  <2>2. i - 1 = j - 1
    BY <1>4, <2>1
  <2> QED
    BY <2>2
<1>11. n \in Nat
  BY <1>2, <1>3
<1> HIDE DEF f, n
<1>12. n =< Cardinality(Keys) /\ Cardinality(Keys) \in Nat
  BY <1>9, <1>10, <1>11, PlacesOfKeys
<1> QED
  BY <1>2, <1>12 DEF n

(* A new key finds a place if there is one for every key.                  *)
LEMMA RoomForKey ==
  ASSUME TypeOK, IsFiniteSet(Keys), NoOverflow, BuffersOK, Marked, NEW k \in Keys,
         LooksNew(ActiveCopy, k)
  PROVE  ~BufferFull(ActiveCopy)
<1> SUFFICES ASSUME BufferFull(ActiveCopy) PROVE FALSE
  OBVIOUS
<1>1. ActiveCopy \in Copies /\ keyIdx[ActiveCopy] = NKEYS /\ NKEYS \in Nat \ {0}
  BY TheCopies, DataPlaneAssumption DEF BufferFull
<1> DEFINE b == keyBuf[ActiveCopy]
           f == [i \in 1 .. NKEYS + 1 |-> IF i =< NKEYS THEN b[i - 1] ELSE k]
<1>2. \A i \in 0 .. NKEYS - 1 : b[i] \in Keys /\ b[i] \in newKeys
  BY <1>1 DEF BuffersOK, Stored
<1>3. \A i, j \in 0 .. NKEYS - 1 : b[i] = b[j] => i = j
  BY <1>1 DEF BuffersOK
<1>4. k \notin newKeys
  BY DEF Marked
<1> HIDE DEF b
<1>5. \A i \in 1 .. NKEYS + 1 : \/ i =< NKEYS /\ i - 1 \in 0 .. NKEYS - 1
                                \/ i > NKEYS /\ i = NKEYS + 1
  BY <1>1
<1>6. f \in [1 .. NKEYS + 1 -> Keys]
  BY <1>1, <1>2, <1>5
<1>7. ASSUME NEW i \in 1 .. NKEYS + 1, NEW j \in 1 .. NKEYS + 1, f[i] = f[j]
      PROVE  i = j
  <2>1. CASE i =< NKEYS /\ j =< NKEYS
    <3>1. i - 1 = j - 1
      BY <1>1, <1>3, <1>5, <1>7, <2>1
    <3> QED
      BY <3>1
  <2>2. CASE i > NKEYS /\ j > NKEYS
    BY <1>1, <1>5, <2>2
  <2>3. CASE i =< NKEYS /\ j > NKEYS
    BY <1>1, <1>2, <1>4, <1>5, <1>7, <2>3
  <2>4. CASE i > NKEYS /\ j =< NKEYS
    BY <1>1, <1>2, <1>4, <1>5, <1>7, <2>4
  <2> QED
    BY <1>1, <1>5, <2>1, <2>2, <2>3, <2>4
<1>8. NKEYS + 1 \in Nat
  BY <1>1
<1> HIDE DEF f
<1>9. NKEYS + 1 =< Cardinality(Keys) /\ Cardinality(Keys) \in Nat
  BY <1>6, <1>7, <1>8, PlacesOfKeys
<1> QED
  BY <1>1, <1>9 DEF NoOverflow

-----------------------------------------------------------------------------
(***************************************************************************)
(* The stages.                                                             *)
(***************************************************************************)

(* A stage lasts while packets leave, or go round as others than an        *)
(* RST_START, and cells are only cleared.                                  *)
LEMMA StageLasts ==
  ASSUME Ops(hostQ)' \subseteq Ops(hostQ),
         Ops(mirrorQ)' \subseteq Ops(mirrorQ) \cup {"COL", "RST", "KEY"},
         UNCHANGED <<epoch, resetIdx>>, keyIdx'[ColCopy] = keyIdx[ColCopy],
         Behind = 0 => Behind' = 0,
         \A i \in Cell : ZeroAt(ColCopy, i) => ZeroAt(ColCopy, i)',
         NEW d, Stage(d)
  PROVE  Stage(d)'
<1>1. ColCopy' = ColCopy
  BY DEF ColCopy
<1>2. IsClean(ColCopy) => IsClean(ColCopy)'
  BY <1>1 DEF IsClean, ZeroAt
<1>3. Calm => Calm'
  BY <1>1 DEF Calm
<1>4. Collecting => Collecting'
  BY <1>1, <1>2 DEF Collecting
<1>5. Resetting => Resetting'
  BY <1>1, <1>3, DataPlaneAssumption DEF Resetting, Cell
<1>6. Cleared => Cleared'
  BY <1>2, <1>3 DEF Cleared
<1> QED
  BY <1>4, <1>5, <1>6 DEF Stage

(* So does what a phase assumes, when nothing is sent and nothing is read. *)
LEMMA PhaseLasts ==
  ASSUME PhaseOK, RingOK, UNCHANGED <<pc, msgHead, msgTail, msgAddr, msgBuf, cq>>,
         Ops(hostQ)' \subseteq Ops(hostQ),
         Ops(mirrorQ)' \subseteq Ops(mirrorQ) \cup {"COL", "RST", "KEY"},
         UNCHANGED <<epoch, resetIdx>>, keyIdx'[ColCopy] = keyIdx[ColCopy],
         \A i \in Cell : ZeroAt(ColCopy, i) => ZeroAt(ColCopy, i)'
  PROVE  PhaseOK' /\ RingOK' /\ Behind' = Behind /\ Reported' = Reported
<1>1. /\ RingOK' /\ Behind' = Behind /\ Reported' = Reported
      /\ \A d \in Nat : Dones(d) => Dones(d)'
      /\ \A kind \in {"KEY", "KEYVAL"} : Kind(kind) => Kind(kind)'
  BY RingUntouched
<1>2. \A d : Stage(d) => Stage(d)'
  BY <1>1, StageLasts
<1>3. Cleared => Cleared'
  <2>1. Stage(2) => Stage(2)'
    BY <1>2
  <2> QED
    BY <2>1 DEF Stage
<1>4. Dones(0) => Dones(0)'
  BY <1>1
<1>5. Kind("KEY") => Kind("KEY")'
  BY <1>1
<1>6. Kind("KEYVAL") => Kind("KEYVAL")'
  BY <1>1
<1>7. \A d \in {0, 1, 2} : Dones(d) => Dones(d)'
  BY <1>1
<1>8. Dones(1 - 1) => Dones(1 - 1)'
  BY <1>4
<1>9. Dones(2 - 1) => Dones(2 - 1)'
  BY <1>7
<1>10. pc' = pc /\ keyIdx'[ColCopy'] = keyIdx[ColCopy]
  BY DEF ColCopy
<1> HIDE DEF PhaseOK
<1>11. pc' \in {"idle", "exit"} => Cleared' /\ Kind("KEY")' /\ Dones(0)'
  BY <1>3, <1>4, <1>5, <1>10 DEF PhaseOK
<1>12. pc' = "recvKeys" =>
         /\ Cleared' /\ Kind("KEY")'
         /\ \E d \in {0, 1} : Dones(d)' /\ (d = 1 => "PUSH" \notin Ops(hostQ)')
  <2> SUFFICES ASSUME pc' = "recvKeys"
               PROVE  /\ Cleared' /\ Kind("KEY")'
                      /\ \E d \in {0, 1} : Dones(d)' /\ (d = 1 => "PUSH" \notin Ops(hostQ)')
    OBVIOUS
  <2>1. PICK d \in {0, 1} : Dones(d) /\ (d = 1 => "PUSH" \notin Ops(hostQ))
    BY <1>10 DEF PhaseOK
  <2>2. Dones(d)' /\ (d = 1 => "PUSH" \notin Ops(hostQ)')
    BY <1>7, <2>1
  <2> QED
    BY <1>3, <1>5, <1>10, <2>2 DEF PhaseOK
<1>13. pc' \in {"waitVals", "recvVals"} =>
         /\ Kind("KEYVAL")'
         /\ \E d \in {0, 1, 2} : /\ Stage(d)' /\ Dones(d)'
                                 /\ Behind' - d + keyIdx'[ColCopy'] =< NKEYS
  <2> SUFFICES ASSUME pc' \in {"waitVals", "recvVals"}
               PROVE  /\ Kind("KEYVAL")'
                      /\ \E d \in {0, 1, 2} : /\ Stage(d)' /\ Dones(d)'
                                              /\ Behind' - d + keyIdx'[ColCopy'] =< NKEYS
    OBVIOUS
  <2>1. PICK d \in {0, 1, 2} : Stage(d) /\ Dones(d) /\ Behind - d + keyIdx[ColCopy] =< NKEYS
    BY <1>10 DEF PhaseOK
  <2>2. Stage(d)' /\ Dones(d)' /\ Behind' - d + keyIdx'[ColCopy'] =< NKEYS
    BY <1>1, <1>2, <1>7, <1>10, <2>1
  <2> QED
    BY <1>6, <1>10, <2>2 DEF PhaseOK
<1>14. pc' \in {"merge", "recvDone"} =>
         \E d \in {1, 2} : Stage(d)' /\ Dones(d - 1)' /\ Behind' = d - 1
  <2> SUFFICES ASSUME pc' \in {"merge", "recvDone"}
               PROVE  \E d \in {1, 2} : Stage(d)' /\ Dones(d - 1)' /\ Behind' = d - 1
    OBVIOUS
  <2>1. PICK d \in {1, 2} : Stage(d) /\ Dones(d - 1) /\ Behind = d - 1
    BY <1>10 DEF PhaseOK
  <2>2. d - 1 \in Nat
    BY <2>1
  <2>3. Stage(d)' /\ Dones(d - 1)' /\ Behind' = d - 1
    BY <1>1, <1>2, <2>1, <2>2
  <2> QED
    BY <2>3
<1> QED
  BY <1>1, <1>11, <1>12, <1>13, <1>14 DEF PhaseOK

(* The keys that were found new stay, while the buffers only shrink.       *)
LEMMA KeysKept ==
  ASSUME TypeOK, BuffersOK, Marked, UNCHANGED <<epoch, keyBuf, newKeys>>,
         \A c \in Copies : keyIdx'[c] =< keyIdx[c],
         keyIdx' \in [Copies -> 0 .. NKEYS],
         keyIdx'[ActiveCopy] = keyIdx[ActiveCopy],
         bfX'[ActiveCopy] = bfX[ActiveCopy], bfY'[ActiveCopy] = bfY[ActiveCopy]
  PROVE  /\ BuffersOK' /\ Marked' /\ Overflowing' = Overflowing /\ newKeys' \subseteq Keys
<1>1. ActiveCopy' = ActiveCopy /\ Stored(ActiveCopy)' = Stored(ActiveCopy)
  BY DEF ActiveCopy, Stored
<1>2. \A c \in Copies : keyIdx[c] \in 0 .. NKEYS /\ keyIdx'[c] \in 0 .. NKEYS /\ keyIdx'[c] =< keyIdx[c]
  BY DEF TypeOK, DataPlaneTypeOK
<1>3. \A c \in Copies : \A i \in 0 .. keyIdx'[c] - 1 : i \in 0 .. keyIdx[c] - 1
  BY <1>2, DataPlaneAssumption
<1>4. BuffersOK'
  BY <1>1, <1>3 DEF BuffersOK
<1>5. Marked'
  BY <1>1 DEF Marked, LooksNew
<1>6. Overflowing' = Overflowing /\ newKeys' \subseteq Keys
  BY <1>1 DEF Overflowing, TypeOK
<1> QED
  BY <1>4, <1>5, <1>6

-----------------------------------------------------------------------------
(***************************************************************************)
(* The packets that the links lose.                                        *)
(***************************************************************************)
LEMMA LoseRequestInStep ==
  ASSUME InStep, LoseRequest, UNCHANGED <<switchVars, controllerVars, historyVars>>
  PROVE  InStep'
<1> USE DEF InStep
<1>1. UNCHANGED <<msgBuf, epochData, cq>> /\ hostQ # <<>> /\ hostQ' = Tail(hostQ)
  BY DEF LoseRequest
<1>2. /\ RequestsInOrder' /\ hostQ' \in Seq(Request)
      /\ Ops(hostQ) = Ops(hostQ') \cup {Head(hostQ).op}
  BY <1>1, RequestLeaves
<1>3. TypeOK'
  BY <1>1, <1>2 DEF TypeOK, WireTypeOK, DataPlaneTypeOK, ControllerTypeOK, switchVars, controllerVars,
                    historyVars
<1>4. PhaseOK' /\ RingOK' /\ Reported' = Reported
  <2>1. /\ UNCHANGED <<pc, msgHead, msgTail, msgAddr, msgBuf, cq>> /\ UNCHANGED <<epoch, resetIdx>>
        /\ keyIdx' = keyIdx /\ mirrorQ' = mirrorQ
    BY <1>1 DEF switchVars, controllerVars
  <2>2. \A i \in Cell : ZeroAt(ColCopy, i) => ZeroAt(ColCopy, i)'
    BY DEF ZeroAt, ColCopy, switchVars
  <2> QED
    BY <1>2, <2>1, <2>2, PhaseLasts
<1>5. MirrorOK' /\ PushAwaited' /\ BuffersOK' /\ Marked'
  BY <1>2 DEF MirrorOK, PushAwaited, BuffersOK, Marked, LooksNew, Stored, ActiveCopy, switchVars,
              controllerVars, historyVars
<1>6. ReportsOK'
  BY <1>1, <1>4 DEF ReportsOK, Reporting, Overflowing, Stored, ActiveCopy, switchVars, controllerVars,
                    historyVars
<1> QED
  BY <1>2, <1>3, <1>4, <1>5, <1>6

(* A lost mirrored packet stops the reset, it breaks nothing.              *)
LEMMA LoseMirroredInStep ==
  ASSUME InStep, LoseMirrored, UNCHANGED <<controllerVars, historyVars>>
  PROVE  InStep'
<1> USE DEF InStep
<1>1. /\ mirrorQ # <<>> /\ mirrorQ' = Tail(mirrorQ)
      /\ UNCHANGED <<epoch, resetIdx, bfX, bfY, cmX, cmY, keyIdx, keyBuf, msgAddr>>
      /\ UNCHANGED <<hostQ, msgBuf, epochData, cq>>
      /\ UNCHANGED <<pc, msgHead, msgTail, overflowKeys, inserted, mergedData, abnormalKeys, curEpoch>>
      /\ UNCHANGED <<seen, newKeys, closed, window, switches>>
  BY DEF LoseMirrored, sketchVars, wireVars, controllerVars, historyVars
<1>2. mirrorQ \in Seq(Mirrored)
  BY DEF TypeOK, DataPlaneTypeOK
<1>3. Once(mirrorQ, "RST_START")
  BY DEF MirrorOK
<1> DEFINE t == Tail(mirrorQ)
<1>4. mirrorQ # <<>>
  BY <1>1
<1>5. /\ t \in Seq(Mirrored) /\ Once(t, "RST_START")
      /\ Ops(mirrorQ) = Ops(t) \cup {Head(mirrorQ).op}
      /\ \A i \in KeysIn(t) : i + 1 \in KeysIn(mirrorQ) /\ t[i] = mirrorQ[i + 1]
  BY <1>2, <1>3, <1>4, MirrorLeaves
<1>a. mirrorQ' = t
  BY <1>1
<1> HIDE DEF t
<1>6. TypeOK'
  BY <1>1, <1>a, <1>5 DEF TypeOK, WireTypeOK, DataPlaneTypeOK, ControllerTypeOK
<1>7. MirrorOK' /\ Ops(mirrorQ)' \subseteq Ops(mirrorQ)
  BY <1>1, <1>a, <1>5 DEF MirrorOK
<1>8. PhaseOK' /\ RingOK' /\ Reported' = Reported
  <2>1. /\ UNCHANGED <<pc, msgHead, msgTail, msgAddr, msgBuf, cq>> /\ UNCHANGED <<epoch, resetIdx>>
        /\ keyIdx' = keyIdx /\ hostQ' = hostQ
    BY <1>1
  <2>2. \A i \in Cell : ZeroAt(ColCopy, i) => ZeroAt(ColCopy, i)'
    BY <1>1 DEF ZeroAt, ColCopy
  <2> QED
    BY <1>7, <2>1, <2>2, PhaseLasts
<1>9. RequestsInOrder' /\ PushAwaited' /\ BuffersOK' /\ Marked' /\ Overflowing' = Overflowing
  BY <1>1 DEF RequestsInOrder, PushAwaited, BuffersOK, Marked, LooksNew, Stored, ActiveCopy, Overflowing
<1>10. ReportsOK'
  <2>1. \A i \in Reporting' : i + 1 \in Reporting /\ mirrorQ'[i] = mirrorQ[i + 1]
    BY <1>1, <1>a, <1>5 DEF Reporting, KeysIn
  <2>2. \A s \in Reported' : s \in Reported /\ msgBuf'[s] = msgBuf[s]
    BY <1>1, <1>8
  <2>3. Reporting' # {} => pc' \in {"idle", "exit"}
    BY <1>1, <2>1 DEF ReportsOK
  <2> QED
    BY <1>9, <2>1, <2>2, <2>3, ReportsKept
<1> QED
  BY <1>6, <1>7, <1>8, <1>9, <1>10

-----------------------------------------------------------------------------
(***************************************************************************)
(* The packets of the controller and of the mirror.                        *)
(***************************************************************************)

(* A query writes a value slot and nothing else.                           *)
LEMMA QueryInStep ==
  ASSUME InStep, Query
  PROVE  InStep'
<1> USE DEF InStep
<1>1. /\ hostQ # <<>> /\ Head(hostQ).op = "QRY_KEY" /\ hostQ' = Tail(hostQ)
      /\ mirrorQ' = mirrorQ \o <<>>
      /\ epochData' = [epochData EXCEPT ![Head(hostQ).key] = CmRead(ColCopy, Head(hostQ).key)]
      /\ UNCHANGED <<msgBuf, msgAddr, cq>>
      /\ UNCHANGED <<epoch, resetIdx, bfX, bfY, cmX, cmY, keyIdx, keyBuf>>
      /\ UNCHANGED <<pc, msgHead, msgTail, overflowKeys, inserted, mergedData, abnormalKeys, curEpoch>>
      /\ UNCHANGED <<seen, newKeys, closed, window, switches>>
  BY DEF Query, QueryKey, Arrives, Arrived, Pass, SendNothing, sketchVars, controllerVars, historyVars
<1>2. /\ RequestsInOrder' /\ hostQ' \in Seq(Request) /\ Head(hostQ) \in Request
      /\ Ops(hostQ) = Ops(hostQ') \cup {Head(hostQ).op}
  BY <1>1, RequestLeaves
<1>3. mirrorQ' = mirrorQ
  <2>1. mirrorQ \in Seq(Mirrored)
    BY DEF TypeOK, DataPlaneTypeOK
  <2> QED
    BY <1>1, <2>1
<1>4. epochData' \in [Keys -> Val]
  <2>1. Head(hostQ).key \in Keys
    BY <1>1, <1>2 DEF Request, KeylessOps
  <2>2. CmRead(ColCopy, Head(hostQ).key) \in Val
    <3>1. ColCopy \in Copies
      BY TheCopies
    <3>2. CmX[Head(hostQ).key] \in Cell /\ CmY[Head(hostQ).key] \in Cell
      BY <2>1, DataPlaneAssumption
    <3>3. cmX \in [Copies -> [Cell -> Val]] /\ cmY \in [Copies -> [Cell -> Val]]
      BY DEF TypeOK, DataPlaneTypeOK
    <3> QED
      BY <3>1, <3>2, <3>3 DEF CmRead
  <2> QED
    BY <1>1, <2>2 DEF TypeOK, WireTypeOK
<1>5. TypeOK'
  BY <1>1, <1>2, <1>3, <1>4 DEF TypeOK, WireTypeOK, DataPlaneTypeOK, ControllerTypeOK
<1>6. PhaseOK' /\ RingOK' /\ Reported' = Reported
  <2>1. /\ UNCHANGED <<pc, msgHead, msgTail, msgAddr, msgBuf, cq>> /\ UNCHANGED <<epoch, resetIdx>>
        /\ keyIdx' = keyIdx
    BY <1>1
  <2>2. \A i \in Cell : ZeroAt(ColCopy, i) => ZeroAt(ColCopy, i)'
    BY <1>1 DEF ZeroAt, ColCopy
  <2> QED
    BY <1>2, <1>3, <2>1, <2>2, PhaseLasts
<1>7. MirrorOK' /\ PushAwaited' /\ BuffersOK' /\ Marked' /\ ReportsOK'
  BY <1>1, <1>2, <1>3, <1>6 DEF MirrorOK, PushAwaited, BuffersOK, Marked, LooksNew, Stored, ActiveCopy,
                                ReportsOK, Reporting, Overflowing
<1> QED
  BY <1>2, <1>5, <1>6, <1>7

-----------------------------------------------------------------------------
(***************************************************************************)
(* The controller.                                                         *)
(***************************************************************************)

(* With nothing to read any kind of message may be next.                   *)
LEMMA EmptyRing ==
  TypeOK /\ Behind = 0 => /\ UnreadSlots = {} /\ Reported = {} /\ Dones(0)
                          /\ Kind("KEY") /\ Kind("KEYVAL")
<1> SUFFICES ASSUME TypeOK, Behind = 0
             PROVE  /\ UnreadSlots = {} /\ Reported = {} /\ Dones(0)
                    /\ Kind("KEY") /\ Kind("KEYVAL")
  OBVIOUS
<1>1. msgHead \in Slot
  BY DEF TypeOK, ControllerTypeOK
<1>2. \A s \in Slot : Off(s) \in 0 .. MSGS - 1
  BY <1>1, DistIs DEF Off
<1>3. UnreadSlots = {}
  BY <1>2, WireAssumption DEF UnreadSlots
<1> QED
  BY <1>3 DEF Reported, Dones, Kind

(* Nothing orders resets and a PUSH.                                       *)
LEMMA PlainInOrder ==
  ASSUME Ops(hostQ)' \subseteq {"RST", "PUSH"}, Once(hostQ', "PUSH")
  PROVE  RequestsInOrder'
<1>1. \A i \in 1 .. Len(hostQ') : hostQ'[i].op \in {"RST", "PUSH"}
  BY DEF Ops
<1> QED
  BY <1>1 DEF RequestsInOrder, Once

-----------------------------------------------------------------------------
(***************************************************************************)
(* What is proved of the steps of the system does not depend on the flag   *)
(* that the requests of a query with a distinct filter carry.              *)
(***************************************************************************)
StartSwitchSending(m) ==
  /\ switches < MaxSwitch
  /\ Quiesced => mirrorQ = <<>>
  /\ SwitchWinSending(m)
  /\ switches' = switches + 1
  /\ UNCHANGED <<switchVars, seen, newKeys, closed, window>>

SameRequests(b) ==
  /\ b \in Seq(Request) /\ Len(b) = Len(RequestBatch)
  /\ \A i \in 1 .. Len(b) : b[i].op = RequestBatch[i].op /\ b[i].key = RequestBatch[i].key

SendRequestsLike(b) == SendRequestsOf(b) /\ UNCHANGED <<switchVars, historyVars>>

AnyStart == \E m \in Request : m.op = "PUSH" /\ StartSwitchSending(m)
AnySend == \E b : SameRequests(b) /\ SendRequestsLike(b)
AnyNext == Next \/ AnyStart \/ AnySend

(* A step in which nothing is lost.                                        *)
KeptNext ==
  \/ \E k \in Keys : Traffic(k)
  \/ FromHost
  \/ FromMirror
  \/ AnyStart
  \/ AnySend
  \/ Receive
  \/ MergeSubWindow
  \/ Quit
  \/ Stopped

-----------------------------------------------------------------------------
(* switchWin begins and sends the PUSH.                                    *)
LEMMA StartSwitchInStep ==
  ASSUME InStep, NEW m \in Request, m.op = "PUSH", StartSwitchSending(m)
  PROVE  InStep'
<1> USE DEF InStep
<1>1. /\ pc = "idle" /\ pc' = "recvKeys" /\ hostQ' = Append(hostQ, m)
      /\ overflowKeys' = <<>> /\ switches' = switches + 1 /\ switches < MaxSwitch
      /\ UNCHANGED <<msgBuf, epochData, cq, msgHead, msgTail, inserted, mergedData, abnormalKeys, curEpoch>>
      /\ UNCHANGED <<epoch, resetIdx, bfX, bfY, keyIdx, keyBuf, cmX, cmY, msgAddr, mirrorQ>>
      /\ UNCHANGED <<seen, newKeys, closed, window>>
      /\ Quiesced => mirrorQ = <<>>
  BY DEF StartSwitchSending, SwitchWinSending, Goto, switchVars
<1>2. hostQ \in Seq(Request) /\ m \in Request /\ m.op = "PUSH"
  BY DEF TypeOK, WireTypeOK
<1>3. "PUSH" \notin Ops(hostQ)
  BY <1>1 DEF PushAwaited
<1>4. Cleared /\ Kind("KEY") /\ Dones(0)
  BY <1>1 DEF PhaseOK
<1>5. /\ hostQ' \in Seq(Request) /\ Ops(hostQ)' = Ops(hostQ) \cup {"PUSH"} /\ Once(hostQ', "PUSH")
  <2>1. Once(hostQ, "PUSH")
    BY DEF RequestsInOrder
  <2> QED
    BY <1>1, <1>2, <1>3, <2>1, AppendIs, OpsOfAppend
<1>6. RequestsInOrder' /\ Ops(hostQ)' \subseteq {"RST", "PUSH"}
  BY <1>4, <1>5, PlainInOrder DEF Cleared, Calm
<1>7. TypeOK'
  <2>1. switches' \in 0 .. MaxSwitch
    BY <1>1, OmniWindowAssumption DEF TypeOK
  <2> QED
    BY <1>1, <1>5, <2>1, SMTT(20) DEF TypeOK, WireTypeOK, DataPlaneTypeOK, ControllerTypeOK, Phases
<1>8. RingOK' /\ Reported' = Reported /\ Dones(0)' /\ Kind("KEY")'
  BY <1>1, <1>4, RingUntouched
<1>9. Cleared'
  BY <1>1, <1>4, <1>6 DEF Cleared, Calm, IsClean, ColCopy
<1>10. PhaseOK'
  BY <1>1, <1>8, <1>9 DEF PhaseOK
<1>11. MirrorOK' /\ PushAwaited' /\ BuffersOK' /\ Marked'
  BY <1>1 DEF MirrorOK, PushAwaited, BuffersOK, Marked, LooksNew, Stored, ActiveCopy
<1>12. Reporting = {}
  BY <1>1 DEF ReportsOK, Reporting
<1>13. ReportsOK'
  BY <1>1, <1>8, <1>12 DEF ReportsOK, Reporting, Overflowing, Stored, ActiveCopy
<1> QED
  BY <1>6, <1>7, <1>8, <1>10, <1>11, <1>13

(* The controller leaves its loop.                                         *)
LEMMA QuitInStep ==
  ASSUME InStep, Quit
  PROVE  InStep'
<1> USE DEF InStep
<1>1. /\ pc = "idle" /\ pc' = "exit"
      /\ UNCHANGED <<hostQ, msgBuf, epochData, cq>>
      /\ UNCHANGED <<msgHead, msgTail, overflowKeys, inserted, mergedData, abnormalKeys, curEpoch>>
      /\ UNCHANGED <<epoch, resetIdx, bfX, bfY, keyIdx, keyBuf, cmX, cmY, msgAddr, mirrorQ>>
      /\ UNCHANGED <<seen, newKeys, closed, window, switches>>
  BY DEF Quit, Exit, Goto, wireVars, switchVars, historyVars
<1>2. Cleared /\ Kind("KEY") /\ Dones(0)
  BY <1>1 DEF PhaseOK
<1>3. RingOK' /\ Reported' = Reported /\ Dones(0)' /\ Kind("KEY")'
  BY <1>1, <1>2, RingUntouched
<1>4. Cleared'
  BY <1>1, <1>2 DEF Cleared, Calm, IsClean, ColCopy
<1>5. PhaseOK'
  BY <1>1, <1>3, <1>4 DEF PhaseOK
<1>6. TypeOK'
  BY <1>1 DEF TypeOK, WireTypeOK, DataPlaneTypeOK, ControllerTypeOK, Phases
<1>7. RequestsInOrder' /\ MirrorOK' /\ PushAwaited' /\ BuffersOK' /\ Marked'
  BY <1>1 DEF RequestsInOrder, MirrorOK, PushAwaited, BuffersOK, Marked, LooksNew, Stored, ActiveCopy
<1>8. ReportsOK'
  BY <1>1, <1>3 DEF ReportsOK, Reporting, Overflowing, Stored, ActiveCopy
<1> QED
  BY <1>3, <1>5, <1>6, <1>7, <1>8

(* What no step of the controller after the first disturbs.                *)
LEMMA SwitchRests ==
  ASSUME InStep, UNCHANGED <<switchVars, historyVars, msgBuf>>, pc \notin {"idle", "exit"},
         UnreadSlots' \subseteq UnreadSlots
  PROVE  /\ MirrorOK' /\ BuffersOK' /\ Marked' /\ ReportsOK' /\ DataPlaneTypeOK'
         /\ seen' \in [Keys -> Nat] /\ newKeys' \subseteq Keys /\ closed' \in [Keys -> Nat]
         /\ window' \in [Keys -> Nat] /\ switches' \in 0 .. MaxSwitch
<1> USE DEF InStep
<1>1. /\ UNCHANGED <<epoch, resetIdx, bfX, bfY, keyIdx, keyBuf, cmX, cmY, msgAddr, mirrorQ, msgBuf>>
      /\ UNCHANGED <<seen, newKeys, closed, window, switches>>
  BY DEF switchVars, historyVars
<1>2. Reported' \subseteq Reported /\ Reporting = {}
  BY <1>1 DEF Reported, ReportsOK
<1>3. Reporting' = {} /\ Overflowing' = Overflowing
  BY <1>1, <1>2 DEF Reporting, Overflowing, Stored, ActiveCopy
<1>4. ReportsOK'
  <2> USE DEF ReportsOK
  <2>1. \A s \in Reported' : s \in Reported /\ msgBuf'[s] = msgBuf[s]
    BY <1>1, <1>2
  <2> QED
    BY <1>1, <1>3, <2>1
<1>5. MirrorOK' /\ BuffersOK' /\ Marked' /\ DataPlaneTypeOK'
  BY <1>1 DEF MirrorOK, BuffersOK, Marked, LooksNew, Stored, ActiveCopy, DataPlaneTypeOK, TypeOK
<1> QED
  BY <1>1, <1>4, <1>5 DEF TypeOK

(* recvKeys takes a KEY message.                                           *)
LEMMA RecvKeyInStep ==
  ASSUME InStep, RecvKey, UNCHANGED <<switchVars, historyVars>>
  PROVE  InStep'
<1> USE DEF InStep
<1>1. /\ pc = "recvKeys" /\ pc' = pc /\ FirstMsg.op # "DONE" /\ NextMsg
      /\ inserted' = inserted \cup {FirstMsg.key}
      /\ overflowKeys' = Append(overflowKeys, FirstMsg.key)
      /\ UNCHANGED <<hostQ, msgBuf, epochData, mergedData, abnormalKeys, curEpoch>>
      /\ UNCHANGED <<epoch, resetIdx, bfX, bfY, keyIdx, keyBuf, cmX, cmY, msgAddr, mirrorQ>>
  BY DEF RecvKey, switchVars
<1>2. /\ RingOK' /\ UnreadSlots' = UnreadSlots \ {msgHead}
      /\ msgHead' \in Slot /\ msgTail' \in Slot /\ cq' \in Seq(Slot)
  BY <1>1, NextMsgKeepsRing
<1>3. Cleared /\ Kind("KEY")
  BY <1>1 DEF PhaseOK
<1>4. PICK d \in {0, 1} : Dones(d) /\ (d = 1 => "PUSH" \notin Ops(hostQ))
  BY <1>1 DEF PhaseOK
<1>5. Dones(d)' /\ Kind("KEY")' /\ FirstMsg.key \in Keys
  BY <1>1, <1>3, <1>4, NextMsgCounts
<1>6. Cleared'
  BY <1>1, <1>3 DEF Cleared, Calm, IsClean, ColCopy
<1>7. PhaseOK'
  BY <1>1, <1>4, <1>5, <1>6 DEF PhaseOK
<1>8. /\ MirrorOK' /\ BuffersOK' /\ Marked' /\ ReportsOK' /\ DataPlaneTypeOK'
      /\ seen' \in [Keys -> Nat] /\ newKeys' \subseteq Keys /\ closed' \in [Keys -> Nat]
      /\ window' \in [Keys -> Nat] /\ switches' \in 0 .. MaxSwitch
  BY <1>1, <1>2, SwitchRests
<1>9. TypeOK'
  <2>1. overflowKeys' \in Seq(Keys)
    <3>1. overflowKeys \in Seq(Keys)
      BY DEF TypeOK, ControllerTypeOK
    <3> QED
      BY <1>1, <1>5, <3>1
  <2>2. WireTypeOK' /\ ControllerTypeOK'
    BY <1>1, <1>2, <1>5, <2>1 DEF TypeOK, WireTypeOK, ControllerTypeOK
  <2> QED
    BY <1>8, <2>2 DEF TypeOK
<1>10. RequestsInOrder' /\ PushAwaited'
  BY <1>1 DEF RequestsInOrder, PushAwaited
<1> QED
  BY <1>2, <1>7, <1>8, <1>9, <1>10

(* switchWin has waited for the first completion.                          *)
LEMMA AwaitValuesInStep ==
  ASSUME InStep, AwaitValues, UNCHANGED <<switchVars, historyVars>>
  PROVE  InStep'
<1> USE DEF InStep
<1>1. /\ pc = "waitVals" /\ pc' = "recvVals" /\ WaitNewMsg
      /\ UNCHANGED <<hostQ, msgBuf, epochData, msgHead, overflowKeys, inserted>>
      /\ UNCHANGED <<mergedData, abnormalKeys, curEpoch>>
      /\ UNCHANGED <<epoch, resetIdx, bfX, bfY, keyIdx, keyBuf, cmX, cmY, msgAddr, mirrorQ>>
  BY DEF AwaitValues, Goto, switchVars
<1>2. /\ RingOK' /\ Behind' = Behind /\ UnreadSlots' = UnreadSlots
      /\ msgTail' \in Slot /\ cq' \in Seq(Slot)
  BY <1>1, WaitNewMsgKeepsRing
<1>3. Kind("KEYVAL")
  BY <1>1 DEF PhaseOK
<1>4. PICK d \in {0, 1, 2} : Stage(d) /\ Dones(d) /\ Behind - d + keyIdx[ColCopy] =< NKEYS
  BY <1>1 DEF PhaseOK
<1>5. Dones(d)' /\ Kind("KEYVAL")'
  BY <1>1, <1>2, <1>3, <1>4 DEF Dones, Kind, Off
<1>6. Stage(d)' /\ keyIdx'[ColCopy'] = keyIdx[ColCopy]
  <2>1. \A i \in Cell : ZeroAt(ColCopy, i) => ZeroAt(ColCopy, i)'
    BY <1>1 DEF ZeroAt, ColCopy
  <2> QED
    BY <1>1, <1>2, <1>4, <2>1, StageLasts DEF ColCopy
<1>7. PhaseOK'
  <2>1. Behind' - d + keyIdx'[ColCopy'] =< NKEYS
    BY <1>2, <1>4, <1>6
  <2> QED
    BY <1>1, <1>5, <1>6, <2>1 DEF PhaseOK
<1>8. /\ MirrorOK' /\ BuffersOK' /\ Marked' /\ ReportsOK' /\ DataPlaneTypeOK'
      /\ seen' \in [Keys -> Nat] /\ newKeys' \subseteq Keys /\ closed' \in [Keys -> Nat]
      /\ window' \in [Keys -> Nat] /\ switches' \in 0 .. MaxSwitch
  BY <1>1, <1>2, SwitchRests
<1>9. TypeOK'
  BY <1>1, <1>2, <1>8 DEF TypeOK, WireTypeOK, ControllerTypeOK, Phases
<1>10. RequestsInOrder' /\ PushAwaited'
  BY <1>1 DEF RequestsInOrder, PushAwaited
<1> QED
  BY <1>2, <1>7, <1>8, <1>9, <1>10

(* recvKeyVals takes a KEYVAL message.                                     *)
LEMMA RecvKeyValInStep ==
  ASSUME InStep, RecvKeyVal, UNCHANGED <<switchVars, historyVars>>
  PROVE  InStep'
<1> USE DEF InStep
<1>1. /\ pc = "recvVals" /\ pc' = pc /\ FirstMsg.op # "DONE" /\ NextMsg
      /\ inserted' = inserted \cup {FirstMsg.key}
      /\ epochData' = [epochData EXCEPT ![FirstMsg.key] = FirstMsg.val]
      /\ UNCHANGED <<hostQ, msgBuf, overflowKeys, mergedData, abnormalKeys, curEpoch>>
      /\ UNCHANGED <<epoch, resetIdx, bfX, bfY, keyIdx, keyBuf, cmX, cmY, msgAddr, mirrorQ>>
  BY DEF RecvKeyVal, switchVars
<1>2. /\ RingOK' /\ UnreadSlots' = UnreadSlots \ {msgHead} /\ Behind > 0 /\ Behind' = Behind - 1
      /\ msgHead' \in Slot /\ msgTail' \in Slot /\ cq' \in Seq(Slot)
  BY <1>1, NextMsgKeepsRing
<1>3. Kind("KEYVAL")
  BY <1>1 DEF PhaseOK
<1>4. PICK d \in {0, 1, 2} : Stage(d) /\ Dones(d) /\ Behind - d + keyIdx[ColCopy] =< NKEYS
  BY <1>1 DEF PhaseOK
<1>5. Dones(d)' /\ Kind("KEYVAL")' /\ FirstMsg.key \in Keys
  BY <1>1, <1>3, <1>4, NextMsgCounts
<1>6. Stage(d)' /\ keyIdx'[ColCopy'] = keyIdx[ColCopy]
  <2>1. \A i \in Cell : ZeroAt(ColCopy, i) => ZeroAt(ColCopy, i)'
    BY <1>1 DEF ZeroAt, ColCopy
  <2>2. Behind # 0
    BY <1>2
  <2> QED
    BY <1>1, <1>4, <2>1, <2>2, StageLasts DEF ColCopy
<1>7. PhaseOK'
  <2>1. Behind \in Nat /\ keyIdx[ColCopy] \in Nat
    <3>1. msgHead \in Slot /\ msgAddr \in Slot
      BY DEF TypeOK, DataPlaneTypeOK, ControllerTypeOK
    <3>2. Behind \in Nat
      BY <3>1, DistIs DEF Behind, Off
    <3>3. keyIdx[ColCopy] \in Nat
      BY TheCopies, DataPlaneAssumption DEF TypeOK, DataPlaneTypeOK
    <3> QED
      BY <3>2, <3>3
  <2>2. Behind' - d + keyIdx'[ColCopy'] =< NKEYS
    BY <1>2, <1>4, <1>6, <2>1, DataPlaneAssumption
  <2> QED
    BY <1>1, <1>5, <1>6, <2>2 DEF PhaseOK
<1>8. /\ MirrorOK' /\ BuffersOK' /\ Marked' /\ ReportsOK' /\ DataPlaneTypeOK'
      /\ seen' \in [Keys -> Nat] /\ newKeys' \subseteq Keys /\ closed' \in [Keys -> Nat]
      /\ window' \in [Keys -> Nat] /\ switches' \in 0 .. MaxSwitch
  BY <1>1, <1>2, SwitchRests
<1>9. TypeOK'
  <2>1. FirstMsg.val \in Val
    BY DEF FirstMsg, TypeOK, WireTypeOK, ControllerTypeOK, Msg
  <2>2. WireTypeOK' /\ ControllerTypeOK'
    BY <1>1, <1>2, <1>5, <2>1 DEF TypeOK, WireTypeOK, ControllerTypeOK
  <2> QED
    BY <1>8, <2>2 DEF TypeOK
<1>10. RequestsInOrder' /\ PushAwaited'
  BY <1>1 DEF RequestsInOrder, PushAwaited
<1> QED
  BY <1>2, <1>7, <1>8, <1>9, <1>10

(* recvKeyVals takes the first DONE of the reset.                          *)
LEMMA RecvKeyValsDoneInStep ==
  ASSUME InStep, RecvKeyValsDone, UNCHANGED <<switchVars, historyVars>>
  PROVE  InStep'
<1> USE DEF InStep
<1>1. /\ pc = "recvVals" /\ pc' = "merge" /\ FirstMsg.op = "DONE" /\ NextMsg
      /\ UNCHANGED <<hostQ, msgBuf, epochData, overflowKeys, inserted, mergedData, abnormalKeys, curEpoch>>
      /\ UNCHANGED <<epoch, resetIdx, bfX, bfY, keyIdx, keyBuf, cmX, cmY, msgAddr, mirrorQ>>
  BY DEF RecvKeyValsDone, Goto, switchVars
<1>2. /\ RingOK' /\ UnreadSlots' = UnreadSlots \ {msgHead} /\ Behind > 0 /\ Behind' = Behind - 1
      /\ msgHead' \in Slot /\ msgTail' \in Slot /\ cq' \in Seq(Slot)
  BY <1>1, NextMsgKeepsRing
<1>3. PICK d \in {0, 1, 2} : Stage(d) /\ Dones(d)
  BY <1>1 DEF PhaseOK
<1>4. Behind = d /\ d > 0 /\ Dones(d - 1)'
  BY <1>1, <1>3, NextMsgCounts
<1>5. d \in {1, 2} /\ Behind' = d - 1
  BY <1>2, <1>3, <1>4
<1>6. Stage(d)'
  <2>1. \A i \in Cell : ZeroAt(ColCopy, i) => ZeroAt(ColCopy, i)'
    BY <1>1 DEF ZeroAt, ColCopy
  <2>2. Behind # 0
    BY <1>2
  <2> QED
    BY <1>1, <1>3, <2>1, <2>2, StageLasts
<1>7. PhaseOK'
  BY <1>1, <1>4, <1>5, <1>6 DEF PhaseOK
<1>8. /\ MirrorOK' /\ BuffersOK' /\ Marked' /\ ReportsOK' /\ DataPlaneTypeOK'
      /\ seen' \in [Keys -> Nat] /\ newKeys' \subseteq Keys /\ closed' \in [Keys -> Nat]
      /\ window' \in [Keys -> Nat] /\ switches' \in 0 .. MaxSwitch
  BY <1>1, <1>2, SwitchRests
<1>9. TypeOK'
  BY <1>1, <1>2, <1>8 DEF TypeOK, WireTypeOK, ControllerTypeOK, Phases
<1>10. RequestsInOrder' /\ PushAwaited'
  BY <1>1 DEF RequestsInOrder, PushAwaited
<1> QED
  BY <1>2, <1>7, <1>8, <1>9, <1>10

(* The controller merges; the switch may finish its reset meanwhile.       *)
LEMMA MergeInStep ==
  ASSUME InStep, MergeSubWindow
  PROVE  InStep'
<1> USE DEF InStep
<1>1. /\ pc = "merge" /\ pc' = "recvDone"
      /\ mergedData' = [k \in Keys |-> IF k \in inserted THEN mergedData[k] + epochData[k]
                                                         ELSE mergedData[k]]
      /\ abnormalKeys' = IF curEpoch = NEpoch - 1
                         THEN {k \in inserted : mergedData'[k] >= Threshold}
                         ELSE abnormalKeys
      /\ window' = Plus(IF curEpoch = 0 THEN NoCounts ELSE window, closed)
      /\ closed' = NoCounts
      /\ UNCHANGED <<hostQ, msgBuf, epochData, cq, msgHead, msgTail, overflowKeys, inserted, curEpoch>>
      /\ UNCHANGED <<epoch, resetIdx, bfX, bfY, keyIdx, keyBuf, cmX, cmY, msgAddr, mirrorQ>>
      /\ UNCHANGED <<seen, newKeys, switches>>
  BY DEF MergeSubWindow, Merge, Goto, wireVars, switchVars
<1>2. TypeOK'
  <2>1. mergedData' \in [Keys -> Nat]
    <3>1. \A k \in Keys : mergedData[k] \in Nat /\ epochData[k] \in Nat
      BY WireAssumption DEF TypeOK, WireTypeOK, ControllerTypeOK, Val
    <3> QED
      BY <1>1, <3>1
  <2>2. abnormalKeys' \subseteq Keys
    BY <1>1 DEF TypeOK, ControllerTypeOK
  <2>3. window' \in [Keys -> Nat] /\ closed' \in [Keys -> Nat]
    BY <1>1 DEF TypeOK, Plus, NoCounts
  <2> QED
    BY <1>1, <2>1, <2>2, <2>3 DEF TypeOK, WireTypeOK, DataPlaneTypeOK, ControllerTypeOK, Phases
<1>3. PICK d \in {1, 2} : Stage(d) /\ Dones(d - 1) /\ Behind = d - 1
  BY <1>1 DEF PhaseOK
<1>4. RingOK' /\ Behind' = Behind /\ Reported' = Reported /\ Dones(d - 1)'
  <2>1. d - 1 \in Nat
    BY <1>3
  <2> QED
    BY <1>1, <1>3, <2>1, RingUntouched
<1>5. Stage(d)'
  <2>1. \A i \in Cell : ZeroAt(ColCopy, i) => ZeroAt(ColCopy, i)'
    BY <1>1 DEF ZeroAt, ColCopy
  <2> QED
    BY <1>1, <1>3, <1>4, <2>1, StageLasts
<1>6. PhaseOK'
  BY <1>1, <1>3, <1>4, <1>5 DEF PhaseOK
<1>7. RequestsInOrder' /\ MirrorOK' /\ PushAwaited' /\ BuffersOK' /\ Marked'
  BY <1>1 DEF RequestsInOrder, MirrorOK, PushAwaited, BuffersOK, Marked, LooksNew, Stored, ActiveCopy
<1>8. ReportsOK'
  BY <1>1, <1>4 DEF ReportsOK, Reporting, Overflowing, Stored, ActiveCopy
<1> QED
  BY <1>2, <1>4, <1>6, <1>7, <1>8

(* recvDone takes the last DONE of the reset.                              *)
LEMMA RecvDoneInStep ==
  ASSUME InStep, RecvDone, UNCHANGED <<switchVars, historyVars>>
  PROVE  InStep'
<1> USE DEF InStep
<1>1. /\ pc = "recvDone" /\ pc' = "idle" /\ NextMsg
      /\ epochData' = ClearedSlots
      /\ curEpoch' = (curEpoch + 1) % NEpoch
      /\ UNCHANGED <<hostQ, msgBuf, overflowKeys, inserted, mergedData, abnormalKeys>>
      /\ UNCHANGED <<epoch, resetIdx, bfX, bfY, keyIdx, keyBuf, cmX, cmY, msgAddr, mirrorQ>>
  BY DEF RecvDone, Goto, switchVars
<1>2. /\ RingOK' /\ UnreadSlots' = UnreadSlots \ {msgHead} /\ Behind > 0 /\ Behind' = Behind - 1
      /\ msgHead' \in Slot /\ msgTail' \in Slot /\ cq' \in Seq(Slot)
  BY <1>1, NextMsgKeepsRing
<1>3. PICK d \in {1, 2} : Stage(d) /\ Behind = d - 1
  BY <1>1 DEF PhaseOK
<1>4. d = 2 /\ Behind' = 0
  BY <1>2, <1>3
<1>5. Cleared'
  <2>1. Cleared
    BY <1>3, <1>4 DEF Stage
  <2> QED
    BY <1>1, <2>1 DEF Cleared, Calm, IsClean, ColCopy
<1>6. /\ MirrorOK' /\ BuffersOK' /\ Marked' /\ ReportsOK' /\ DataPlaneTypeOK'
      /\ seen' \in [Keys -> Nat] /\ newKeys' \subseteq Keys /\ closed' \in [Keys -> Nat]
      /\ window' \in [Keys -> Nat] /\ switches' \in 0 .. MaxSwitch
  BY <1>1, <1>2, SwitchRests
<1>7. TypeOK'
  <2>1. curEpoch' \in 0 .. NEpoch - 1
    BY <1>1, ControllerAssumption DEF TypeOK, ControllerTypeOK
  <2>2. epochData' \in [Keys -> Val]
    BY <1>1, WireAssumption DEF ClearedSlots, TypeOK, WireTypeOK, Val
  <2> QED
    BY <1>1, <1>2, <1>6, <2>1, <2>2 DEF TypeOK, WireTypeOK, ControllerTypeOK, Phases
<1>8. Kind("KEY")' /\ Dones(0)'
  <2>1. (TypeOK /\ Behind = 0)' => Kind("KEY")' /\ Dones(0)'
    BY EmptyRing, PTL
  <2> QED
    BY <1>4, <1>7, <2>1
<1>9. PhaseOK'
  BY <1>1, <1>5, <1>8 DEF PhaseOK
<1>10. RequestsInOrder' /\ PushAwaited'
  BY <1>1 DEF RequestsInOrder, PushAwaited
<1> QED
  BY <1>2, <1>6, <1>7, <1>9, <1>10

(* What two sequences hold one after the other.                            *)
LEMMA ConcatIs ==
  ASSUME NEW S, NEW p \in Seq(S), NEW q \in Seq(S)
  PROVE  /\ p \o q \in Seq(S) /\ Len(p) \in Nat /\ Len(q) \in Nat
         /\ Len(p \o q) = Len(p) + Len(q)
         /\ \A i \in 1 .. Len(p) : (p \o q)[i] = p[i]
         /\ \A i \in Len(p) + 1 .. Len(p) + Len(q) :
              (p \o q)[i] = q[i - Len(p)] /\ i - Len(p) \in 1 .. Len(q)
  OBVIOUS

(* A START, n requests that collect, m queries, one RST_START at place e,  *)
(* and n requests that reset.                                              *)
PartsAre(b, n, m, e) ==
  /\ b \in Seq(Request) /\ Len(b) = e + n /\ e = 2 + n + m
  /\ b[1].op = "START"
  /\ \A i \in 2 .. 1 + n : b[i].op = "COL"
  /\ \A i \in 2 + n .. e - 1 : b[i].op = "QRY_KEY"
  /\ b[e].op = "RST_START"
  /\ \A i \in e + 1 .. e + n : b[i].op = "RST"

(* The requests of one switch have these parts.                            *)
LEMMA BatchParts ==
  ASSUME overflowKeys \in Seq(Keys), NEW b, b = RequestBatch
  PROVE  \E n, m, e \in Nat : PartsAre(b, n, m, e)
<1>1. PICK n \in Nat : n = NReq - 1
  BY ControllerAssumption
<1>2. PICK m \in Nat : m = Len(overflowKeys)
  OBVIOUS
<1> DEFINE s1 == << Req("START") >>
           s2 == Repeat(NReq - 1, "COL")
           s3 == Queries
           s4 == << Req("RST_START") >>
           s5 == Repeat(NReq - 1, "RST")
           w2 == s1 \o s2
           w3 == w2 \o s3
           w4 == w3 \o s4
<1>3. b = w4 \o s5
  BY DEF RequestBatch
<1>4. \A op \in KeylessOps : Req(op) \in Request /\ Req(op).op = op
  BY DEF Req, Request
<1>5. {"START", "COL", "RST_START", "RST"} \subseteq KeylessOps
  BY DEF KeylessOps
<1>6. /\ s1 \in Seq(Request) /\ Len(s1) = 1 /\ s1[1].op = "START"
      /\ s4 \in Seq(Request) /\ Len(s4) = 1 /\ s4[1].op = "RST_START"
  BY <1>4, <1>5
<1>7. s2 \in Seq(Request) /\ Len(s2) = n /\ \A i \in 1 .. n : s2[i].op = "COL"
  <2>1. s2 = [i \in 1 .. n |-> Req("COL")]
    BY <1>1 DEF Repeat
  <2>2. Req("COL") \in Request /\ Req("COL").op = "COL"
    BY <1>4, <1>5
  <2> QED
    BY <2>1, <2>2
<1>8. s5 \in Seq(Request) /\ Len(s5) = n /\ \A i \in 1 .. n : s5[i].op = "RST"
  <2>1. s5 = [i \in 1 .. n |-> Req("RST")]
    BY <1>1 DEF Repeat
  <2>2. Req("RST") \in Request /\ Req("RST").op = "RST"
    BY <1>4, <1>5
  <2> QED
    BY <2>1, <2>2
<1>9. s3 \in Seq(Request) /\ Len(s3) = m /\ \A i \in 1 .. m : s3[i].op = "QRY_KEY"
  <2>1. s3 = [i \in 1 .. m |-> QryKey(overflowKeys[i])]
    BY <1>2 DEF Queries
  <2>2. \A k \in Keys : QryKey(k) \in Request /\ QryKey(k).op = "QRY_KEY"
    BY DEF QryKey, Request
  <2> QED
    BY <1>2, <2>1, <2>2
<1> HIDE DEF s1, s2, s3, s4, s5
<1>10. /\ w2 \in Seq(Request) /\ Len(w2) = 1 + n /\ w2[1].op = "START"
       /\ \A i \in 2 .. 1 + n : w2[i].op = "COL"
  <2>1. /\ w2 \in Seq(Request) /\ Len(w2) = 1 + n /\ w2[1] = s1[1]
        /\ \A i \in 2 .. 1 + n : w2[i] = s2[i - 1] /\ i - 1 \in 1 .. n
    <3>1. s1 \in Seq(Request)
      BY <1>6
    <3>2. s2 \in Seq(Request)
      BY <1>7
    <3>3. Len(s1) = 1 /\ Len(s2) = n
      BY <1>6, <1>7
    <3>4. /\ w2 \in Seq(Request)
          /\ Len(w2) = Len(s1) + Len(s2)
          /\ \A i \in 1 .. Len(s1) : w2[i] = s1[i]
          /\ \A i \in Len(s1) + 1 .. Len(s1) + Len(s2) :
               w2[i] = s2[i - Len(s1)] /\ i - Len(s1) \in 1 .. Len(s2)
      BY <3>1, <3>2, ConcatIs
    <3> HIDE DEF w2
    <3> QED
      BY <3>3, <3>4
  <2> QED
    BY <1>6, <1>7, <2>1
<1> HIDE DEF w2
<1>11. /\ w3 \in Seq(Request) /\ Len(w3) = 1 + n + m /\ w3[1].op = "START"
       /\ \A i \in 2 .. 1 + n : w3[i].op = "COL"
       /\ \A i \in 2 + n .. 1 + n + m : w3[i].op = "QRY_KEY"
  <2>1. /\ w3 \in Seq(Request) /\ Len(w3) = 1 + n + m
        /\ \A i \in 1 .. 1 + n : w3[i] = w2[i]
        /\ \A i \in 2 + n .. 1 + n + m : w3[i] = s3[i - (1 + n)] /\ i - (1 + n) \in 1 .. m
    <3>1. w2 \in Seq(Request)
      BY <1>10
    <3>2. s3 \in Seq(Request)
      BY <1>9
    <3>3. Len(w2) = 1 + n /\ Len(s3) = m
      BY <1>10, <1>9
    <3>4. /\ w3 \in Seq(Request)
          /\ Len(w3) = Len(w2) + Len(s3)
          /\ \A i \in 1 .. Len(w2) : w3[i] = w2[i]
          /\ \A i \in Len(w2) + 1 .. Len(w2) + Len(s3) :
               w3[i] = s3[i - Len(w2)] /\ i - Len(w2) \in 1 .. Len(s3)
      BY <3>1, <3>2, ConcatIs
    <3> HIDE DEF w3
    <3> QED
      BY <3>3, <3>4
  <2>2. 1 \in 1 .. 1 + n /\ \A i \in 2 .. 1 + n : i \in 1 .. 1 + n
    OBVIOUS
  <2> QED
    BY <1>9, <1>10, <2>1, <2>2
<1> HIDE DEF w3
<1>12. PICK e \in Nat : e = 2 + n + m
  OBVIOUS
<1>13. /\ w4 \in Seq(Request) /\ Len(w4) = e /\ w4[1].op = "START"
       /\ \A i \in 2 .. 1 + n : w4[i].op = "COL"
       /\ \A i \in 2 + n .. e - 1 : w4[i].op = "QRY_KEY"
       /\ w4[e].op = "RST_START"
  <2>1. /\ w4 \in Seq(Request) /\ Len(w4) = e
        /\ \A i \in 1 .. e - 1 : w4[i] = w3[i]
        /\ w4[e] = s4[1]
    <3>1. w3 \in Seq(Request)
      BY <1>11
    <3>2. s4 \in Seq(Request)
      BY <1>6
    <3>3. Len(w3) = 1 + n + m /\ Len(s4) = 1
      BY <1>11, <1>6
    <3>4. /\ w4 \in Seq(Request)
          /\ Len(w4) = Len(w3) + Len(s4)
          /\ \A i \in 1 .. Len(w3) : w4[i] = w3[i]
          /\ \A i \in Len(w3) + 1 .. Len(w3) + Len(s4) :
               w4[i] = s4[i - Len(w3)] /\ i - Len(w3) \in 1 .. Len(s4)
      BY <3>1, <3>2, ConcatIs
    <3> HIDE DEF w4
    <3>5. /\ Len(w3) = e - 1 /\ Len(w3) + Len(s4) = e
          /\ e \in Len(w3) + 1 .. Len(w3) + Len(s4) /\ e - Len(w3) = 1
      BY <1>12, <3>3
    <3>6. w4[e] = s4[1]
      BY <3>4, <3>5
    <3> QED
      BY <3>4, <3>5, <3>6
  <2>2. /\ 1 \in 1 .. e - 1 /\ e - 1 = 1 + n + m
        /\ \A i \in 2 .. 1 + n : i \in 1 .. e - 1
        /\ \A i \in 2 + n .. e - 1 : i \in 1 .. e - 1
    BY <1>12
  <2> QED
    BY <1>6, <1>11, <2>1, <2>2
<1> HIDE DEF w4
<1>14. /\ b \in Seq(Request) /\ Len(b) = e + n
       /\ \A i \in 1 .. e : b[i] = w4[i]
       /\ \A i \in e + 1 .. e + n : b[i] = s5[i - e] /\ i - e \in 1 .. n
  <2>1. w4 \in Seq(Request)
    BY <1>13
  <2>2. s5 \in Seq(Request)
    BY <1>8
  <2>3. Len(w4) = e /\ Len(s5) = n
    BY <1>13, <1>8
  <2>4. /\ b \in Seq(Request)
        /\ Len(b) = Len(w4) + Len(s5)
        /\ \A i \in 1 .. Len(w4) : b[i] = w4[i]
        /\ \A i \in Len(w4) + 1 .. Len(w4) + Len(s5) :
             b[i] = s5[i - Len(w4)] /\ i - Len(w4) \in 1 .. Len(s5)
    BY <1>3, <2>1, <2>2, ConcatIs
  <2> QED
    BY <2>3, <2>4
<1>15. /\ 1 \in 1 .. e /\ e \in 1 .. e
       /\ \A i \in 2 .. 1 + n : i \in 1 .. e
       /\ \A i \in 2 + n .. e - 1 : i \in 1 .. e
  BY <1>12
<1>16. /\ b[1].op = "START" /\ b[e].op = "RST_START"
       /\ \A i \in 2 .. 1 + n : b[i].op = "COL"
       /\ \A i \in 2 + n .. e - 1 : b[i].op = "QRY_KEY"
       /\ \A i \in e + 1 .. e + n : b[i].op = "RST"
  BY <1>8, <1>13, <1>14, <1>15
<1>17. PartsAre(b, n, m, e)
  BY <1>12, <1>14, <1>16 DEF PartsAre
<1> QED
  BY <1>17

LEMMA BatchIs ==
  ASSUME overflowKeys \in Seq(Keys), NEW b, b = RequestBatch
  PROVE  /\ b \in Seq(Request)
         /\ \E e \in Nat, r \in Nat :
              /\ e > 1 /\ Len(b) = e + r
              /\ b[1].op = "START"
              /\ \A i \in 2 .. e - 1 : b[i].op \in {"COL", "QRY_KEY"}
              /\ b[e].op = "RST_START"
              /\ \A i \in e + 1 .. e + r : b[i].op = "RST"
<1>1. PICK n, m, e \in Nat : PartsAre(b, n, m, e)
  BY BatchParts
<1>2. e > 1 /\ \A i \in 2 .. e - 1 : i \in 2 .. 1 + n \/ i \in 2 + n .. e - 1
  BY <1>1 DEF PartsAre
<1>3. \A i \in 2 .. e - 1 : b[i].op \in {"COL", "QRY_KEY"}
  BY <1>1, <1>2 DEF PartsAre
<1> QED
  BY <1>1, <1>2, <1>3 DEF PartsAre

(* So is the same batch with flags.                                        *)
LEMMA BatchIsOps ==
  ASSUME overflowKeys \in Seq(Keys), NEW b, SameRequests(b)
  PROVE  \E e \in Nat, r \in Nat :
           /\ e > 1 /\ Len(b) = e + r
           /\ b[1].op = "START"
           /\ \A i \in 2 .. e - 1 : b[i].op \in {"COL", "QRY_KEY"}
           /\ b[e].op = "RST_START"
           /\ \A i \in e + 1 .. e + r : b[i].op = "RST"
<1>1. PICK a : a = RequestBatch
  OBVIOUS
<1>2. PICK e \in Nat, r \in Nat :
        /\ e > 1 /\ Len(a) = e + r
        /\ a[1].op = "START"
        /\ \A i \in 2 .. e - 1 : a[i].op \in {"COL", "QRY_KEY"}
        /\ a[e].op = "RST_START"
        /\ \A i \in e + 1 .. e + r : a[i].op = "RST"
  BY <1>1, BatchIs
<1>3. Len(b) = e + r /\ \A i \in 1 .. e + r : b[i].op = a[i].op
  BY <1>1, <1>2 DEF SameRequests
<1>4. /\ 1 \in 1 .. e + r /\ e \in 1 .. e + r
      /\ \A i \in 2 .. e - 1 : i \in 1 .. e + r
      /\ \A i \in e + 1 .. e + r : i \in 1 .. e + r
  BY <1>2
<1> QED
  BY <1>2, <1>3, <1>4

LEMMA PlainBatchIsSame ==
  ASSUME overflowKeys \in Seq(Keys)
  PROVE  SameRequests(RequestBatch)
  BY BatchIs DEF SameRequests

(* The requests of one switch after what is left of the last one.          *)
LEMMA BatchInOrder ==
  ASSUME TypeOK, Ops(hostQ) \subseteq {"RST"}, NEW b, SameRequests(b), hostQ' = hostQ \o b
  PROVE  hostQ' \in Seq(Request) /\ RequestsInOrder' /\ "PUSH" \notin Ops(hostQ)'
<1> DEFINE t == hostQ'
<1>1. hostQ \in Seq(Request)
  BY DEF TypeOK, WireTypeOK
<1>2. overflowKeys \in Seq(Keys)
  BY DEF TypeOK, ControllerTypeOK
<1>3. b \in Seq(Request)
  BY DEF SameRequests
<1>4. PICK e \in Nat, r \in Nat :
        /\ e > 1 /\ Len(b) = e + r
        /\ b[1].op = "START"
        /\ \A i \in 2 .. e - 1 : b[i].op \in {"COL", "QRY_KEY"}
        /\ b[e].op = "RST_START"
        /\ \A i \in e + 1 .. e + r : b[i].op = "RST"
  BY <1>2, BatchIsOps
<1>5. PICK n \in Nat : n = Len(hostQ)
  BY <1>1
<1>6. /\ t \in Seq(Request) /\ Len(t) = n + e + r
      /\ \A i \in 1 .. n : t[i] = hostQ[i]
      /\ \A i \in n + 1 .. n + e + r : t[i] = b[i - n]
  <2>1. /\ hostQ \o b \in Seq(Request)
        /\ Len(hostQ \o b) = Len(hostQ) + Len(b)
        /\ \A i \in 1 .. Len(hostQ) : (hostQ \o b)[i] = hostQ[i]
        /\ \A i \in Len(hostQ) + 1 .. Len(hostQ) + Len(b) :
             (hostQ \o b)[i] = b[i - Len(hostQ)] /\ i - Len(hostQ) \in 1 .. Len(b)
    BY <1>1, <1>3, ConcatIs
  <2>2. t = hostQ \o b
    OBVIOUS
  <2>3. Len(hostQ) + Len(b) = n + e + r
    BY <1>4, <1>5
  <2> HIDE DEF t
  <2> QED
    BY <1>5, <2>1, <2>2, <2>3
<1> HIDE DEF t
<1>7. \A i \in 1 .. n : t[i].op = "RST"
  BY <1>5, <1>6 DEF Ops
<1>8. /\ \A i \in n + 2 .. n + e - 1 : t[i].op \in {"COL", "QRY_KEY"}
      /\ \A i \in n + e + 1 .. n + e + r : t[i].op = "RST"
      /\ t[n + 1].op = "START" /\ t[n + e].op = "RST_START"
  <2>1. \A i \in n + 2 .. n + e - 1 : (i \in n + 1 .. n + e + r) /\ (i - n \in 2 .. e - 1)
    BY <1>4
  <2>2. \A i \in n + e + 1 .. n + e + r : (i \in n + 1 .. n + e + r) /\ (i - n \in e + 1 .. e + r)
    BY <1>4
  <2>3. (n + 1 \in n + 1 .. n + e + r) /\ (n + 1) - n = 1
    BY <1>4
  <2>4. (n + e \in n + 1 .. n + e + r) /\ (n + e) - n = e
    BY <1>4
  <2>5. t[n + 1] = b[1] /\ t[n + e] = b[e]
    BY <1>6, <2>3, <2>4
  <2>6. \A i \in n + 2 .. n + e - 1 : t[i].op \in {"COL", "QRY_KEY"}
    BY <1>4, <1>6, <2>1
  <2>7. \A i \in n + e + 1 .. n + e + r : t[i].op = "RST"
    BY <1>4, <1>6, <2>2
  <2> QED
    BY <1>4, <2>5, <2>6, <2>7
<1>9. \A i \in 1 .. n + e + r : \/ i \in 1 .. n \/ i = n + 1 \/ i \in n + 2 .. n + e - 1
                                \/ i = n + e \/ i \in n + e + 1 .. n + e + r
  OBVIOUS
<1>10. \A i \in 1 .. n + e + r :
         /\ t[i].op \in {"START", "COL", "QRY_KEY"} => i < n + e
         /\ t[i].op = "START" => i = n + 1
         /\ t[i].op = "RST_START" => i = n + e
         /\ t[i].op # "PUSH"
  <2> SUFFICES ASSUME NEW i \in 1 .. n + e + r
               PROVE  /\ t[i].op \in {"START", "COL", "QRY_KEY"} => i < n + e
                      /\ t[i].op = "START" => i = n + 1
                      /\ t[i].op = "RST_START" => i = n + e
                      /\ t[i].op # "PUSH"
    OBVIOUS
  <2>1. CASE i \in 1 .. n
    BY <1>7, <2>1
  <2>2. CASE i = n + 1
    BY <1>4, <1>8, <2>2
  <2>3. CASE i \in n + 2 .. n + e - 1
    BY <1>4, <1>8, <2>3
  <2>4. CASE i = n + e
    BY <1>8, <2>4
  <2>5. CASE i \in n + e + 1 .. n + e + r
    BY <1>8, <2>5
  <2> QED
    BY <1>9, <2>1, <2>2, <2>3, <2>4, <2>5
<1>11. ASSUME NEW i \in 1 .. n + e + r, t[i].op \in {"START", "COL", "QRY_KEY"}
       PROVE  \E j \in i + 1 .. n + e + r : t[j].op = "RST_START"
  <2>1. n + e \in i + 1 .. n + e + r
    BY <1>10, <1>11
  <2> QED
    BY <1>8, <2>1
<1>12. ASSUME NEW i \in 1 .. n + e + r, t[i].op = "START"
       PROVE  \A j \in 1 .. i - 1 : t[j].op = "RST"
  <2>1. i = n + 1
    BY <1>10, <1>12
  <2>2. i - 1 = n
    BY <2>1
  <2> QED
    BY <1>7, <2>2
<1>13. Once(t, "RST_START") /\ Once(t, "PUSH") /\ "PUSH" \notin Ops(t)
  BY <1>6, <1>10 DEF Once, Ops
<1>14. RequestsInOrder'
  <2>1. hostQ' = t
    BY DEF t
  <2> QED
    BY <2>1, <1>6, <1>11, <1>12, <1>13 DEF RequestsInOrder
<1> QED
  BY <1>6, <1>13, <1>14 DEF t

(* recvKeys takes the DONE of PUSH and sends the batch.                    *)
LEMMA SendRequestsInStep ==
  ASSUME InStep, NEW b, SameRequests(b), SendRequestsLike(b)
  PROVE  InStep'
<1> USE DEF InStep
<1>1. /\ pc = "recvKeys" /\ pc' = "waitVals" /\ FirstMsg.op = "DONE" /\ NextMsg
      /\ hostQ' = hostQ \o b
      /\ UNCHANGED <<msgBuf, epochData, overflowKeys, inserted, mergedData, abnormalKeys, curEpoch>>
      /\ UNCHANGED <<epoch, resetIdx, bfX, bfY, keyIdx, keyBuf, cmX, cmY, msgAddr, mirrorQ>>
      /\ UNCHANGED <<switchVars, historyVars>>
  BY DEF SendRequestsLike, SendRequestsOf, Goto, switchVars
<1>2. /\ RingOK' /\ UnreadSlots' = UnreadSlots \ {msgHead} /\ Behind > 0 /\ Behind' = Behind - 1
      /\ msgHead' \in Slot /\ msgTail' \in Slot /\ cq' \in Seq(Slot)
  BY <1>1, NextMsgKeepsRing
<1>3. Cleared
  BY <1>1 DEF PhaseOK
<1>4. PICK d \in {0, 1} : Dones(d) /\ (d = 1 => "PUSH" \notin Ops(hostQ))
  BY <1>1 DEF PhaseOK
<1>5. Behind = d /\ d > 0
  BY <1>1, <1>4, NextMsgCounts
<1>6. d = 1 /\ Behind' = 0
  BY <1>2, <1>4, <1>5
<1>7. Ops(hostQ) \subseteq {"RST"}
  BY <1>3, <1>4, <1>6 DEF Cleared, Calm
<1>8. hostQ' \in Seq(Request) /\ RequestsInOrder' /\ "PUSH" \notin Ops(hostQ)'
  BY <1>1, <1>7, BatchInOrder
<1>9. /\ MirrorOK' /\ BuffersOK' /\ Marked' /\ ReportsOK' /\ DataPlaneTypeOK'
      /\ seen' \in [Keys -> Nat] /\ newKeys' \subseteq Keys /\ closed' \in [Keys -> Nat]
      /\ window' \in [Keys -> Nat] /\ switches' \in 0 .. MaxSwitch
  BY <1>1, <1>2, SwitchRests
<1>10. TypeOK'
  BY <1>1, <1>2, <1>8, <1>9 DEF TypeOK, WireTypeOK, ControllerTypeOK, Phases
<1>11. Kind("KEYVAL")' /\ Dones(0)'
  <2>1. (TypeOK /\ Behind = 0)' => Kind("KEYVAL")' /\ Dones(0)'
    BY EmptyRing, PTL
  <2> QED
    BY <1>6, <1>10, <2>1
<1>12. /\ keyIdx'[ColCopy'] = 0 /\ "RST_START" \notin Ops(mirrorQ)' /\ resetIdx' = NDATA
       /\ IsClean(ColCopy)'
  BY <1>1, <1>3 DEF Cleared, Calm, ColCopy, IsClean
<1>13. Stage(0)'
  <2>1. NDATA # RSTIDX_MID
    BY DataPlaneAssumption DEF RSTIDX_MID
  <2> QED
    BY <1>6, <1>12, <2>1 DEF Stage, Collecting
<1>14. PhaseOK'
  <2>1. Behind' - 0 + keyIdx'[ColCopy'] =< NKEYS
    BY <1>6, <1>12, DataPlaneAssumption
  <2> QED
    BY <1>1, <1>11, <1>13, <2>1 DEF PhaseOK
<1>15. PushAwaited'
  BY <1>8 DEF PushAwaited
<1> QED
  BY <1>2, <1>8, <1>9, <1>10, <1>14, <1>15

-----------------------------------------------------------------------------
(***************************************************************************)
(* The traffic.                                                            *)
(***************************************************************************)

(* A packet marks its key, counts it, and leaves the collected copy alone. *)
LEMMA PacketMarks ==
  ASSUME TypeOK, NEW k \in Keys, NormalPacket(k)
  PROVE  /\ bfX' \in [Copies -> [Cell -> {0, 1}]] /\ bfY' \in [Copies -> [Cell -> {0, 1}]]
         /\ cmX' \in [Copies -> [Cell -> Val]] /\ cmY' \in [Copies -> [Cell -> Val]]
         /\ bfX'[ColCopy] = bfX[ColCopy] /\ bfY'[ColCopy] = bfY[ColCopy]
         /\ cmX'[ColCopy] = cmX[ColCopy] /\ cmY'[ColCopy] = cmY[ColCopy]
         /\ ActiveCopy' = ActiveCopy /\ ColCopy' = ColCopy
         /\ \A j \in Keys : LooksNew(ActiveCopy, j)' => LooksNew(ActiveCopy, j)
         /\ ~LooksNew(ActiveCopy, k)'
<1> DEFINE c == ActiveCopy
<1>1. c \in Copies /\ ColCopy \in Copies /\ ColCopy # c
  BY TheCopies
<1>2. /\ BfX \in [Keys -> Cell] /\ BfY \in [Keys -> Cell]
      /\ CmX \in [Keys -> Cell] /\ CmY \in [Keys -> Cell] /\ CmMod \in Nat \ {0}
  BY DataPlaneAssumption, WireAssumption
<1>3. /\ bfX \in [Copies -> [Cell -> {0, 1}]] /\ bfY \in [Copies -> [Cell -> {0, 1}]]
      /\ cmX \in [Copies -> [Cell -> Val]] /\ cmY \in [Copies -> [Cell -> Val]]
  BY DEF TypeOK, DataPlaneTypeOK
<1>4. /\ bfX' = [bfX EXCEPT ![c][BfX[k]] = 1] /\ bfY' = [bfY EXCEPT ![c][BfY[k]] = 1]
      /\ cmX' = [cmX EXCEPT ![c][CmX[k]] = (@ + 1) % CmMod]
      /\ cmY' = [cmY EXCEPT ![c][CmY[k]] = (@ + 1) % CmMod]
      /\ epoch' = epoch
  BY DEF NormalPacket, MarkCell, CountCell
<1>5. \A v \in Val : (v + 1) % CmMod \in Val
  BY <1>2 DEF Val
<1>6. ActiveCopy' = ActiveCopy /\ ColCopy' = ColCopy
  BY <1>4 DEF ActiveCopy, ColCopy
<1> HIDE DEF c
<1>7. bfX' \in [Copies -> [Cell -> {0, 1}]] /\ bfY' \in [Copies -> [Cell -> {0, 1}]]
  BY <1>1, <1>2, <1>3, <1>4
<1>8. cmX' \in [Copies -> [Cell -> Val]] /\ cmY' \in [Copies -> [Cell -> Val]]
  BY <1>1, <1>2, <1>3, <1>4, <1>5
<1>9. /\ bfX'[ColCopy] = bfX[ColCopy] /\ bfY'[ColCopy] = bfY[ColCopy]
      /\ cmX'[ColCopy] = cmX[ColCopy] /\ cmY'[ColCopy] = cmY[ColCopy]
  BY <1>1, <1>3, <1>4
<1>10. \A i \in Cell : /\ bfX'[c][i] = (IF i = BfX[k] THEN 1 ELSE bfX[c][i])
                       /\ bfY'[c][i] = (IF i = BfY[k] THEN 1 ELSE bfY[c][i])
  BY <1>1, <1>2, <1>3, <1>4
<1>11. /\ \A j \in Keys : LooksNew(c, j)' => LooksNew(c, j)
       /\ ~LooksNew(c, k)'
  BY <1>2, <1>6, <1>10 DEF LooksNew, c
<1> QED
  BY <1>6, <1>7, <1>8, <1>9, <1>11 DEF c

(* A report takes the place behind the mirrored packets.                   *)
LEMMA ReportIs ==
  ASSUME NEW q \in Seq(Mirrored), NEW k \in Keys, Once(q, "RST_START")
  PROVE  \E t \in Seq(Mirrored) :
           /\ t = q \o << Report(k) >> /\ Once(t, "RST_START") /\ Ops(t) = Ops(q) \cup {"KEY"}
           /\ KeysIn(t) = KeysIn(q) \cup {Len(q) + 1} /\ Len(q) + 1 \notin KeysIn(q)
           /\ t[Len(q) + 1].key = k /\ \A i \in KeysIn(q) : t[i] = q[i]
<1> DEFINE m == Report(k)
           t == q \o << m >>
<1>1. m \in Mirrored /\ m.op = "KEY" /\ m.key = k
  BY DEF Report, Mirrored
<1>2. t = Append(q, m)
  <2>1. q \o << m >> = Append(q, m)
    BY <1>1, AppendIs
  <2> QED
    BY <2>1
<1>9. t = q \o << Report(k) >>
  OBVIOUS
<1> HIDE DEF m, t
<1>3. PICK n \in Nat : n = Len(q)
  OBVIOUS
<1>4. t \in Seq(Mirrored) /\ Len(t) = n + 1 /\ t[n + 1] = m /\ \A i \in 1 .. n : t[i] = q[i]
  BY <1>1, <1>2, <1>3, AppendIs
<1>5. Ops(t) = Ops(q) \cup {"KEY"} /\ Once(t, "RST_START")
  <2>1. m \in Mirrored
    BY <1>1
  <2>2. /\ Ops(Append(q, m)) = Ops(q) \cup {m.op}
        /\ Once(q, "RST_START") /\ (m.op = "RST_START" => "RST_START" \notin Ops(q))
           => Once(Append(q, m), "RST_START")
    BY <2>1, OpsOfAppend
  <2> QED
    BY <1>1, <1>2, <2>2
<1>6. \A i \in 1 .. n + 1 : i = n + 1 \/ i \in 1 .. n
  BY <1>3
<1>7. n + 1 \in 1 .. n + 1 /\ n + 1 \notin 1 .. n /\ \A i \in 1 .. n : i \in 1 .. n + 1
  BY <1>3
<1>8. /\ KeysIn(t) = KeysIn(q) \cup {n + 1} /\ n + 1 \notin KeysIn(q)
      /\ \A i \in KeysIn(q) : t[i] = q[i]
  BY <1>1, <1>3, <1>4, <1>6, <1>7 DEF KeysIn
<1> QED
  BY <1>1, <1>3, <1>4, <1>5, <1>8, <1>9

(* A new key finds a place in the buffer.                                  *)
LEMMA KeyStored ==
  ASSUME TypeOK, BuffersOK, NEW k \in Keys, k \notin newKeys, ~BufferFull(ActiveCopy),
         ActiveCopy' = ActiveCopy,
         keyIdx' = [keyIdx EXCEPT ![ActiveCopy] = @ + 1],
         keyBuf' = [keyBuf EXCEPT ![ActiveCopy][keyIdx[ActiveCopy]] = k],
         newKeys' = newKeys \cup {k}
  PROVE  /\ keyIdx' \in [Copies -> 0 .. NKEYS]
         /\ keyBuf' \in [Copies -> [0 .. NKEYS - 1 -> Keys \cup {NoKey}]]
         /\ keyIdx'[ColCopy] = keyIdx[ColCopy]
         /\ BuffersOK' /\ Overflowing' = Overflowing
<1> DEFINE c == ActiveCopy
           n == keyIdx[c]
<1>1. c \in Copies /\ ColCopy \in Copies /\ ColCopy # c
  BY TheCopies
<1>2. NKEYS \in Nat \ {0} /\ keyIdx \in [Copies -> 0 .. NKEYS]
  BY DataPlaneAssumption DEF TypeOK, DataPlaneTypeOK
<1>3. keyBuf \in [Copies -> [0 .. NKEYS - 1 -> Keys \cup {NoKey}]]
  BY DEF TypeOK, DataPlaneTypeOK
<1>4. n \in 0 .. NKEYS - 1 /\ n + 1 \in 0 .. NKEYS
  BY <1>1, <1>2 DEF BufferFull
<1>5. \A d \in Copies : d # c => keyIdx'[d] = keyIdx[d] /\ keyBuf'[d] = keyBuf[d]
  BY <1>1, <1>2, <1>3
<1>6. keyIdx'[c] = n + 1 /\ keyBuf'[c] = [keyBuf[c] EXCEPT ![n] = k]
  BY <1>1, <1>2, <1>3
<1>7. keyIdx' \in [Copies -> 0 .. NKEYS]
  BY <1>1, <1>2, <1>4
<1>8. keyBuf' \in [Copies -> [0 .. NKEYS - 1 -> Keys \cup {NoKey}]]
  BY <1>1, <1>3, <1>4
<1> HIDE DEF c, n
<1>9. /\ \A i \in 0 .. n - 1 : keyBuf[c][i] \in newKeys
      /\ \A i, j \in 0 .. n - 1 : keyBuf[c][i] = keyBuf[c][j] => i = j
      /\ \A i \in 0 .. n - 1 : keyBuf[c][i] \in Keys
  BY <1>1 DEF BuffersOK, Stored, c, n
<1>10. keyBuf[c] \in [0 .. NKEYS - 1 -> Keys \cup {NoKey}]
  BY <1>1, <1>3
<1>11. keyBuf'[c][n] = k /\ \A i \in 0 .. n - 1 : keyBuf'[c][i] = keyBuf[c][i] /\ i # n
  <2>1. n \in 0 .. NKEYS - 1 /\ \A i \in 0 .. n - 1 : i \in 0 .. NKEYS - 1 /\ i # n
    BY <1>2, <1>4
  <2>2. PICK f : f = keyBuf[c]
    OBVIOUS
  <2>3. f \in [0 .. NKEYS - 1 -> Keys \cup {NoKey}] /\ keyBuf'[c] = [f EXCEPT ![n] = k]
    BY <1>6, <1>10, <2>2
  <2> QED
    BY <2>1, <2>2, <2>3
<1>12. \A i \in 0 .. (n + 1) - 1 : i = n \/ i \in 0 .. n - 1
  BY <1>4
<1>13. n \in 0 .. (n + 1) - 1 /\ \A i \in 0 .. n - 1 : i \in 0 .. (n + 1) - 1
  BY <1>4
<1>14. Stored(ActiveCopy)' = Stored(ActiveCopy) \cup {k}
  <2>1. /\ Stored(ActiveCopy)' = {keyBuf'[c][i] : i \in 0 .. (n + 1) - 1}
        /\ Stored(ActiveCopy) = {keyBuf[c][i] : i \in 0 .. n - 1}
    BY <1>6 DEF Stored, c, n
  <2> QED
    BY <1>11, <1>12, <1>13, <2>1
<1>15. Overflowing' = Overflowing
  BY <1>14 DEF Overflowing
<1>16. \A d \in Copies : \A i \in 0 .. keyIdx'[d] - 1 : keyBuf'[d][i] \in Keys
  <2> SUFFICES ASSUME NEW d \in Copies, NEW i \in 0 .. keyIdx'[d] - 1
               PROVE  keyBuf'[d][i] \in Keys
    OBVIOUS
  <2>1. CASE d # c
    BY <1>5, <2>1 DEF BuffersOK
  <2>2. CASE d = c
    BY <1>6, <1>9, <1>11, <1>12, <2>2
  <2> QED
    BY <2>1, <2>2
<1>17. \A d \in Copies : \A i, j \in 0 .. keyIdx'[d] - 1 : keyBuf'[d][i] = keyBuf'[d][j] => i = j
  <2> SUFFICES ASSUME NEW d \in Copies, NEW i \in 0 .. keyIdx'[d] - 1, NEW j \in 0 .. keyIdx'[d] - 1,
                      keyBuf'[d][i] = keyBuf'[d][j]
               PROVE  i = j
    OBVIOUS
  <2>1. CASE d # c
    BY <1>5, <2>1 DEF BuffersOK
  <2>2. CASE d = c
    <3>1. (i = n \/ i \in 0 .. n - 1) /\ (j = n \/ j \in 0 .. n - 1)
      BY <1>6, <1>12, <2>2
    <3> QED
      BY <1>9, <1>11, <2>2, <3>1
  <2> QED
    BY <2>1, <2>2
<1>18. Stored(ActiveCopy)' \subseteq newKeys'
  BY <1>14 DEF BuffersOK
<1>19. BuffersOK'
  BY <1>16, <1>17, <1>18 DEF BuffersOK
<1>20. keyIdx'[ColCopy] = keyIdx[ColCopy]
  BY <1>1, <1>5
<1> QED
  BY <1>7, <1>8, <1>15, <1>19, <1>20

(* A packet of the traffic is counted and its key stored or reported.      *)
LEMMA TrafficInStep ==
  ASSUME Fits, InStep, NEW k \in Keys, Traffic(k)
  PROVE  InStep'
<1> USE DEF InStep
<1> DEFINE new == LooksNew(ActiveCopy, k)
           full == BufferFull(ActiveCopy)
<1>1. /\ Quiesced => pc = "idle"
      /\ NormalPacket(k)
      /\ seen' = [seen EXCEPT ![k] = @ + 1]
      /\ newKeys' = IF new THEN newKeys \cup {k} ELSE newKeys
      /\ IF new /\ ~full
         THEN /\ keyIdx' = [keyIdx EXCEPT ![ActiveCopy] = @ + 1]
              /\ keyBuf' = [keyBuf EXCEPT ![ActiveCopy][keyIdx[ActiveCopy]] = k]
         ELSE UNCHANGED <<keyIdx, keyBuf>>
      /\ mirrorQ' = mirrorQ \o (IF new /\ full THEN <<Report(k)>> ELSE <<>>)
      /\ UNCHANGED <<epoch, resetIdx, msgAddr>>
      /\ UNCHANGED <<hostQ, msgBuf, epochData, cq>>
      /\ UNCHANGED <<pc, msgHead, msgTail, overflowKeys, inserted, mergedData, abnormalKeys, curEpoch>>
      /\ UNCHANGED <<closed, window, switches>>
  BY DEF Traffic, NormalPacket, wireVars, controllerVars
<1> HIDE DEF new, full
<1>2. /\ bfX' \in [Copies -> [Cell -> {0, 1}]] /\ bfY' \in [Copies -> [Cell -> {0, 1}]]
      /\ cmX' \in [Copies -> [Cell -> Val]] /\ cmY' \in [Copies -> [Cell -> Val]]
      /\ bfX'[ColCopy] = bfX[ColCopy] /\ bfY'[ColCopy] = bfY[ColCopy]
      /\ cmX'[ColCopy] = cmX[ColCopy] /\ cmY'[ColCopy] = cmY[ColCopy]
      /\ ActiveCopy' = ActiveCopy /\ ColCopy' = ColCopy
      /\ \A j \in Keys : LooksNew(ActiveCopy, j)' => LooksNew(ActiveCopy, j)
      /\ ~LooksNew(ActiveCopy, k)'
  BY <1>1, PacketMarks
<1>3. mirrorQ \in Seq(Mirrored)
  BY DEF TypeOK, DataPlaneTypeOK
<1>4. Once(mirrorQ, "RST_START")
  BY DEF MirrorOK
<1>5. new => k \notin newKeys
  BY DEF Marked, new
<1>6. Marked'
  <2> SUFFICES ASSUME NEW j \in newKeys' PROVE ~LooksNew(ActiveCopy, j)'
    BY DEF Marked
  <2>1. CASE j = k
    BY <1>2, <2>1
  <2>2. CASE j # k
    BY <1>1, <1>2, <2>2 DEF Marked, TypeOK
  <2> QED
    BY <2>1, <2>2
<1>7. /\ keyIdx' \in [Copies -> 0 .. NKEYS]
      /\ keyBuf' \in [Copies -> [0 .. NKEYS - 1 -> Keys \cup {NoKey}]]
      /\ keyIdx'[ColCopy] = keyIdx[ColCopy]
      /\ BuffersOK'
      /\ Overflowing' = IF new /\ full THEN Overflowing \cup {k} ELSE Overflowing
  <2>1. CASE new /\ ~full
    <3>1. ~BufferFull(ActiveCopy) /\ k \notin newKeys /\ newKeys' = newKeys \cup {k}
      BY <1>1, <1>5, <2>1 DEF full
    <3>2. /\ keyIdx' = [keyIdx EXCEPT ![ActiveCopy] = @ + 1]
          /\ keyBuf' = [keyBuf EXCEPT ![ActiveCopy][keyIdx[ActiveCopy]] = k]
          /\ ActiveCopy' = ActiveCopy
      BY <1>1, <1>2, <2>1
    <3> QED
      BY <2>1, <3>1, <3>2, KeyStored
  <2>2. CASE ~(new /\ ~full)
    <3>1. UNCHANGED <<keyIdx, keyBuf>>
      BY <1>1, <2>2
    <3>2. Stored(ActiveCopy)' = Stored(ActiveCopy) /\ newKeys \subseteq newKeys'
      BY <1>1, <1>2, <3>1 DEF Stored
    <3>3. BuffersOK'
      BY <3>1, <3>2 DEF BuffersOK
    <3>4. new => k \notin Stored(ActiveCopy)
      BY <1>5 DEF BuffersOK
    <3>5. Overflowing' = IF new /\ full THEN Overflowing \cup {k} ELSE Overflowing
      BY <1>1, <2>2, <3>2, <3>4 DEF Overflowing
    <3> QED
      BY <3>1, <3>3, <3>5 DEF TypeOK, DataPlaneTypeOK
  <2> QED
    BY <2>1, <2>2
<1>8. /\ mirrorQ' \in Seq(Mirrored) /\ MirrorOK'
      /\ Ops(mirrorQ)' \subseteq Ops(mirrorQ) \cup {"KEY"}
      /\ ~(new /\ full) => mirrorQ' = mirrorQ
  <2>1. CASE new /\ full
    <3> DEFINE t == mirrorQ'
    <3>1. t = mirrorQ \o << Report(k) >>
      BY <1>1, <2>1
    <3> HIDE DEF t
    <3>2. t \in Seq(Mirrored) /\ Once(t, "RST_START") /\ Ops(t) = Ops(mirrorQ) \cup {"KEY"}
      BY <1>3, <1>4, <3>1, ReportIs
    <3> QED
      BY <2>1, <3>2 DEF MirrorOK, t
  <2>2. CASE ~(new /\ full)
    <3>1. mirrorQ' = mirrorQ
      BY <1>1, <1>3, <2>2
    <3> QED
      BY <1>3, <3>1 DEF MirrorOK
  <2> QED
    BY <2>1, <2>2
<1>9. TypeOK'
  <2>1. newKeys' \subseteq Keys /\ seen' \in [Keys -> Nat]
    BY <1>1 DEF TypeOK
  <2> QED
    BY <1>1, <1>2, <1>7, <1>8, <2>1 DEF TypeOK, WireTypeOK, DataPlaneTypeOK, ControllerTypeOK
<1>10. PhaseOK' /\ RingOK' /\ Reported' = Reported
  <2>1. /\ UNCHANGED <<pc, msgHead, msgTail, msgAddr, msgBuf, cq>> /\ UNCHANGED <<epoch, resetIdx>>
        /\ hostQ' = hostQ
    BY <1>1
  <2>2. \A i \in Cell : ZeroAt(ColCopy, i) => ZeroAt(ColCopy, i)'
    BY <1>2 DEF ZeroAt
  <2> QED
    BY <1>7, <1>8, <2>1, <2>2, PhaseLasts
<1>11. RequestsInOrder' /\ PushAwaited'
  BY <1>1 DEF RequestsInOrder, PushAwaited
<1>12. ReportsOK'
  <2>1. CASE ~(new /\ full)
    BY <1>1, <1>7, <1>8, <1>10, <2>1 DEF ReportsOK, Reporting
  <2>2. CASE new /\ full
    <3>1. Quiesced /\ pc' = "idle"
      <4>1. ~NoOverflow
        BY <2>2, RoomForKey DEF Fits, new, full
      <4> QED
        BY <1>1, <4>1 DEF Fits
    <3> DEFINE n == Len(mirrorQ) + 1
    <3>2. PICK t \in Seq(Mirrored) :
            /\ t = mirrorQ \o << Report(k) >> /\ Once(t, "RST_START") /\ Ops(t) = Ops(mirrorQ) \cup {"KEY"}
            /\ KeysIn(t) = KeysIn(mirrorQ) \cup {n} /\ n \notin KeysIn(mirrorQ)
            /\ t[n].key = k /\ \A i \in KeysIn(mirrorQ) : t[i] = mirrorQ[i]
      BY <1>3, <1>4, ReportIs
    <3>3. mirrorQ' = t
      BY <1>1, <2>2, <3>2
    <3>4. /\ Reporting' = Reporting \cup {n} /\ n \notin Reporting
          /\ mirrorQ'[n].key = k /\ \A i \in Reporting : mirrorQ'[i] = mirrorQ[i]
      BY <3>2, <3>3 DEF Reporting, KeysIn
    <3> HIDE DEF n
    <3>5. Overflowing' = Overflowing \cup {k} /\ k \notin Overflowing
      BY <1>5, <1>7, <2>2 DEF Overflowing
    <3>6. /\ \A i \in Reporting : mirrorQ'[i].key \in Overflowing
          /\ \A s \in Reported : msgBuf'[s].key \in Overflowing
          /\ \A i, j \in Reporting : mirrorQ'[i].key = mirrorQ'[j].key => i = j
          /\ \A s, u \in Reported : msgBuf'[s].key = msgBuf'[u].key => s = u
          /\ \A i \in Reporting, s \in Reported : mirrorQ'[i].key # msgBuf'[s].key
      <4>1. /\ \A i \in Reporting : mirrorQ[i].key \in Overflowing
            /\ \A s \in Reported : msgBuf[s].key \in Overflowing
            /\ \A i, j \in Reporting : mirrorQ[i].key = mirrorQ[j].key => i = j
            /\ \A s, u \in Reported : msgBuf[s].key = msgBuf[u].key => s = u
            /\ \A i \in Reporting, s \in Reported : mirrorQ[i].key # msgBuf[s].key
        BY DEF ReportsOK
      <4>2. msgBuf' = msgBuf /\ \A i \in Reporting : mirrorQ'[i] = mirrorQ[i]
        BY <1>1, <3>4
      <4> QED
        BY <4>1, <4>2
    <3> QED
      BY <1>10, <3>1, <3>4, <3>5, <3>6 DEF ReportsOK
  <2> QED
    BY <2>1, <2>2
<1> QED
  BY <1>6, <1>7, <1>8, <1>9, <1>10, <1>11, <1>12

-----------------------------------------------------------------------------
(***************************************************************************)
(* The collection.                                                         *)
(***************************************************************************)

(* The report of an overflowing key reaches the ring between two calls of  *)
(* switchWin.                                                              *)
LEMMA ReportInStep ==
  ASSUME Fits, InStep, ReportOverflow
  PROVE  InStep'
<1> USE DEF InStep
<1> DEFINE k == Head(mirrorQ).key
<1>1. /\ mirrorQ # <<>> /\ Head(mirrorQ).op = "KEY" /\ hostQ' = hostQ
      /\ mirrorQ' = Tail(mirrorQ) \o <<>>
      /\ SendMsg("KEY", k, 0)
      /\ UNCHANGED <<epoch, resetIdx, bfX, bfY, cmX, cmY, keyIdx, keyBuf, epochData>>
      /\ UNCHANGED <<pc, msgHead, msgTail, overflowKeys, inserted, mergedData, abnormalKeys, curEpoch>>
      /\ UNCHANGED <<seen, newKeys, closed, window, switches>>
  BY DEF ReportOverflow, ReportKey, Arrives, Arrived, Pass, sketchVars, controllerVars, historyVars
<1>2. mirrorQ \in Seq(Mirrored)
  BY DEF TypeOK, DataPlaneTypeOK
<1>3. Once(mirrorQ, "RST_START")
  BY DEF MirrorOK
<1>4. mirrorQ # <<>>
  BY <1>1
<1> DEFINE t == Tail(mirrorQ)
<1>5. /\ t \in Seq(Mirrored) /\ Once(t, "RST_START") /\ Head(mirrorQ) \in Mirrored
      /\ Ops(mirrorQ) = Ops(t) \cup {Head(mirrorQ).op}
      /\ \A i \in KeysIn(t) : i + 1 \in KeysIn(mirrorQ) /\ t[i] = mirrorQ[i + 1]
  BY <1>2, <1>3, <1>4, MirrorLeaves
<1>6. mirrorQ' = t
  BY <1>1, <1>5
<1>7. k \in Keys /\ 0 \in Val
  BY <1>1, <1>5, WireAssumption DEF Mirrored, KeylessOps, Val
<1>8. 1 \in Reporting /\ mirrorQ[1].key = k
  <2>1. Head(mirrorQ) = mirrorQ[1] /\ 1 \in 1 .. Len(mirrorQ)
    BY <1>2, <1>4, TailIs
  <2> QED
    BY <1>1, <2>1 DEF Reporting
<1> HIDE DEF t, k
<1>9. Quiesced /\ pc \in {"idle", "exit"} /\ k \in Overflowing
  BY <1>8 DEF ReportsOK
<1>10. Cleared /\ Kind("KEY") /\ Dones(0)
  BY <1>9 DEF PhaseOK
<1>11. Behind < MSGS - 1
  <2>1. Behind - 0 =< Cardinality(Keys) /\ Cardinality(Keys) \in Nat /\ Behind \in 0 .. MSGS - 1
    BY <1>10, ReportsFit DEF Fits
  <2> QED
    BY <2>1, WireAssumption DEF Fits
<1>12. /\ RingOK' /\ msgAddr \notin UnreadSlots
       /\ UnreadSlots' = UnreadSlots \cup {msgAddr}
       /\ msgBuf'[msgAddr] = [op |-> "KEY", key |-> k, val |-> 0]
       /\ \A s \in UnreadSlots : msgBuf'[s] = msgBuf[s]
       /\ msgBuf' \in [Slot -> Msg] /\ msgAddr' \in Slot /\ cq' \in Seq(Slot)
  BY <1>1, <1>7, <1>11, SendMsgKeepsRing
<1>13. Dones(0)' /\ Kind("KEY")'
  BY <1>1, <1>7, <1>10, <1>11, SendMsgCounts
<1>14. TypeOK'
  BY <1>1, <1>5, <1>6, <1>12 DEF TypeOK, WireTypeOK, DataPlaneTypeOK, ControllerTypeOK
<1>15. MirrorOK' /\ Ops(mirrorQ)' \subseteq Ops(mirrorQ)
  BY <1>5, <1>6 DEF MirrorOK
<1>16. PhaseOK'
  <2>1. Cleared'
    BY <1>1, <1>10, <1>15 DEF Cleared, Calm, IsClean, ColCopy
  <2> QED
    BY <1>1, <1>9, <1>13, <2>1 DEF PhaseOK
<1>17. RequestsInOrder' /\ PushAwaited' /\ BuffersOK' /\ Marked' /\ Overflowing' = Overflowing
  BY <1>1 DEF RequestsInOrder, PushAwaited, BuffersOK, Marked, LooksNew, Stored, ActiveCopy, Overflowing
<1>18. ReportsOK'
  <2>1. Reported' = Reported \cup {msgAddr} /\ msgBuf'[msgAddr].key = k
    BY <1>12 DEF Reported
  <2>2. \A s \in Reported : msgBuf'[s] = msgBuf[s] /\ s # msgAddr
    BY <1>12 DEF Reported
  <2>3. \A i \in Reporting' : i + 1 \in Reporting /\ mirrorQ'[i] = mirrorQ[i + 1] /\ i + 1 # 1 /\ i \in Int
    <3>1. \A i \in Reporting' : i + 1 \in Reporting /\ mirrorQ'[i] = mirrorQ[i + 1]
      BY <1>5, <1>6 DEF Reporting, KeysIn
    <3>2. \A i \in Reporting' : i \in Int /\ i >= 1
      BY DEF Reporting
    <3> QED
      BY <3>1, <3>2
  <2>4. /\ \A i \in Reporting : mirrorQ[i].key \in Overflowing
        /\ \A s \in Reported : msgBuf[s].key \in Overflowing
        /\ \A i, j \in Reporting : mirrorQ[i].key = mirrorQ[j].key => i = j
        /\ \A s, u \in Reported : msgBuf[s].key = msgBuf[u].key => s = u
        /\ \A i \in Reporting, s \in Reported : mirrorQ[i].key # msgBuf[s].key
    BY DEF ReportsOK
  <2>5. /\ \A i \in Reporting' : mirrorQ'[i].key \in Overflowing
        /\ \A i \in Reporting' : mirrorQ'[i].key # k
        /\ \A i \in Reporting', s \in Reported : mirrorQ'[i].key # msgBuf'[s].key
    BY <1>8, <2>2, <2>3, <2>4
  <2>6. \A i, j \in Reporting' : mirrorQ'[i].key = mirrorQ'[j].key => i = j
    <3> SUFFICES ASSUME NEW i \in Reporting', NEW j \in Reporting', mirrorQ'[i].key = mirrorQ'[j].key
                 PROVE  i = j
      OBVIOUS
    <3>1. i + 1 = j + 1
      BY <2>3, <2>4
    <3> QED
      BY <2>3, <3>1
  <2>7. /\ \A s \in Reported : msgBuf'[s].key # k
        /\ \A s, u \in Reported : msgBuf'[s].key = msgBuf'[u].key => s = u
        /\ \A s \in Reported : msgBuf'[s].key \in Overflowing
    BY <1>8, <2>2, <2>4
  <2> QED
    BY <1>1, <1>9, <1>17, <2>1, <2>5, <2>6, <2>7 DEF ReportsOK
<1> QED
  BY <1>12, <1>14, <1>15, <1>16, <1>17, <1>18

(* What is left to collect, or to start the reset, is left while the       *)
(* controller waits for values.                                            *)
LEMMA CollectMeans ==
  ASSUME PhaseOK, ~Calm
  PROVE  /\ pc \notin {"idle", "recvKeys", "merge", "recvDone", "exit"}
         /\ pc \in {"waitVals", "recvVals"} =>
              /\ Collecting /\ Dones(0) /\ Kind("KEYVAL") /\ Behind - 0 + keyIdx[ColCopy] =< NKEYS
<1>1. ~Cleared /\ ~Resetting
  BY DEF Cleared, Resetting
<1>2. \A d : Stage(d) => d = 0 /\ Collecting
  BY <1>1 DEF Stage
<1> QED
  BY <1>1, <1>2 DEF PhaseOK

(* What the sketch answers is a value.                                     *)
LEMMA CmReadIs ==
  ASSUME TypeOK, NEW c \in Copies, NEW k \in Keys
  PROVE  CmRead(c, k) \in Val
  BY DataPlaneAssumption DEF CmRead, TypeOK, DataPlaneTypeOK

(* What a packet that collects finds: the copy it works on is the one that *)
(* is collected after it, and no second RST_START is made while keys are   *)
(* left.                                                                   *)
LEMMA CollectReady ==
  ASSUME InStep, NEW src \in Sources, Arrives(src, {"START", "COL"}), SwitchEpoch(src),
         Head(Arrived(src)).op = "START" \/ keyIdx[ColCopy] # 0,
         hostQ' = IF src = "host" THEN Tail(hostQ) ELSE hostQ,
         NEW c, c = CopyCollectedBy(src)
  PROVE  /\ c \in Copies /\ ColCopy' = c /\ epoch' \in 0 .. EpochMod - 1
         /\ pc \in {"waitVals", "recvVals"}
         /\ Dones(0) /\ Kind("KEYVAL") /\ Reporting = {}
         /\ Behind \in Nat /\ Behind + keyIdx[c] =< NKEYS
         /\ hostQ' \in Seq(Request) /\ RequestsInOrder' /\ Ops(hostQ)' \subseteq Ops(hostQ)
         /\ "START" \notin Ops(hostQ)' /\ "RST_START" \notin Ops(mirrorQ)
         /\ resetIdx \in {NDATA, RSTIDX_MID}
         /\ resetIdx = RSTIDX_MID => "RST_START" \notin Ops(hostQ)'
         /\ Head(Arrived(src)).op = "START" =>
              /\ src = "host" /\ epoch' # epoch /\ ActiveCopy' = ColCopy
              /\ IsClean(ColCopy) /\ c = ActiveCopy /\ c # ColCopy /\ ColCopy \in Copies
         /\ Head(Arrived(src)).op # "START" =>
              epoch' = epoch /\ ActiveCopy' = ActiveCopy /\ c = ColCopy
<1> USE DEF InStep
<1> DEFINE op == Head(Arrived(src)).op
<1>1. /\ ActiveCopy \in Copies /\ ColCopy \in Copies /\ ColCopy # ActiveCopy
      /\ epoch' = (epoch + 1) % EpochMod =>
              ActiveCopy' = ColCopy /\ ColCopy' = ActiveCopy /\ epoch' # epoch
  BY TheCopies
<1>2. Arrived(src) # <<>> /\ op \in {"START", "COL"}
  BY DEF Arrives
<1>3. epoch' = IF op = "START" THEN (epoch + 1) % EpochMod ELSE epoch
  BY DEF SwitchEpoch
<1>4. c = IF op = "START" THEN ActiveCopy ELSE ColCopy
  BY DEF CopyCollectedBy
<1>5. epoch \in 0 .. EpochMod - 1 /\ epoch' \in 0 .. EpochMod - 1
  BY <1>3, DataPlaneAssumption DEF TypeOK, DataPlaneTypeOK
<1>6. Behind \in Nat
  BY DistIs, WireAssumption DEF TypeOK, DataPlaneTypeOK, ControllerTypeOK, Behind, Off
<1>7. hostQ \in Seq(Request)
  BY DEF TypeOK, WireTypeOK
<1>8. src = "mirror" => Head(mirrorQ) \in Mirrored /\ op # "START"
  <2> SUFFICES ASSUME src = "mirror" PROVE Head(mirrorQ) \in Mirrored /\ op # "START"
    OBVIOUS
  <2>1. mirrorQ # <<>> /\ op = Head(mirrorQ).op
    BY <1>2 DEF Arrived
  <2>2. mirrorQ \in Seq(Mirrored)
    BY DEF TypeOK, DataPlaneTypeOK
  <2>3. Head(mirrorQ) = mirrorQ[1] /\ 1 \in 1 .. Len(mirrorQ) /\ Head(mirrorQ) \in Mirrored
    BY <2>1, <2>2, TailIs
  <2>4. op \in Ops(mirrorQ)
    BY <2>1, <2>3 DEF Ops
  <2> QED
    BY <2>3, <2>4 DEF MirrorOK
<1>9. src = "host" => /\ RequestsInOrder' /\ hostQ' \in Seq(Request) /\ Ops(hostQ)' \subseteq Ops(hostQ)
                      /\ "START" \notin Ops(hostQ)' /\ op \in Ops(hostQ)
  <2> SUFFICES ASSUME src = "host"
               PROVE  /\ RequestsInOrder' /\ hostQ' \in Seq(Request) /\ Ops(hostQ)' \subseteq Ops(hostQ)
                      /\ "START" \notin Ops(hostQ)' /\ op \in Ops(hostQ)
    OBVIOUS
  <2>1. hostQ # <<>> /\ hostQ' = Tail(hostQ) /\ op = Head(hostQ).op
    BY <1>2 DEF Arrived
  <2> QED
    BY <1>2, <2>1, RequestLeaves
<1>10. src # "host" => /\ RequestsInOrder' /\ hostQ' \in Seq(Request) /\ hostQ' = hostQ
  BY <1>7 DEF RequestsInOrder
<1>11. RequestsInOrder' /\ hostQ' \in Seq(Request) /\ Ops(hostQ)' \subseteq Ops(hostQ)
  BY <1>9, <1>10
<1> HIDE DEF op
<1>12. CASE op = "START"
  <2>1. src = "host" /\ "START" \in Ops(hostQ)
    BY <1>8, <1>9, <1>12 DEF Sources
  <2>2. ~Calm
    BY <2>1 DEF Calm
  <2>3. pc \in {"waitVals", "recvVals"} /\ Collecting /\ Dones(0) /\ Kind("KEYVAL")
    BY <2>2, CollectMeans DEF TypeOK, ControllerTypeOK, Phases
  <2>4. resetIdx = NDATA /\ IsClean(ColCopy) /\ "RST_START" \notin Ops(mirrorQ) /\ Behind = 0
    BY <2>1, <2>3 DEF Collecting
  <2>5. keyIdx[ActiveCopy] \in 0 .. NKEYS
    BY <1>1 DEF TypeOK, DataPlaneTypeOK
  <2>6. NDATA # RSTIDX_MID
    BY DataPlaneAssumption DEF RSTIDX_MID
  <2>7. Behind + keyIdx[c] =< NKEYS
    BY <1>4, <1>12, <2>4, <2>5, DataPlaneAssumption
  <2>8. Reporting = {}
    BY <2>3 DEF ReportsOK
  <2>9. c = ActiveCopy /\ ColCopy' = c /\ epoch' # epoch /\ ActiveCopy' = ColCopy
    BY <1>1, <1>3, <1>4, <1>12
  <2> QED
    BY <1>1, <1>5, <1>6, <1>9, <1>11, <1>12, <2>1, <2>3, <2>4, <2>6, <2>7, <2>8, <2>9 DEF op
<1>13. CASE op # "START"
  <2>1. keyIdx[ColCopy] # 0
    BY <1>13 DEF op
  <2>2. ~Calm
    BY <2>1 DEF Calm
  <2>3. pc \in {"waitVals", "recvVals"} /\ Collecting /\ Dones(0) /\ Kind("KEYVAL")
        /\ Behind - 0 + keyIdx[ColCopy] =< NKEYS
    BY <2>2, CollectMeans DEF TypeOK, ControllerTypeOK, Phases
  <2>4. /\ resetIdx \in {NDATA, RSTIDX_MID} /\ "START" \notin Ops(hostQ) /\ "RST_START" \notin Ops(mirrorQ)
        /\ resetIdx = RSTIDX_MID => "RST_START" \notin Ops(hostQ)
    BY <2>1, <2>3 DEF Collecting, IsClean
  <2>5. Reporting = {}
    BY <2>3 DEF ReportsOK
  <2>6. c = ColCopy /\ epoch' = epoch /\ ActiveCopy' = ActiveCopy /\ ColCopy' = ColCopy
    BY <1>3, <1>4, <1>13 DEF ActiveCopy, ColCopy
  <2>7. Behind + keyIdx[c] =< NKEYS
    <3>1. keyIdx[ColCopy] \in 0 .. NKEYS
      BY <1>1 DEF TypeOK, DataPlaneTypeOK
    <3> QED
      BY <1>6, <2>3, <2>6, <3>1, DataPlaneAssumption
  <2> QED
    BY <1>1, <1>5, <1>6, <1>11, <1>13, <2>3, <2>4, <2>5, <2>6, <2>7 DEF op
<1> QED
  BY <1>12, <1>13

(* After it the keys found new are those of the sub-window that is open.   *)
LEMMA BuffersCollected ==
  ASSUME InStep, NEW src \in Sources, Arrives(src, {"START", "COL"}), SwitchEpoch(src),
         Head(Arrived(src)).op = "START" \/ keyIdx[ColCopy] # 0,
         hostQ' = IF src = "host" THEN Tail(hostQ) ELSE hostQ,
         NEW c, c = CopyCollectedBy(src), CloseSubWindow,
         UNCHANGED <<bfX, bfY, keyBuf>>,
         NEW n \in 0 .. NKEYS, n =< keyIdx[c], keyIdx' = [keyIdx EXCEPT ![c] = n]
  PROVE  /\ BuffersOK' /\ Marked' /\ keyIdx' \in [Copies -> 0 .. NKEYS] /\ keyIdx'[c] = n
         /\ newKeys' \subseteq Keys /\ seen' \in [Keys -> Nat] /\ closed' \in [Keys -> Nat]
<1> USE DEF InStep
<1> DEFINE op == Head(Arrived(src)).op
<1>1. /\ c \in Copies
      /\ op = "START" => /\ epoch' # epoch /\ ActiveCopy' = ColCopy
                         /\ IsClean(ColCopy) /\ c = ActiveCopy /\ c # ColCopy /\ ColCopy \in Copies
      /\ op # "START" => epoch' = epoch /\ ActiveCopy' = ActiveCopy /\ c = ColCopy
  BY CollectReady
<1> HIDE DEF op
<1>2. keyIdx \in [Copies -> 0 .. NKEYS]
  BY DEF TypeOK, DataPlaneTypeOK
<1>3. keyIdx' \in [Copies -> 0 .. NKEYS] /\ keyIdx'[c] = n /\ \A d \in Copies : d # c => keyIdx'[d] = keyIdx[d]
  BY <1>1, <1>2
<1>4. \A d \in Copies : keyIdx'[d] =< keyIdx[d]
  BY <1>1, <1>2, <1>3, DataPlaneAssumption
<1>5. ActiveCopy \in Copies /\ ColCopy # ActiveCopy
  BY TheCopies
<1>6. CASE op = "START"
  <2>1. newKeys' = {} /\ seen' = NoCounts
        /\ closed' = [k \in Keys |-> IF k \in newKeys THEN CmRead(ActiveCopy, k) ELSE 0]
    BY <1>1, <1>6 DEF CloseSubWindow
  <2>2. closed' \in [Keys -> Nat]
    BY <1>5, <2>1, CmReadIs, WireAssumption DEF Val
  <2>3. keyIdx'[ActiveCopy'] = 0
    BY <1>1, <1>3, <1>6 DEF IsClean
  <2>4. Stored(ActiveCopy)' = {}
    BY <2>3 DEF Stored
  <2>5. \A d \in Copies : \A i \in 0 .. keyIdx'[d] - 1 : i \in 0 .. keyIdx[d] - 1
    BY <1>2, <1>3, <1>4, DataPlaneAssumption
  <2>6. BuffersOK'
    BY <2>1, <2>4, <2>5 DEF BuffersOK
  <2> QED
    BY <1>3, <2>1, <2>2, <2>6 DEF Marked, NoCounts
<1>7. CASE op # "START"
  <2>1. UNCHANGED <<closed, seen, newKeys>> /\ epoch' = epoch
    BY <1>1, <1>7 DEF CloseSubWindow
  <2>2. keyIdx'[ActiveCopy] = keyIdx[ActiveCopy]
    BY <1>1, <1>3, <1>5, <1>7
  <2>3. BuffersOK' /\ Marked'
    BY <1>3, <1>4, <2>1, <2>2, KeysKept
  <2> QED
    BY <1>3, <2>1, <2>3 DEF TypeOK
<1> QED
  BY <1>6, <1>7

(* A packet that carries no key goes round with nothing but another name.  *)
LEMMA AgainIs ==
  ASSUME TypeOK, NEW src \in Sources, Arrived(src) # <<>>, Head(Arrived(src)).op \in KeylessOps
  PROVE  \A op \in KeylessOps : Again(src, op) \in Mirrored /\ Again(src, op).op = op
<1>1. hostQ \in Seq(Request)
  BY DEF TypeOK, WireTypeOK
<1>2. mirrorQ \in Seq(Mirrored)
  BY DEF TypeOK, DataPlaneTypeOK
<1>3. Head(Arrived(src)) \in Request \cup Mirrored
  <2>1. CASE src = "host"
    <3>1. hostQ # <<>> /\ Arrived(src) = hostQ
      BY <2>1 DEF Arrived
    <3> QED
      BY <1>1, <3>1, TailIs
  <2>2. CASE src # "host"
    <3>1. mirrorQ # <<>> /\ Arrived(src) = mirrorQ
      BY <2>2 DEF Arrived
    <3> QED
      BY <1>2, <3>1, TailIs
  <2> QED
    BY <2>1, <2>2
<1> DEFINE p == Head(Arrived(src))
<1> HIDE DEF p
<1>4. p \in [op : KeylessOps, key : {NoKey}]
        \cup [op : KeylessOps, key : {NoKey}, rstDistinct : BOOLEAN]
  BY <1>3 DEF p, Request, Mirrored, KeylessOps
<1>5. \A op \in KeylessOps : [p EXCEPT !.op = op] \in Mirrored /\ [p EXCEPT !.op = op].op = op
  BY <1>4 DEF Mirrored
<1> QED
  BY <1>5 DEF Again, p

(* No reports are about while values are sent.                             *)
LEMMA NoReports ==
  Kind("KEYVAL") /\ Reporting = {} => ReportsOK
<1> SUFFICES ASSUME Kind("KEYVAL"), Reporting = {} PROVE ReportsOK
  OBVIOUS
<1>1. Reported = {}
  BY DEF Reported, Kind
<1> QED
  BY <1>1 DEF ReportsOK

(* What a collect packet makes of the stage, when it goes round as the     *)
(* RST_START only with no key left.                                        *)
LEMMA StillCollecting ==
  ASSUME "START" \notin Ops(hostQ)', resetIdx' \in {NDATA, RSTIDX_MID},
         resetIdx' = RSTIDX_MID => "RST_START" \notin Ops(hostQ)',
         "RST_START" \in Ops(mirrorQ)' => keyIdx'[ColCopy'] = 0
  PROVE  Stage(0)'
  BY DEF Stage, Collecting

(* A collect packet takes a key.                                           *)
LEMMA CollectKeyInStep ==
  ASSUME Fits, InStep, NEW src \in Sources, CollectKey(src), CloseSubWindow,
         UNCHANGED <<controllerVars, window, switches>>
  PROVE  InStep'
<1> USE DEF InStep
<1> DEFINE c == CopyCollectedBy(src)
           i == keyIdx[c] - 1
           k == keyBuf[c][i]
           out == << Again(src, NextCollectOp(i)) >>
<1>1. /\ Arrives(src, {"START", "COL"}) /\ keyIdx[c] # 0 /\ SwitchEpoch(src)
      /\ keyIdx' = [keyIdx EXCEPT ![c] = i]
      /\ IF k \in HotKeys
         THEN epochData' = [epochData EXCEPT ![k] = CmRead(c, k)] /\ SendNothing
         ELSE SendMsg("KEYVAL", k, CmRead(c, k)) /\ UNCHANGED epochData
      /\ Pass(src, out)
      /\ UNCHANGED <<resetIdx, bfX, bfY, cmX, cmY, keyBuf>>
      /\ UNCHANGED <<pc, msgHead, msgTail, overflowKeys, inserted, mergedData, abnormalKeys, curEpoch>>
      /\ UNCHANGED <<window, switches>>
  BY DEF CollectKey, sketchVars, controllerVars
<1> HIDE DEF c, i, k, out
<1>2. Arrived(src) # <<>> /\ Head(Arrived(src)).op \in {"START", "COL"}
  BY <1>1 DEF Arrives
<1>3. hostQ' = IF src = "host" THEN Tail(hostQ) ELSE hostQ
  BY <1>1 DEF Pass
<1>4. Head(Arrived(src)).op = "START" \/ keyIdx[ColCopy] # 0
  BY <1>1, <1>2 DEF CopyCollectedBy, c
<1>5. c = CopyCollectedBy(src)
  BY DEF c
<1>6. /\ c \in Copies /\ ColCopy' = c /\ epoch' \in 0 .. EpochMod - 1
      /\ pc \in {"waitVals", "recvVals"}
      /\ Dones(0) /\ Kind("KEYVAL") /\ Reporting = {}
      /\ Behind \in Nat /\ Behind + keyIdx[c] =< NKEYS
      /\ hostQ' \in Seq(Request) /\ RequestsInOrder' /\ Ops(hostQ)' \subseteq Ops(hostQ)
      /\ "START" \notin Ops(hostQ)' /\ "RST_START" \notin Ops(mirrorQ)
      /\ resetIdx \in {NDATA, RSTIDX_MID}
      /\ resetIdx = RSTIDX_MID => "RST_START" \notin Ops(hostQ)'
  BY <1>1, <1>3, <1>4, <1>5, CollectReady
<1>7. i \in 0 .. NKEYS /\ i + 1 = keyIdx[c] /\ i =< keyIdx[c] /\ i \in 0 .. keyIdx[c] - 1
  <2>1. keyIdx[c] \in 0 .. NKEYS
    BY <1>6 DEF TypeOK, DataPlaneTypeOK
  <2> QED
    BY <1>1, <2>1, DataPlaneAssumption DEF i
<1>8. k \in Keys
  BY <1>6, <1>7 DEF BuffersOK, k
<1>9. CmRead(c, k) \in Val
  BY <1>6, <1>8, CmReadIs
<1>10. /\ BuffersOK' /\ Marked' /\ keyIdx' \in [Copies -> 0 .. NKEYS] /\ keyIdx'[c] = i
       /\ newKeys' \subseteq Keys /\ seen' \in [Keys -> Nat] /\ closed' \in [Keys -> Nat]
  <2>1. UNCHANGED <<bfX, bfY, keyBuf>>
    BY <1>1
  <2> QED
    BY <1>1, <1>3, <1>4, <1>5, <1>7, <2>1, BuffersCollected
<1> DEFINE op == NextCollectOp(i)
<1>11. Goes(out, op) /\ op \in {"COL", "RST_START"} /\ (op = "RST_START" => i = 0)
  <2>1. op \in {"COL", "RST_START"} /\ (op = "RST_START" => i = 0) /\ op \in KeylessOps
    BY DEF NextCollectOp, KeylessOps
  <2>2. Again(src, op) \in Mirrored /\ Again(src, op).op = op
    BY <1>2, <2>1, AgainIs DEF KeylessOps
  <2> QED
    BY <2>1, <2>2 DEF Goes, out
<1> HIDE DEF op
<1>12. Round(out)
  BY <1>11 DEF Round
<1>13. Goes(out, "RST_START") => "RST_START" \notin Ops(mirrorQ)
  BY <1>6
<1>14. /\ MirrorOK' /\ mirrorQ' \in Seq(Mirrored)
       /\ Ops(mirrorQ') \subseteq Ops(mirrorQ) \cup {op}
       /\ Reporting' = {}
  BY <1>1, <1>2, <1>6, <1>11, <1>12, <1>13, MirrorPass
<1>15. "RST_START" \in Ops(mirrorQ') => i = 0
  BY <1>6, <1>11, <1>14
<1>16. Stage(0)'
  BY <1>1, <1>6, <1>10, <1>15, StillCollecting
<1>a. (Kind("KEYVAL") /\ Reporting = {})' => ReportsOK'
  BY NoReports, PTL
<1>17. CASE k \in HotKeys
  <2>1. UNCHANGED <<msgBuf, msgAddr, cq>> /\ epochData' = [epochData EXCEPT ![k] = CmRead(c, k)]
    BY <1>1, <1>17 DEF SendNothing
  <2>2. RingOK' /\ Behind' = Behind /\ Dones(0)' /\ Kind("KEYVAL")'
    BY <1>1, <1>6, <2>1, RingUntouched
  <2>3. epochData' \in [Keys -> Val]
    BY <1>8, <1>9, <2>1 DEF TypeOK, WireTypeOK
  <2>4. TypeOK'
    BY <1>1, <1>6, <1>10, <1>14, <2>1, <2>3 DEF TypeOK, WireTypeOK, DataPlaneTypeOK, ControllerTypeOK
  <2>5. Behind' - 0 + keyIdx'[ColCopy'] =< NKEYS
    BY <1>6, <1>7, <1>10, <2>2, DataPlaneAssumption
  <2>6. PhaseOK'
    BY <1>1, <1>6, <1>16, <2>2, <2>5 DEF PhaseOK
  <2>7. ReportsOK'
    BY <1>14, <1>a, <2>2
  <2>8. PushAwaited'
    BY <1>1, <1>6 DEF PushAwaited
  <2> QED
    BY <1>6, <1>10, <1>14, <2>2, <2>4, <2>6, <2>7, <2>8
<1>18. CASE k \notin HotKeys
  <2>1. SendMsg("KEYVAL", k, CmRead(c, k)) /\ UNCHANGED epochData
    BY <1>1, <1>18
  <2>2. Behind < MSGS - 1
    BY <1>6, <1>7, DataPlaneAssumption, WireAssumption DEF Fits
  <2>3. UNCHANGED <<msgHead, msgTail>>
    BY <1>1
  <2>4. /\ RingOK' /\ Behind' = Behind + 1
        /\ msgBuf' \in [Slot -> Msg] /\ msgAddr' \in Slot /\ cq' \in Seq(Slot)
    BY <1>8, <1>9, <2>1, <2>2, <2>3, SendMsgKeepsRing
  <2>5. Dones(0)' /\ Kind("KEYVAL")'
    BY <1>6, <1>8, <1>9, <2>1, <2>2, <2>3, SendMsgCounts
  <2>6. TypeOK'
    BY <1>1, <1>6, <1>10, <1>14, <2>1, <2>4 DEF TypeOK, WireTypeOK, DataPlaneTypeOK, ControllerTypeOK
  <2>7. Behind' - 0 + keyIdx'[ColCopy'] =< NKEYS
    BY <1>6, <1>7, <1>10, <2>4, DataPlaneAssumption
  <2>8. PhaseOK'
    BY <1>1, <1>6, <1>16, <2>5, <2>7 DEF PhaseOK
  <2>9. ReportsOK'
    BY <1>14, <1>a, <2>5
  <2>10. PushAwaited'
    BY <1>1, <1>6 DEF PushAwaited
  <2> QED
    BY <1>6, <1>10, <1>14, <2>4, <2>6, <2>8, <2>9, <2>10
<1> QED
  BY <1>17, <1>18

(* A collect packet finds no key.                                          *)
LEMMA CollectNothingInStep ==
  ASSUME Fits, InStep, NEW src \in Sources, CollectNothing(src), CloseSubWindow,
         UNCHANGED <<controllerVars, window, switches>>
  PROVE  InStep'
<1> USE DEF InStep
<1> DEFINE c == CopyCollectedBy(src)
           op == IF Head(Arrived(src)).op = "START" THEN "RST_START" ELSE "RST"
           out == << Again(src, op) >>
<1>1. /\ Arrives(src, {"START", "COL"}) /\ keyIdx[c] = 0 /\ SwitchEpoch(src)
      /\ Pass(src, out)
      /\ UNCHANGED <<msgBuf, msgAddr, cq>>
      /\ UNCHANGED <<resetIdx, bfX, bfY, cmX, cmY, keyIdx, keyBuf, epochData>>
      /\ UNCHANGED <<pc, msgHead, msgTail, overflowKeys, inserted, mergedData, abnormalKeys, curEpoch>>
      /\ UNCHANGED <<window, switches>>
  BY DEF CollectNothing, SendNothing, sketchVars, controllerVars
<1>2. Arrived(src) # <<>> /\ Head(Arrived(src)).op \in {"START", "COL"}
  BY <1>1 DEF Arrives
<1>3. hostQ' = IF src = "host" THEN Tail(hostQ) ELSE hostQ
  BY <1>1 DEF Pass
<1>4. Goes(out, op) /\ op \in {"RST", "RST_START"}
  <2>1. op \in {"RST", "RST_START"} /\ op \in KeylessOps
    BY DEF KeylessOps
  <2>2. Again(src, op) \in Mirrored /\ Again(src, op).op = op
    BY <1>2, <2>1, AgainIs DEF KeylessOps
  <2> QED
    BY <2>1, <2>2 DEF Goes
<1>5. Round(out)
  BY <1>4 DEF Round
<1>6. c = CopyCollectedBy(src)
  OBVIOUS
<1>7. CASE Head(Arrived(src)).op = "START"
  <2>1. op = "RST_START"
    BY <1>7
  <2> HIDE DEF c, op, out
  <2>2. /\ c \in Copies /\ ColCopy' = c /\ epoch' \in 0 .. EpochMod - 1
        /\ pc \in {"waitVals", "recvVals"}
        /\ Dones(0) /\ Kind("KEYVAL") /\ Reporting = {}
        /\ Behind \in Nat /\ Behind + keyIdx[c] =< NKEYS
        /\ hostQ' \in Seq(Request) /\ RequestsInOrder' /\ Ops(hostQ)' \subseteq Ops(hostQ)
        /\ "START" \notin Ops(hostQ)' /\ "RST_START" \notin Ops(mirrorQ)
        /\ resetIdx \in {NDATA, RSTIDX_MID}
        /\ resetIdx = RSTIDX_MID => "RST_START" \notin Ops(hostQ)'
    BY <1>1, <1>3, <1>6, <1>7, CollectReady
  <2>3. 0 \in 0 .. NKEYS /\ 0 =< keyIdx[c] /\ keyIdx' = [keyIdx EXCEPT ![c] = 0]
    BY <1>1, <2>2, DataPlaneAssumption DEF TypeOK, DataPlaneTypeOK
  <2>4. /\ BuffersOK' /\ Marked' /\ keyIdx' \in [Copies -> 0 .. NKEYS] /\ keyIdx'[c] = 0
        /\ newKeys' \subseteq Keys /\ seen' \in [Keys -> Nat] /\ closed' \in [Keys -> Nat]
    <3>1. UNCHANGED <<bfX, bfY, keyBuf>>
      BY <1>1
    <3> QED
      BY <1>1, <1>3, <1>6, <1>7, <2>3, <3>1, BuffersCollected
  <2>5. Goes(out, "RST_START") => "RST_START" \notin Ops(mirrorQ)
    BY <2>2
  <2>6. MirrorOK' /\ mirrorQ' \in Seq(Mirrored) /\ Reporting' = {}
    BY <1>1, <1>2, <1>5, <2>2, <2>5, MirrorPass
  <2>7. Stage(0)'
    BY <1>1, <2>2, <2>4, StillCollecting
  <2>8. RingOK' /\ Behind' = Behind /\ Dones(0)' /\ Kind("KEYVAL")'
    BY <1>1, <2>2, RingUntouched
  <2>9. TypeOK'
    BY <1>1, <2>2, <2>4, <2>6 DEF TypeOK, WireTypeOK, DataPlaneTypeOK, ControllerTypeOK
  <2>10. Behind' - 0 + keyIdx'[ColCopy'] =< NKEYS
    BY <1>1, <2>2, <2>4, <2>8, DataPlaneAssumption
  <2>11. PhaseOK'
    BY <1>1, <2>2, <2>7, <2>8, <2>10 DEF PhaseOK
  <2>12. ReportsOK'
    <3>1. (Kind("KEYVAL") /\ Reporting = {})' => ReportsOK'
      BY NoReports, PTL
    <3> QED
      BY <2>6, <2>8, <3>1
  <2>13. PushAwaited'
    BY <1>1, <2>2 DEF PushAwaited
  <2> QED
    BY <2>2, <2>4, <2>6, <2>8, <2>9, <2>11, <2>12, <2>13
<1>8. CASE Head(Arrived(src)).op # "START"
  <2>1. op = "RST"
    BY <1>8
  <2> HIDE DEF c, op, out
  <2>2. epoch' = epoch
    BY <1>1, <1>8 DEF SwitchEpoch
  <2>3. UNCHANGED <<closed, seen, newKeys>>
    BY <2>2 DEF CloseSubWindow
  <2>4. Goes(out, "RST") /\ "RST" \in {"COL", "RST_START", "RST"} /\ ~Goes(out, "RST_START")
    BY <1>4, <2>1 DEF Goes
  <2>5. /\ MirrorOK' /\ mirrorQ' \in Seq(Mirrored) /\ Ops(mirrorQ') \subseteq Ops(mirrorQ) \cup {"RST"}
        /\ \E s \in {0, 1} : \A i \in Reporting' : i + s \in Reporting /\ mirrorQ'[i] = mirrorQ[i + s]
    BY <1>1, <1>2, <1>5, <2>4, MirrorPass
  <2>6. hostQ' \in Seq(Request) /\ RequestsInOrder' /\ Ops(hostQ)' \subseteq Ops(hostQ)
    <3>1. CASE src = "host"
      <4>1. hostQ # <<>> /\ hostQ' = Tail(hostQ)
        BY <1>2, <1>3, <3>1 DEF Arrived
      <4> QED
        BY <4>1, RequestLeaves
    <3>2. CASE src # "host"
      <4>1. hostQ' = hostQ
        BY <1>3, <3>2
      <4> QED
        BY <4>1 DEF RequestsInOrder, TypeOK, WireTypeOK
    <3> QED
      BY <3>1, <3>2
  <2>7. TypeOK'
    BY <1>1, <2>2, <2>3, <2>5, <2>6 DEF TypeOK, WireTypeOK, DataPlaneTypeOK, ControllerTypeOK
  <2>8. PhaseOK' /\ RingOK' /\ Reported' = Reported
    <3>1. /\ UNCHANGED <<pc, msgHead, msgTail, msgAddr, msgBuf, cq>> /\ UNCHANGED <<epoch, resetIdx>>
          /\ keyIdx' = keyIdx
      BY <1>1, <2>2
    <3>2. \A i \in Cell : ZeroAt(ColCopy, i) => ZeroAt(ColCopy, i)'
      BY <1>1, <2>2 DEF ZeroAt, ColCopy
    <3>3. Ops(mirrorQ)' \subseteq Ops(mirrorQ) \cup {"COL", "RST", "KEY"}
      BY <2>5
    <3> QED
      BY <2>6, <3>1, <3>2, <3>3, PhaseLasts
  <2>9. PushAwaited' /\ BuffersOK' /\ Marked' /\ Overflowing' = Overflowing
    BY <1>1, <2>2, <2>3, <2>6 DEF PushAwaited, BuffersOK, Marked, LooksNew, Stored, ActiveCopy, Overflowing
  <2>10. ReportsOK'
    <3>1. PICK s \in {0, 1} : \A i \in Reporting' : i + s \in Reporting /\ mirrorQ'[i] = mirrorQ[i + s]
      BY <2>5
    <3>2. \A t \in Reported' : t \in Reported /\ msgBuf'[t] = msgBuf[t]
      BY <1>1, <2>8
    <3>3. Reporting' # {} => pc' \in {"idle", "exit"}
      BY <1>1, <3>1 DEF ReportsOK
    <3> QED
      BY <2>9, <3>1, <3>2, <3>3, ReportsKept
  <2> QED
    BY <2>5, <2>6, <2>7, <2>8, <2>9, <2>10
<1> QED
  BY <1>7, <1>8

-----------------------------------------------------------------------------
(***************************************************************************)
(* The reset.                                                              *)
(***************************************************************************)

(* The index a reset packet gets is a cell, or NDATA for none.             *)
LEMMA ResetIdxIs ==
  ASSUME TypeOK, NEW op
  PROVE  /\ ResetIdxGot(op) \in 0 .. NDATA
         /\ ResetIdxGot(op) = NDATA => ResetIdxGot(op) % NDATA = 0
         /\ ResetIdxGot(op) # NDATA => ResetIdxGot(op) % NDATA = ResetIdxGot(op) /\ ResetIdxGot(op) \in Cell
<1>1. NDATA \in Nat \ {0, 1} /\ resetIdx \in 0 .. NDATA \cup {RSTIDX_MID}
  BY DataPlaneAssumption DEF TypeOK, DataPlaneTypeOK
<1>2. ResetIdxGot(op) \in 0 .. NDATA
  BY <1>1 DEF ResetIdxGot
<1>3. PICK x \in 0 .. NDATA : x = ResetIdxGot(op)
  BY <1>2
<1>4. x = NDATA => x % NDATA = 0
  <2>1. NDATA % NDATA = 0
    BY <1>1
  <2> QED
    BY <2>1
<1>5. x # NDATA => x % NDATA = x /\ x \in Cell
  BY <1>1 DEF Cell
<1> QED
  BY <1>3, <1>4, <1>5

(* It clears cells of the collected copy and no others.                    *)
LEMMA ResetClears ==
  ASSUME TypeOK, NEW src \in Sources, ResetPacket(src)
  PROVE  /\ bfX' \in [Copies -> [Cell -> {0, 1}]] /\ bfY' \in [Copies -> [Cell -> {0, 1}]]
         /\ cmX' \in [Copies -> [Cell -> Val]] /\ cmY' \in [Copies -> [Cell -> Val]]
         /\ bfX'[ActiveCopy] = bfX[ActiveCopy] /\ bfY'[ActiveCopy] = bfY[ActiveCopy]
         /\ ActiveCopy' = ActiveCopy /\ ColCopy' = ColCopy
         /\ \A i \in Cell : ZeroAt(ColCopy, i) => ZeroAt(ColCopy, i)'
         /\ \E x \in 0 .. NDATA : /\ x = ResetIdxGot(Head(Arrived(src)).op)
                                  /\ x # NDATA => ZeroAt(ColCopy, x)'
<1>0. PICK x \in 0 .. NDATA : x = ResetIdxGot(Head(Arrived(src)).op)
  BY ResetIdxIs
<1> DEFINE c == ColCopy
           z == x % NDATA
<1>1. c \in Copies /\ ActiveCopy \in Copies /\ c # ActiveCopy
  BY TheCopies
<1>2. /\ bfX \in [Copies -> [Cell -> {0, 1}]] /\ bfY \in [Copies -> [Cell -> {0, 1}]]
      /\ cmX \in [Copies -> [Cell -> Val]] /\ cmY \in [Copies -> [Cell -> Val]]
  BY DEF TypeOK, DataPlaneTypeOK
<1>3. x \in 0 .. NDATA /\ (x = NDATA => z = 0) /\ (x # NDATA => z = x /\ x \in Cell)
  BY <1>0, ResetIdxIs
<1>4. /\ bfX' = [bfX EXCEPT ![c][z] = 0] /\ bfY' = [bfY EXCEPT ![c][z] = 0]
      /\ cmX' = IF x # NDATA THEN [cmX EXCEPT ![c][x] = 0] ELSE cmX
      /\ cmY' = IF x # NDATA THEN [cmY EXCEPT ![c][x] = 0] ELSE cmY
      /\ epoch' = epoch
  BY <1>0 DEF ResetPacket, ClearCell
<1>5. z \in Cell /\ 0 \in Val
  BY <1>3, DataPlaneAssumption, WireAssumption DEF Cell, Val
<1>6. ActiveCopy' = ActiveCopy /\ ColCopy' = c
  BY <1>4 DEF ActiveCopy, ColCopy
<1> HIDE DEF c, z
<1>7. /\ bfX' \in [Copies -> [Cell -> {0, 1}]] /\ bfY' \in [Copies -> [Cell -> {0, 1}]]
      /\ bfX'[ActiveCopy] = bfX[ActiveCopy] /\ bfY'[ActiveCopy] = bfY[ActiveCopy]
      /\ \A i \in Cell : /\ bfX'[c][i] = (IF i = z THEN 0 ELSE bfX[c][i])
                         /\ bfY'[c][i] = (IF i = z THEN 0 ELSE bfY[c][i])
  BY <1>1, <1>2, <1>4, <1>5
<1>8. /\ cmX' \in [Copies -> [Cell -> Val]] /\ cmY' \in [Copies -> [Cell -> Val]]
      /\ \A i \in Cell : /\ cmX'[c][i] = (IF x # NDATA /\ i = x THEN 0 ELSE cmX[c][i])
                         /\ cmY'[c][i] = (IF x # NDATA /\ i = x THEN 0 ELSE cmY[c][i])
  BY <1>1, <1>2, <1>3, <1>4, <1>5
<1>9. \A i \in Cell : ZeroAt(c, i) => ZeroAt(ColCopy, i)'
  BY <1>6, <1>7, <1>8 DEF ZeroAt
<1>10. x # NDATA => ZeroAt(ColCopy, x)'
  BY <1>3, <1>6, <1>7, <1>8 DEF ZeroAt
<1> QED
  BY <1>0, <1>6, <1>7, <1>8, <1>9, <1>10 DEF c

(* What every reset packet does to the queues, the buffers and the reports *)
(* that are about: it goes round as RST or ends.                           *)
LEMMA ResetPasses ==
  ASSUME InStep, NEW src \in Sources, Reset(src)
  PROVE  /\ hostQ' \in Seq(Request) /\ RequestsInOrder' /\ Ops(hostQ)' \subseteq Ops(hostQ)
         /\ mirrorQ' \in Seq(Mirrored) /\ MirrorOK'
         /\ Ops(mirrorQ)' \subseteq Ops(mirrorQ) \cup {"RST"}
         /\ BuffersOK' /\ Marked' /\ Overflowing' = Overflowing
         /\ resetIdx' = ResetIdxLeft(Head(Arrived(src)).op)
         /\ Head(Arrived(src)).op = "RST_START" => "RST_START" \in Ops(hostQ) \cup Ops(mirrorQ)
         /\ src = "host" /\ Head(Arrived(src)).op = "RST_START" =>
              "RST_START" \in Ops(hostQ) /\ Ops(hostQ)' \subseteq {"RST", "PUSH"}
         /\ src = "mirror" /\ Head(Arrived(src)).op = "RST_START" =>
              "RST_START" \in Ops(mirrorQ) /\ "RST_START" \notin Ops(mirrorQ)' /\ hostQ' = hostQ
         /\ Head(Arrived(src)).op = "PUSH" => "PUSH" \in Ops(hostQ) /\ "PUSH" \notin Ops(hostQ)'
         /\ \E s \in {0, 1} : \A i \in Reporting' : i + s \in Reporting /\ mirrorQ'[i] = mirrorQ[i + s]
         /\ UNCHANGED <<pc, msgHead, msgTail, overflowKeys, inserted, mergedData, abnormalKeys, curEpoch>>
         /\ UNCHANGED <<seen, newKeys, closed, window, switches>>
         /\ UNCHANGED <<epoch, keyIdx, keyBuf, epochData>>
<1> USE DEF InStep
<1> DEFINE op == Head(Arrived(src)).op
           x == ResetIdxGot(op)
           out == IF x # NDATA THEN << Again(src, "RST") >> ELSE <<>>
<1>1. /\ Arrives(src, {"RST_START", "RST", "PUSH"})
      /\ resetIdx' = ResetIdxLeft(op)
      /\ Pass(src, out)
      /\ UNCHANGED <<pc, msgHead, msgTail, overflowKeys, inserted, mergedData, abnormalKeys, curEpoch>>
      /\ UNCHANGED <<seen, newKeys, closed, window, switches>>
      /\ UNCHANGED <<epoch, keyIdx, keyBuf, epochData>>
  BY DEF Reset, ResetPacket, controllerVars, historyVars
<1>2. Arrived(src) # <<>> /\ op \in {"RST_START", "RST", "PUSH"}
  BY <1>1 DEF Arrives
<1>3. (out = <<>> \/ Goes(out, "RST")) /\ ~Goes(out, "RST_START")
  <2>1. Again(src, "RST") \in Mirrored /\ Again(src, "RST").op = "RST"
    BY <1>2, AgainIs DEF KeylessOps
  <2>2. \A m \in Mirrored : m.op = "RST_START" => out # << m >>
    BY <2>1
  <2> QED
    BY <2>1, <2>2 DEF Goes
<1>4. Round(out)
  BY <1>3 DEF Round
<1> HIDE DEF out, x
<1>5. /\ MirrorOK' /\ mirrorQ' \in Seq(Mirrored)
      /\ Ops(mirrorQ)' \subseteq Ops(mirrorQ) \cup {"RST"}
      /\ src = "mirror" /\ op = "RST_START" => "RST_START" \notin Ops(mirrorQ)'
      /\ \E s \in {0, 1} : \A i \in Reporting' : i + s \in Reporting /\ mirrorQ'[i] = mirrorQ[i + s]
  <2>1. /\ MirrorOK' /\ mirrorQ' \in Seq(Mirrored)
        /\ out = <<>> => Ops(mirrorQ') \subseteq Ops(mirrorQ)
        /\ \A o \in {"COL", "RST_START", "RST"} :
             Goes(out, o) => Ops(mirrorQ') \subseteq Ops(mirrorQ) \cup {o}
        /\ src = "mirror" /\ Head(mirrorQ).op = "RST_START" => "RST_START" \notin Ops(mirrorQ')
        /\ \E s \in {0, 1} : \A i \in Reporting' : i + s \in Reporting /\ mirrorQ'[i] = mirrorQ[i + s]
    BY <1>1, <1>2, <1>3, <1>4, MirrorPass
  <2>2. src = "mirror" => op = Head(mirrorQ).op
    BY DEF Arrived
  <2> QED
    BY <1>3, <2>1, <2>2
<1>6. /\ hostQ' \in Seq(Request) /\ RequestsInOrder' /\ Ops(hostQ)' \subseteq Ops(hostQ)
      /\ src = "host" => op \in Ops(hostQ)
      /\ src = "host" /\ op = "RST_START" => Ops(hostQ)' \subseteq {"RST", "PUSH"}
      /\ src = "host" /\ op = "PUSH" => "PUSH" \notin Ops(hostQ)'
      /\ src = "mirror" => hostQ' = hostQ
  <2>1. CASE src = "host"
    <3>1. hostQ # <<>> /\ hostQ' = Tail(hostQ) /\ op = Head(hostQ).op /\ src # "mirror"
      BY <1>1, <1>2, <2>1 DEF Arrived, Pass
    <3> HIDE DEF op
    <3> QED
      BY <3>1, RequestLeaves
  <2>2. CASE src # "host"
    <3>1. hostQ' = hostQ
      BY <1>1, <2>2 DEF Pass
    <3> QED
      BY <2>2, <3>1 DEF RequestsInOrder, TypeOK, WireTypeOK
  <2> QED
    BY <2>1, <2>2
<1>7. src = "mirror" => op \in Ops(mirrorQ) /\ op # "PUSH"
  <2> SUFFICES ASSUME src = "mirror" PROVE op \in Ops(mirrorQ) /\ op # "PUSH"
    OBVIOUS
  <2>1. mirrorQ # <<>> /\ op = Head(mirrorQ).op
    BY <1>2 DEF Arrived
  <2>2. mirrorQ \in Seq(Mirrored)
    BY DEF TypeOK, DataPlaneTypeOK
  <2>3. Head(mirrorQ) = mirrorQ[1] /\ 1 \in 1 .. Len(mirrorQ)
    BY <2>1, <2>2, TailIs
  <2>4. op \in Ops(mirrorQ)
    BY <2>1, <2>3 DEF Ops
  <2> QED
    BY <2>4 DEF MirrorOK
<1>8. BuffersOK' /\ Marked' /\ Overflowing' = Overflowing
  <2>1. bfX'[ActiveCopy] = bfX[ActiveCopy] /\ bfY'[ActiveCopy] = bfY[ActiveCopy]
    <3>1. ResetPacket(src)
      BY DEF Reset
    <3> QED
      BY <3>1, ResetClears
  <2>2. keyIdx' = keyIdx /\ keyIdx \in [Copies -> 0 .. NKEYS]
    BY <1>1 DEF TypeOK, DataPlaneTypeOK
  <2>3. \A d \in Copies : keyIdx'[d] =< keyIdx[d]
    BY <2>2, DataPlaneAssumption
  <2> QED
    BY <1>1, <2>1, <2>2, <2>3, KeysKept
<1>9. src = "host" \/ src = "mirror"
  BY DEF Sources
<1> QED
  BY <1>1, <1>2, <1>5, <1>6, <1>7, <1>8, <1>9

(* A DONE message is one more of them, and leaves the rest.                *)
LEMMA DoneSent ==
  ASSUME TypeOK, RingOK, Behind < MSGS - 1, UNCHANGED <<msgHead, msgTail>>,
         SendMsg("DONE", NoKey, 0)
  PROVE  /\ RingOK' /\ Behind' = Behind + 1 /\ Reported' = Reported
         /\ \A t \in Reported : msgBuf'[t] = msgBuf[t]
         /\ msgBuf' \in [Slot -> Msg] /\ msgAddr' \in Slot /\ cq' \in Seq(Slot)
         /\ \A d \in Nat : Dones(d) => Dones(d + 1)'
         /\ Kind("KEY") => Kind("KEY")'
         /\ Kind("KEYVAL") => Kind("KEYVAL")'
<1>1. 0 \in Val /\ NoKey \in Keys \cup {NoKey} /\ "DONE" \in {"DONE", "KEY", "KEYVAL"}
  BY WireAssumption DEF Val
<1>2. /\ RingOK' /\ Behind' = Behind + 1
      /\ msgAddr \notin UnreadSlots /\ UnreadSlots' = UnreadSlots \cup {msgAddr}
      /\ msgBuf'[msgAddr] = [op |-> "DONE", key |-> NoKey, val |-> 0]
      /\ \A s \in UnreadSlots : msgBuf'[s] = msgBuf[s]
      /\ msgBuf' \in [Slot -> Msg] /\ msgAddr' \in Slot /\ cq' \in Seq(Slot)
  BY <1>1, SendMsgKeepsRing
<1>3. /\ \A d \in Nat : Dones(d) => Dones(d + 1)'
      /\ Kind("KEY") => Kind("KEY")'
      /\ Kind("KEYVAL") => Kind("KEYVAL")'
  <2>1. PICK o \in {"DONE", "KEY", "KEYVAL"} : o = "DONE" /\ SendMsg(o, NoKey, 0)
    BY <1>1
  <2>2. \A d \in Nat : Dones(d) /\ o = "DONE" => Dones(d + 1)'
    BY <1>1, <2>1, SendMsgCounts
  <2>3. Kind("KEY") => Kind("KEY")'
    BY <1>1, <2>1, SendMsgCounts
  <2>4. Kind("KEYVAL") => Kind("KEYVAL")'
    BY <1>1, <2>1, SendMsgCounts
  <2>5. \A d \in Nat : Dones(d) => Dones(d + 1)'
    BY <2>1, <2>2
  <2> QED
    BY <2>3, <2>4, <2>5
<1>4. Reported' = Reported /\ \A t \in Reported : msgBuf'[t] = msgBuf[t]
  BY <1>2 DEF Reported
<1> QED
  BY <1>2, <1>3, <1>4

(* What is left to see of a reset packet is the ring and the phase.        *)
LEMMA ResetRest ==
  ASSUME InStep, NEW src \in Sources, Reset(src), Reported' = Reported,
         \A t \in Reported : msgBuf'[t] = msgBuf[t],
         msgBuf' \in [Slot -> Msg], msgAddr' \in Slot, cq' \in Seq(Slot),
         RingOK', PhaseOK'
  PROVE  InStep'
<1> USE DEF InStep
<1>1. /\ hostQ' \in Seq(Request) /\ RequestsInOrder' /\ Ops(hostQ)' \subseteq Ops(hostQ)
      /\ mirrorQ' \in Seq(Mirrored) /\ MirrorOK'
      /\ BuffersOK' /\ Marked' /\ Overflowing' = Overflowing
      /\ resetIdx' = ResetIdxLeft(Head(Arrived(src)).op)
      /\ \E s \in {0, 1} : \A i \in Reporting' : i + s \in Reporting /\ mirrorQ'[i] = mirrorQ[i + s]
      /\ UNCHANGED <<pc, msgHead, msgTail, overflowKeys, inserted, mergedData, abnormalKeys, curEpoch>>
      /\ UNCHANGED <<seen, newKeys, closed, window, switches>>
      /\ UNCHANGED <<epoch, keyIdx, keyBuf, epochData>>
  BY ResetPasses
<1>2. resetIdx' \in 0 .. NDATA \cup {RSTIDX_MID}
  BY <1>1, DataPlaneAssumption DEF ResetIdxLeft, TypeOK, DataPlaneTypeOK
<1>3. /\ bfX' \in [Copies -> [Cell -> {0, 1}]] /\ bfY' \in [Copies -> [Cell -> {0, 1}]]
      /\ cmX' \in [Copies -> [Cell -> Val]] /\ cmY' \in [Copies -> [Cell -> Val]]
  <2>1. ResetPacket(src)
    BY DEF Reset
  <2> QED
    BY <2>1, ResetClears
<1>4. TypeOK'
  BY <1>1, <1>2, <1>3 DEF TypeOK, WireTypeOK, DataPlaneTypeOK, ControllerTypeOK
<1>5. ReportsOK'
  <2>1. PICK s \in {0, 1} : \A i \in Reporting' : i + s \in Reporting /\ mirrorQ'[i] = mirrorQ[i + s]
    BY <1>1
  <2>2. \A t \in Reported' : t \in Reported /\ msgBuf'[t] = msgBuf[t]
    OBVIOUS
  <2>3. Reporting' # {} => pc' \in {"idle", "exit"}
    BY <1>1, <2>1 DEF ReportsOK
  <2> QED
    BY <1>1, <2>1, <2>2, <2>3, ReportsKept
<1>6. PushAwaited'
  BY <1>1 DEF PushAwaited
<1> QED
  BY <1>1, <1>4, <1>5, <1>6

(* An RST_START opens the reset, or waits for the other one.               *)
LEMMA RstStartInStep ==
  ASSUME Fits, InStep, NEW src \in Sources, Reset(src), Head(Arrived(src)).op = "RST_START"
  PROVE  InStep'
<1> USE DEF InStep
<1>1. /\ Ops(hostQ)' \subseteq Ops(hostQ)
      /\ Ops(mirrorQ)' \subseteq Ops(mirrorQ) \cup {"RST"}
      /\ resetIdx' = ResetIdxLeft("RST_START")
      /\ "RST_START" \in Ops(hostQ) \cup Ops(mirrorQ)
      /\ src = "host" => "RST_START" \in Ops(hostQ) /\ Ops(hostQ)' \subseteq {"RST", "PUSH"}
      /\ src = "mirror" => /\ "RST_START" \in Ops(mirrorQ) /\ "RST_START" \notin Ops(mirrorQ)'
                           /\ hostQ' = hostQ
      /\ UNCHANGED <<pc, msgHead, msgTail, epoch, keyIdx>>
  BY ResetPasses
<1>2. ResetPacket(src)
  BY DEF Reset
<1>0. PICK x \in 0 .. NDATA : /\ x = ResetIdxGot("RST_START")
                              /\ x # NDATA => ZeroAt(ColCopy, x)'
  BY <1>2, ResetClears
<1>3. ColCopy' = ColCopy
  BY <1>2, ResetClears
<1>4. IF IsDone("RST_START", x) THEN SendMsg("DONE", NoKey, 0) ELSE SendNothing
  BY <1>0, <1>2 DEF ResetPacket
<1>5. ~Calm
  BY <1>1 DEF Calm
<1>6. pc \in {"waitVals", "recvVals"} /\ Collecting /\ Dones(0) /\ Kind("KEYVAL")
      /\ Behind - 0 + keyIdx[ColCopy] =< NKEYS
  BY <1>5, CollectMeans DEF TypeOK, ControllerTypeOK, Phases
<1>7. Behind \in Nat /\ keyIdx[ColCopy] \in 0 .. NKEYS
  <2>1. Behind \in Nat
    BY DistIs, WireAssumption DEF TypeOK, DataPlaneTypeOK, ControllerTypeOK, Behind, Off
  <2>2. keyIdx[ColCopy] \in 0 .. NKEYS
    BY TheCopies DEF TypeOK, DataPlaneTypeOK
  <2> QED
    BY <2>1, <2>2
<1>8. keyIdx'[ColCopy'] = keyIdx[ColCopy]
  BY <1>1, <1>3
<1>9. NDATA \in Nat \ {0, 1} /\ NKEYS \in Nat \ {0} /\ RSTIDX_MID = NDATA * 3
  BY DataPlaneAssumption DEF RSTIDX_MID
<1>10. "START" \notin Ops(hostQ)'
  <2>1. CASE src = "host"
    BY <1>1, <2>1
  <2>2. CASE src = "mirror"
    BY <1>1, <1>6, <2>2 DEF Collecting
  <2> QED
    BY <2>1, <2>2 DEF Sources
<1>11. src = "host" \/ src = "mirror"
  BY DEF Sources
<1>12. CASE resetIdx = NDATA
  <2>1. x = NDATA /\ resetIdx' = RSTIDX_MID /\ ~IsDone("RST_START", x)
    BY <1>0, <1>1, <1>9, <1>12 DEF ResetIdxGot, ResetIdxLeft, IsDone
  <2>2. UNCHANGED <<msgBuf, msgAddr, cq>>
    BY <1>4, <2>1 DEF SendNothing
  <2>3. RingOK' /\ Behind' = Behind /\ Reported' = Reported /\ Dones(0)' /\ Kind("KEYVAL")'
    BY <1>1, <1>6, <2>2, RingUntouched
  <2>4. "RST_START" \in Ops(mirrorQ)' => keyIdx'[ColCopy'] = 0
    BY <1>1, <1>6, <1>8 DEF Collecting
  <2>5. "RST_START" \in Ops(hostQ)' => keyIdx'[ColCopy'] = 0 /\ "RST_START" \notin Ops(mirrorQ)'
    BY <1>1, <1>6, <1>8, <1>11 DEF Collecting
  <2>6. Stage(0)'
    BY <1>10, <2>1, <2>4, <2>5 DEF Stage, Collecting
  <2>7. Behind' - 0 + keyIdx'[ColCopy'] =< NKEYS
    BY <1>6, <1>8, <2>3
  <2>8. PhaseOK'
    BY <1>1, <1>6, <2>3, <2>6, <2>7 DEF PhaseOK
  <2>9. msgBuf' \in [Slot -> Msg] /\ msgAddr' \in Slot /\ cq' \in Seq(Slot)
    BY <2>2 DEF TypeOK, WireTypeOK, DataPlaneTypeOK
  <2> QED
    BY <2>2, <2>3, <2>8, <2>9, ResetRest
<1>13. CASE resetIdx = RSTIDX_MID
  <2>1. resetIdx # NDATA
    BY <1>9, <1>13
  <2>2. x = 0 /\ resetIdx' = 1 /\ IsDone("RST_START", x)
    BY <1>0, <1>1, <2>1 DEF ResetIdxGot, ResetIdxLeft, IsDone
  <2>3. SendMsg("DONE", NoKey, 0) /\ UNCHANGED <<msgHead, msgTail>>
    BY <1>1, <1>4, <2>2
  <2>4. Behind < MSGS - 1
    BY <1>6, <1>7, <1>9, WireAssumption DEF Fits
  <2>5. /\ RingOK' /\ Behind' = Behind + 1 /\ Reported' = Reported
        /\ \A t \in Reported : msgBuf'[t] = msgBuf[t]
        /\ msgBuf' \in [Slot -> Msg] /\ msgAddr' \in Slot /\ cq' \in Seq(Slot)
        /\ Dones(0 + 1)' /\ Kind("KEYVAL")'
    BY <1>6, <2>3, <2>4, DoneSent
  <2>6. /\ "RST_START" \notin Ops(mirrorQ)' /\ keyIdx[ColCopy] = 0
        /\ Ops(hostQ)' \subseteq {"RST", "PUSH"}
    <3>1. CASE src = "host"
      <4>1. "RST_START" \in Ops(hostQ) /\ Ops(hostQ)' \subseteq {"RST", "PUSH"}
        BY <1>1, <3>1
      <4>2. keyIdx[ColCopy] = 0 /\ "RST_START" \notin Ops(mirrorQ)
        BY <1>6, <1>13, <4>1 DEF Collecting
      <4> QED
        BY <1>1, <4>1, <4>2
    <3>2. CASE src = "mirror"
      <4>1. "RST_START" \in Ops(mirrorQ) /\ "RST_START" \notin Ops(mirrorQ)' /\ hostQ' = hostQ
        BY <1>1, <3>2
      <4>2. keyIdx[ColCopy] = 0 /\ "RST_START" \notin Ops(hostQ)
        BY <1>6, <1>13, <4>1 DEF Collecting
      <4>3. Ops(hostQ) \subseteq {"RST", "PUSH"}
        BY <4>2, NoRstStartIsCalm
      <4> QED
        BY <4>1, <4>2, <4>3
    <3> QED
      BY <1>11, <3>1, <3>2
  <2>7. \A i \in 0 .. resetIdx' - 1 : ZeroAt(ColCopy, i)'
    <3>1. ZeroAt(ColCopy, 0)'
      BY <1>0, <1>9, <2>2
    <3>2. \A i \in 0 .. resetIdx' - 1 : i = 0
      BY <2>2
    <3> QED
      BY <3>1, <3>2
  <2>8. Stage(1)'
    BY <1>8, <1>9, <2>2, <2>6, <2>7 DEF Stage, Resetting, Calm
  <2>9. Behind' - 1 + keyIdx'[ColCopy'] =< NKEYS
    BY <1>6, <1>7, <1>8, <2>5
  <2>10. PhaseOK'
    <3>1. Dones(1)'
      BY <2>5
    <3> QED
      BY <1>1, <1>6, <2>5, <2>8, <2>9, <3>1 DEF PhaseOK
  <2> QED
    BY <2>5, <2>10, ResetRest
<1> QED
  BY <1>6, <1>12, <1>13 DEF Collecting

(* An RST clears a cell, or ends; a PUSH is answered.                      *)
LEMMA RstInStep ==
  ASSUME Fits, InStep, NEW src \in Sources, Reset(src), Head(Arrived(src)).op \in {"RST", "PUSH"}
  PROVE  InStep'
<1> USE DEF InStep
<1>1. PICK op \in {"RST", "PUSH"} : op = Head(Arrived(src)).op
  OBVIOUS
<1>2. /\ Ops(hostQ)' \subseteq Ops(hostQ)
      /\ Ops(mirrorQ)' \subseteq Ops(mirrorQ) \cup {"RST"}
      /\ resetIdx' = ResetIdxLeft(op)
      /\ op = "PUSH" => "PUSH" \in Ops(hostQ) /\ "PUSH" \notin Ops(hostQ)'
      /\ UNCHANGED <<pc, msgHead, msgTail, epoch, keyIdx>>
  BY <1>1, ResetPasses
<1>3. ResetPacket(src)
  BY DEF Reset
<1>4. PICK x \in 0 .. NDATA : /\ x = ResetIdxGot(op)
                              /\ x # NDATA => ZeroAt(ColCopy, x)'
  BY <1>1, <1>3, ResetClears
<1>5. ColCopy' = ColCopy /\ \A i \in Cell : ZeroAt(ColCopy, i) => ZeroAt(ColCopy, i)'
  BY <1>3, ResetClears
<1>6. IF IsDone(op, x) THEN SendMsg("DONE", NoKey, 0) ELSE SendNothing
  BY <1>1, <1>3, <1>4 DEF ResetPacket
<1>7. Behind \in Nat
  BY DistIs, WireAssumption DEF TypeOK, DataPlaneTypeOK, ControllerTypeOK, Behind, Off
<1>8. keyIdx[ColCopy] \in 0 .. NKEYS /\ keyIdx'[ColCopy'] = keyIdx[ColCopy]
  BY <1>2, <1>5, TheCopies DEF TypeOK, DataPlaneTypeOK
<1>9. NDATA \in Nat \ {0, 1} /\ NKEYS \in Nat \ {0} /\ RSTIDX_MID = NDATA * 3
  BY DataPlaneAssumption DEF RSTIDX_MID
<1>10. resetIdx \in 0 .. NDATA \cup {RSTIDX_MID}
  BY DEF TypeOK, DataPlaneTypeOK
<1>11. Calm => Calm'
  BY <1>2, <1>8 DEF Calm
<1>12. msgBuf \in [Slot -> Msg] /\ msgAddr \in Slot /\ cq \in Seq(Slot)
  BY DEF TypeOK, WireTypeOK, DataPlaneTypeOK
<1>13. CASE resetIdx \in {NDATA, RSTIDX_MID}
  <2>1. x = NDATA /\ resetIdx' = resetIdx
    BY <1>2, <1>4, <1>9, <1>13 DEF ResetIdxGot, ResetIdxLeft
  <2>2. IsDone(op, x) <=> op = "PUSH"
    BY <1>9, <2>1 DEF IsDone
  <2>3. CASE op = "RST"
    <3>1. UNCHANGED <<msgAddr, msgBuf, cq>>
      BY <1>6, <2>2, <2>3 DEF SendNothing
    <3>2. Ops(mirrorQ)' \subseteq Ops(mirrorQ) \cup {"COL", "RST", "KEY"}
      BY <1>2
    <3>3. PhaseOK' /\ RingOK' /\ Reported' = Reported
      BY <1>2, <1>5, <2>1, <3>1, <3>2, PhaseLasts
    <3> QED
      BY <1>12, <3>1, <3>3, ResetRest
  <2>4. CASE op = "PUSH"
    <3>1. pc = "recvKeys"
      BY <1>2, <2>4 DEF PushAwaited
    <3>2. Cleared /\ Kind("KEY") /\ Dones(0)
      BY <1>2, <2>4, <3>1 DEF PhaseOK
    <3>3. Behind - 0 =< Cardinality(Keys) /\ Cardinality(Keys) \in Nat
      BY <3>2, ReportsFit DEF Fits
    <3>4. Behind < MSGS - 1
      BY <1>7, <3>3, WireAssumption DEF Fits
    <3>5. SendMsg("DONE", NoKey, 0) /\ UNCHANGED <<msgHead, msgTail>>
      BY <1>2, <1>6, <2>2, <2>4
    <3>6. /\ RingOK' /\ Behind' = Behind + 1 /\ Reported' = Reported
          /\ \A t \in Reported : msgBuf'[t] = msgBuf[t]
          /\ msgBuf' \in [Slot -> Msg] /\ msgAddr' \in Slot /\ cq' \in Seq(Slot)
          /\ Dones(0 + 1)' /\ Kind("KEY")'
      BY <3>2, <3>4, <3>5, DoneSent
    <3>7. Dones(1)'
      BY <3>6
    <3>8. Cleared'
      BY <1>2, <1>5, <1>8, <1>11, <2>1, <3>2 DEF Cleared, IsClean, ZeroAt
    <3>9. PhaseOK'
      BY <1>2, <2>4, <3>1, <3>6, <3>7, <3>8 DEF PhaseOK
    <3> QED
      BY <3>6, <3>9, ResetRest
  <2> QED
    BY <2>3, <2>4
<1>14. CASE resetIdx \notin {NDATA, RSTIDX_MID}
  <2>1. ~Cleared /\ ~Collecting
    BY <1>14 DEF Cleared, Collecting
  <2>2. \A d : Stage(d) => d = 1 /\ Resetting
    BY <2>1 DEF Stage
  <2>3. pc \in {"waitVals", "recvVals", "merge", "recvDone"}
    BY <2>1 DEF PhaseOK, TypeOK, ControllerTypeOK, Phases
  <2>4. op = "RST"
    BY <1>2, <2>3 DEF PushAwaited
  <2>5. /\ Resetting
        /\ pc \in {"waitVals", "recvVals"} =>
             Dones(1) /\ Kind("KEYVAL") /\ Behind - 1 + keyIdx[ColCopy] =< NKEYS
        /\ pc \in {"merge", "recvDone"} => Dones(0) /\ Behind = 0
    <3>1. CASE pc \in {"waitVals", "recvVals"}
      <4>1. PICK d \in {0, 1, 2} : Stage(d) /\ Dones(d) /\ Behind - d + keyIdx[ColCopy] =< NKEYS
        BY <3>1 DEF PhaseOK
      <4>2. d = 1 /\ Resetting
        BY <2>2, <4>1
      <4> QED
        BY <3>1, <4>1, <4>2 DEF PhaseOK
    <3>2. CASE pc \in {"merge", "recvDone"}
      <4>1. PICK d \in {1, 2} : Stage(d) /\ Dones(d - 1) /\ Behind = d - 1
        BY <3>2 DEF PhaseOK
      <4>2. d = 1 /\ Resetting
        BY <2>2, <4>1
      <4>3. d - 1 = 0
        BY <4>2
      <4> QED
        BY <3>2, <4>1, <4>2, <4>3
    <3> QED
      BY <2>3, <3>1, <3>2
  <2>6. x = resetIdx /\ resetIdx' = resetIdx + 1 /\ resetIdx \in 1 .. NDATA - 1 /\ Calm'
    BY <1>2, <1>4, <1>11, <1>14, <2>4, <2>5 DEF ResetIdxGot, ResetIdxLeft, Resetting
  <2>7. \A i \in 0 .. resetIdx : ZeroAt(ColCopy, i)'
    <3>1. ASSUME NEW i \in 0 .. resetIdx PROVE ZeroAt(ColCopy, i)'
      <4>1. CASE i = resetIdx
        BY <1>4, <1>9, <2>6, <4>1
      <4>2. CASE i # resetIdx
        <5>1. i \in 0 .. resetIdx - 1 /\ i \in Cell
          BY <1>9, <2>6, <4>2 DEF Cell
        <5>2. ZeroAt(ColCopy, i)
          BY <2>5, <5>1 DEF Resetting
        <5> QED
          BY <1>5, <5>1, <5>2
      <4> QED
        BY <4>1, <4>2
    <3> QED
      BY <3>1
  <2>8. IsDone(op, x) <=> resetIdx = NDATA - 1
    BY <1>9, <2>4, <2>6 DEF IsDone
  <2>9. CASE resetIdx # NDATA - 1
    <3>1. UNCHANGED <<msgAddr, msgBuf, cq>>
      BY <1>6, <2>8, <2>9 DEF SendNothing
    <3>2. RingOK' /\ Behind' = Behind /\ Reported' = Reported
      BY <1>2, <3>1, RingUntouched
    <3>3. Kind("KEYVAL") => Kind("KEYVAL")'
      BY <1>2, <3>1, RingUntouched
    <3>4. (Dones(0) => Dones(0)') /\ (Dones(1) => Dones(1)')
      BY <1>2, <3>1, RingUntouched
    <3>5. resetIdx' \in 1 .. NDATA - 1 /\ resetIdx' - 1 = resetIdx
      BY <1>9, <2>6, <2>9
    <3>6. Stage(1)'
      BY <2>6, <2>7, <3>5 DEF Stage, Resetting
    <3>7. PhaseOK'
      <4>1. CASE pc \in {"waitVals", "recvVals"}
        BY <1>2, <1>8, <2>5, <3>2, <3>3, <3>4, <3>6, <4>1 DEF PhaseOK
      <4>2. CASE pc \in {"merge", "recvDone"}
        <5>1. Stage(1)' /\ Dones(1 - 1)' /\ Behind' = 1 - 1
          BY <2>5, <3>2, <3>4, <3>6, <4>2
        <5> QED
          BY <1>2, <4>2, <5>1 DEF PhaseOK
      <4> QED
        BY <2>3, <4>1, <4>2
    <3> QED
      BY <1>12, <3>1, <3>2, <3>7, ResetRest
  <2>10. CASE resetIdx = NDATA - 1
    <3>1. SendMsg("DONE", NoKey, 0) /\ UNCHANGED <<msgHead, msgTail>>
      BY <1>2, <1>6, <2>8, <2>10
    <3>2. Behind < MSGS - 1
      <4>1. Behind =< NKEYS + 1
        BY <1>7, <1>8, <1>9, <2>3, <2>5
      <4> QED
        BY <1>7, <1>9, <4>1, WireAssumption DEF Fits
    <3>3. /\ RingOK' /\ Behind' = Behind + 1 /\ Reported' = Reported
          /\ \A t \in Reported : msgBuf'[t] = msgBuf[t]
          /\ msgBuf' \in [Slot -> Msg] /\ msgAddr' \in Slot /\ cq' \in Seq(Slot)
          /\ Kind("KEYVAL") => Kind("KEYVAL")'
      BY <3>1, <3>2, DoneSent
    <3>4. (Dones(0) => Dones(0 + 1)') /\ (Dones(1) => Dones(1 + 1)')
      BY <3>1, <3>2, DoneSent
    <3>5. IsClean(ColCopy)'
      <4>1. keyIdx'[ColCopy'] = 0
        BY <1>8, <2>5 DEF Resetting, Calm
      <4>2. \A i \in Cell : i \in 0 .. resetIdx
        BY <1>9, <2>10 DEF Cell
      <4> QED
        BY <2>7, <4>1, <4>2 DEF IsClean, ZeroAt
    <3>6. Stage(2)'
      BY <1>9, <2>6, <2>10, <3>5 DEF Stage, Cleared
    <3>7. PhaseOK'
      <4>1. CASE pc \in {"waitVals", "recvVals"}
        <5>1. Dones(2)'
          BY <2>5, <3>4, <4>1
        <5>2. Behind' - 2 + keyIdx'[ColCopy'] =< NKEYS
          BY <1>7, <1>8, <1>9, <2>5, <3>3, <4>1
        <5> QED
          BY <1>2, <2>5, <3>3, <3>6, <4>1, <5>1, <5>2 DEF PhaseOK
      <4>2. CASE pc \in {"merge", "recvDone"}
        <5>1. Stage(2)' /\ Dones(2 - 1)' /\ Behind' = 2 - 1
          BY <2>5, <3>3, <3>4, <3>6, <4>2
        <5> QED
          BY <1>2, <4>2, <5>1 DEF PhaseOK
      <4> QED
        BY <2>3, <4>1, <4>2
    <3> QED
      BY <3>3, <3>7, ResetRest
  <2> QED
    BY <2>9, <2>10
<1> QED
  BY <1>13, <1>14

(* Every reset packet.                                                     *)
LEMMA ResetInStep ==
  ASSUME Fits, InStep, NEW src \in Sources, Reset(src)
  PROVE  InStep'
<1>1. Head(Arrived(src)).op \in {"RST_START", "RST", "PUSH"}
  BY DEF Reset, ResetPacket, Arrives
<1> QED
  BY <1>1, RstStartInStep, RstInStep

-----------------------------------------------------------------------------
(***************************************************************************)
(* The whole.                                                              *)
(***************************************************************************)

(* Nothing happens.                                                        *)
LEMMA StutterInStep ==
  ASSUME InStep, UNCHANGED vars
  PROVE  InStep'
<1> USE DEF InStep
<1>1. /\ UNCHANGED <<hostQ, msgBuf, epochData, cq>>
      /\ UNCHANGED <<epoch, resetIdx, bfX, bfY, keyIdx, keyBuf, cmX, cmY, msgAddr, mirrorQ>>
      /\ UNCHANGED <<pc, msgHead, msgTail, overflowKeys, inserted, mergedData, abnormalKeys, curEpoch>>
      /\ UNCHANGED <<seen, newKeys, closed, window, switches>>
  BY DEF vars, wireVars, switchVars, controllerVars, historyVars
<1>2. TypeOK'
  BY <1>1 DEF TypeOK, WireTypeOK, DataPlaneTypeOK, ControllerTypeOK
<1>3. RingOK' /\ PhaseOK' /\ Reported' = Reported
  <2>1. \A i \in Cell : ZeroAt(ColCopy, i) => ZeroAt(ColCopy, i)'
    BY <1>1 DEF ZeroAt, ColCopy
  <2>2. /\ Ops(hostQ)' \subseteq Ops(hostQ)
        /\ Ops(mirrorQ)' \subseteq Ops(mirrorQ) \cup {"COL", "RST", "KEY"}
        /\ keyIdx'[ColCopy] = keyIdx[ColCopy]
    BY <1>1
  <2> QED
    BY <1>1, <2>1, <2>2, PhaseLasts
<1>4. RequestsInOrder' /\ MirrorOK' /\ PushAwaited'
  BY <1>1 DEF RequestsInOrder, MirrorOK, PushAwaited
<1>5. BuffersOK' /\ Marked' /\ Overflowing' = Overflowing
  BY <1>1 DEF BuffersOK, Marked, Overflowing, Stored, LooksNew, ActiveCopy
<1>6. ReportsOK'
  BY <1>1, <1>3, <1>5 DEF ReportsOK, Reporting
<1> QED
  BY <1>2, <1>3, <1>4, <1>5, <1>6

(* The system starts in step.                                              *)
LEMMA InitInStep ==
  ASSUME Fits, Init
  PROVE  InStep
<1>1. /\ hostQ = <<>> /\ msgBuf = [s \in Slot |-> Blank] /\ epochData = [k \in Keys |-> 0] /\ cq = <<>>
      /\ epoch = 0 /\ resetIdx = NDATA /\ bfX = Zeros /\ bfY = Zeros
      /\ keyIdx = [c \in Copies |-> 0] /\ keyBuf = [c \in Copies |-> [i \in 0 .. NKEYS - 1 |-> NoKey]]
      /\ cmX = Zeros /\ cmY = Zeros /\ msgAddr = 0 /\ mirrorQ = <<>>
      /\ pc = "idle" /\ msgHead = 0 /\ msgTail = 0 /\ overflowKeys = <<>> /\ inserted = InputKeys
      /\ mergedData = [k \in Keys |-> 0] /\ abnormalKeys = {} /\ curEpoch = 0
      /\ seen = NoCounts /\ newKeys = {} /\ closed = NoCounts /\ window = NoCounts /\ switches = 0
  BY DEF Init, WireInit, DataPlaneInit, ControllerInit
<1>2. /\ 0 \in Slot /\ 0 \in Val /\ 0 \in 0 .. NKEYS /\ 0 \in 0 .. EpochMod - 1 /\ 0 \in 0 .. NEpoch - 1
      /\ 0 \in 0 .. MaxSwitch /\ NDATA \in 0 .. NDATA /\ InputKeys \subseteq Keys /\ Blank \in Msg
  BY WireAssumption, DataPlaneAssumption, ControllerAssumption, OmniWindowAssumption
     DEF Slot, Val, Blank, Msg
<1>3. TypeOK
  <2>1. WireTypeOK
    BY <1>1, <1>2 DEF WireTypeOK
  <2>2. DataPlaneTypeOK
    BY <1>1, <1>2 DEF DataPlaneTypeOK, Zeros
  <2>3. ControllerTypeOK
    BY <1>1, <1>2 DEF ControllerTypeOK, Phases
  <2> QED
    BY <1>1, <1>2, <2>1, <2>2, <2>3 DEF TypeOK, NoCounts
<1>4. Behind = 0 /\ Off(msgTail) = 0
  BY <1>1 DEF Behind, Off, Dist
<1>5. Len(hostQ) = 0 /\ Len(mirrorQ) = 0 /\ Len(cq) = 0
  BY <1>1
<1>6. RingOK
  BY <1>4, <1>5 DEF RingOK
<1>7. RequestsInOrder /\ MirrorOK /\ PushAwaited
  BY <1>5 DEF RequestsInOrder, MirrorOK, PushAwaited, Once, Ops
<1>8. ActiveCopy \in Copies /\ ColCopy \in Copies
  BY <1>3, TheCopies
<1>9. \A c \in Copies : keyIdx[c] = 0 /\ Stored(c) = {}
  BY <1>1 DEF Stored
<1>10. BuffersOK /\ Marked
  BY <1>1, <1>8, <1>9 DEF BuffersOK, Marked
<1>11. Reporting = {} /\ Reported = {} /\ Dones(0) /\ Kind("KEY")
  BY <1>3, <1>4, <1>5, EmptyRing DEF Reporting
<1>12. ReportsOK
  BY <1>11 DEF ReportsOK
<1>13. Cleared
  <2>1. IsClean(ColCopy)
    BY <1>1, <1>8, <1>9 DEF IsClean, Zeros
  <2> QED
    BY <1>1, <1>5, <1>8, <1>9, <2>1 DEF Cleared, Calm, Ops
<1>14. PhaseOK
  BY <1>1, <1>11, <1>13 DEF PhaseOK
<1> QED
  BY <1>3, <1>6, <1>7, <1>10, <1>12, <1>14 DEF InStep

(* The requests without a flag are some of those with one.                 *)
LEMMA PlainStart == StartSwitch => AnyStart
<1>1. Req("PUSH") \in Request /\ Req("PUSH").op = "PUSH"
  BY DEF Req, Request, KeylessOps
<1> QED
  BY <1>1 DEF StartSwitch, SwitchWin, AnyStart, StartSwitchSending

LEMMA PlainSend ==
  ASSUME InStep, SendRequests, UNCHANGED <<switchVars, historyVars>>
  PROVE  AnySend
<1>1. SameRequests(RequestBatch)
  BY PlainBatchIsSame DEF InStep, TypeOK, ControllerTypeOK
<1> QED
  BY <1>1 DEF AnySend, SendRequests, SendRequestsLike

(* Every step keeps it in step.                                            *)
LEMMA NextInStep ==
  ASSUME Fits, InStep, [AnyNext]_vars
  PROVE  InStep'
<1>1. CASE \E k \in Keys : Traffic(k)
  BY <1>1, TrafficInStep
<1>2. ASSUME NEW src \in Sources, Collect(src) PROVE InStep'
  BY <1>2, CollectKeyInStep, CollectNothingInStep DEF Collect
<1>3. ASSUME NEW src \in Sources, Reset(src) PROVE InStep'
  BY <1>3, ResetInStep
<1>4. CASE FromHost
  BY <1>2, <1>3, <1>4, QueryInStep DEF FromHost, Sources
<1>5. CASE FromMirror
  BY <1>2, <1>3, <1>5, ReportInStep DEF FromMirror, Sources
<1>6. CASE AnyStart
  BY <1>6, StartSwitchInStep DEF AnyStart
<1>7. CASE AnySend
  BY <1>7, SendRequestsInStep DEF AnySend
<1>a. CASE Receive
  <2>1. UNCHANGED <<switchVars, historyVars>>
    BY <1>a DEF Receive
  <2>2. CASE SendRequests
    BY <1>7, <2>1, <2>2, PlainSend
  <2> QED
    BY <1>a, <2>1, <2>2, AwaitValuesInStep, RecvKeyInStep, RecvKeyValInStep,
       RecvKeyValsDoneInStep, RecvDoneInStep DEF Receive
<1>8. CASE MergeSubWindow
  BY <1>8, MergeInStep
<1>9. CASE Quit
  BY <1>9, QuitInStep
<1>10. CASE Lose
  BY <1>10, LoseRequestInStep, LoseMirroredInStep DEF Lose
<1>11. CASE Stopped \/ UNCHANGED vars
  BY <1>11, StutterInStep DEF Stopped
<1> QED
  BY <1>1, <1>4, <1>5, <1>6, <1>7, <1>8, <1>9, <1>10, <1>11, <1>a, PlainStart DEF AnyNext, Next

(* The switch and the controller stay in step: in whatever order traffic,  *)
(* requests, mirrored packets, losses and the steps of switchWin follow    *)
(* one another, each phase of the controller finds the stage of the switch *)
(* and the messages that it counts on.                                     *)
THEOREM AlwaysInStep == Fits => (Spec => []InStep)
<1> SUFFICES ASSUME Fits PROVE Spec => []InStep
  OBVIOUS
<1>1. Init => InStep
  BY InitInStep
<1>2. InStep /\ [Next]_vars => InStep'
  BY NextInStep DEF AnyNext
<1> QED
  BY <1>1, <1>2, PTL DEF Spec

(* Every variable keeps its type; among others, the index of the key       *)
(* buffer never passes its last place and the ring addresses stay in the   *)
(* ring.                                                                   *)
THEOREM TypeCorrect == Fits => (Spec => []TypeOK)
<1>1. InStep => TypeOK
  BY DEF InStep
<1> QED
  BY <1>1, AlwaysInStep, PTL

(* No reset packet gets a cell while the buffer of the collected copy      *)
(* holds a key or a collect packet or a query is on the link:              *)
(* get_next_reset_idx counts both RST_START, and each of them comes last.  *)
THEOREM CollectionPrecedesReset == Fits => (Spec => []CollectBeforeReset)
<1>1. InStep => CollectBeforeReset
  <2> SUFFICES ASSUME InStep, resetIdx < NDATA
               PROVE  /\ keyIdx[ColCopy] = 0
                      /\ \A i \in 1 .. Len(hostQ) : hostQ[i].op \in {"RST", "PUSH"}
    BY DEF CollectBeforeReset
  <2>1. resetIdx # NDATA /\ resetIdx # RSTIDX_MID
    BY DataPlaneAssumption DEF RSTIDX_MID
  <2>2. ~Cleared /\ ~Collecting
    BY <2>1 DEF Cleared, Collecting
  <2>3. Resetting
    BY <2>2 DEF InStep, PhaseOK, TypeOK, ControllerTypeOK, Phases, Stage
  <2> QED
    BY <2>3 DEF Resetting, Calm, Ops
<1> QED
  BY <1>1, AlwaysInStep, PTL

(* The message that recvKeys, recvKeyVals or recvDone reads is of a kind   *)
(* that its assertion allows.                                              *)
THEOREM AssertionsHold == Fits => (Spec => []HostAsserts)
<1>1. InStep => HostAsserts
  <2> SUFFICES ASSUME InStep, HasMsg
               PROVE  /\ pc = "recvKeys" => FirstMsg.op \in {"KEY", "DONE"}
                      /\ pc = "recvVals" => FirstMsg.op \in {"KEYVAL", "DONE"}
                      /\ pc = "recvDone" => FirstMsg.op = "DONE"
    BY DEF HostAsserts
  <2>1. Behind > 0 /\ msgHead \in UnreadSlots /\ Off(msgHead) = 0
    BY HasMsgIsUnread DEF InStep
  <2>2. CASE pc = "recvKeys"
    BY <2>1, <2>2 DEF InStep, PhaseOK, Kind, FirstMsg
  <2>3. CASE pc = "recvVals"
    BY <2>1, <2>3 DEF InStep, PhaseOK, Kind, FirstMsg
  <2>4. CASE pc = "recvDone"
    <3>1. PICK d \in {1, 2} : Dones(d - 1) /\ Behind = d - 1
      BY <2>4 DEF InStep, PhaseOK
    <3>2. Off(msgHead) >= Behind - (d - 1)
      BY <2>1, <3>1
    <3> QED
      BY <2>1, <2>4, <3>1, <3>2 DEF Dones, FirstMsg
  <2> QED
    BY <2>2, <2>3, <2>4
<1> QED
  BY <1>1, AlwaysInStep, PTL

(* However often the ring wraps, a completion that switchWin has still to  *)
(* poll names the slot of a DONE message that nothing has overwritten.     *)
THEOREM CompletionsHold == Fits => (Spec => []CompletionsNameDone)
<1>1. InStep => CompletionsNameDone
  BY DEF InStep, RingOK, CompletionsNameDone
<1> QED
  BY <1>1, AlwaysInStep, PTL

(* Stored keys and reports are of different keys.                          *)
LEMMA InStepReportsOnce == InStep => ReportedOnce
<1> SUFFICES ASSUME InStep,
                    NEW i \in 0 .. keyIdx[ActiveCopy] - 1, NEW j \in 1 .. Len(mirrorQ)
             PROVE  mirrorQ[j].key # keyBuf[ActiveCopy][i]
  BY DEF ReportedOnce, InStep, BuffersOK
<1>1. keyBuf[ActiveCopy][i] \in Keys \cap Stored(ActiveCopy)
  BY TheCopies DEF InStep, BuffersOK, Stored
<1>2. mirrorQ[j] \in Mirrored
  BY DEF InStep, TypeOK, DataPlaneTypeOK
<1>3. CASE mirrorQ[j].op = "KEY"
  BY <1>1, <1>3 DEF InStep, ReportsOK, Reporting, Overflowing
<1>4. CASE mirrorQ[j].op # "KEY"
  BY <1>1, <1>2, <1>4, WireAssumption DEF Mirrored
<1> QED
  BY <1>3, <1>4

(* The filter and get_next_store_key_idx give a key of the open sub-window *)
(* one place of the buffer or one report.                                  *)
THEOREM KeysReportedOnce == Fits => (Spec => []ReportedOnce)
  BY InStepReportsOnce, AlwaysInStep, PTL

(* START hands the traffic a copy of the sketch and of the key buffer that *)
(* the last reset has cleared to the last cell.                            *)
THEOREM SwitchesToClean == Fits => (Spec => CleanSwitch)
<1> SUFFICES ASSUME Fits PROVE Spec => CleanSwitch
  OBVIOUS
<1>1. ASSUME InStep, NEW src \in Sources, Collect(src), epoch' # epoch
      PROVE  IsClean(Copy(epoch'))
  <2>1. /\ Arrives(src, {"START", "COL"}) /\ SwitchEpoch(src)
        /\ hostQ' = IF src = "host" THEN Tail(hostQ) ELSE hostQ
    BY <1>1 DEF Collect, CollectKey, CollectNothing, Pass
  <2>2. Head(Arrived(src)).op = "START"
    BY <1>1, <2>1 DEF SwitchEpoch
  <2>3. PICK c : c = CopyCollectedBy(src)
    OBVIOUS
  <2>4. /\ src = "host" /\ ActiveCopy' = ColCopy /\ pc \in {"waitVals", "recvVals"}
    BY <1>1, <2>1, <2>2, <2>3, CollectReady
  <2>5. "START" \in Ops(hostQ)
    <3>1. hostQ # <<>> /\ Head(hostQ).op = "START" /\ hostQ \in Seq(Request)
      BY <1>1, <2>1, <2>2, <2>4 DEF Arrives, Arrived, InStep, TypeOK, WireTypeOK
    <3>2. Head(hostQ) = hostQ[1] /\ 1 \in 1 .. Len(hostQ)
      BY <3>1, TailIs
    <3> QED
      BY <3>1, <3>2 DEF Ops
  <2>6. Collecting
    <3>1. ~Calm
      BY <2>5 DEF Calm
    <3> QED
      BY <1>1, <2>4, <3>1, CollectMeans DEF InStep
  <2> QED
    BY <2>4, <2>5, <2>6 DEF Collecting, ActiveCopy
<1>2. InStep /\ [Next]_vars => (epoch' # epoch => IsClean(Copy(epoch')))
  <2> SUFFICES ASSUME InStep, [Next]_vars, epoch' # epoch
               PROVE  IsClean(Copy(epoch'))
    OBVIOUS
  <2>1. \E src \in Sources : Collect(src)
    <3>1. ~(UNCHANGED vars) /\ ~Stopped /\ ~StartSwitch /\ ~Receive /\ ~MergeSubWindow /\ ~Quit
      BY DEF vars, switchVars, Stopped, StartSwitch, Receive, MergeSubWindow, Quit
    <3>2. ~Lose /\ ~Query /\ ~ReportOverflow /\ \A k \in Keys : ~Traffic(k)
      BY DEF Lose, LoseMirrored, switchVars, Query, QueryKey, ReportOverflow, ReportKey,
             Traffic, NormalPacket
    <3>3. \A src \in Sources : ~Reset(src)
      BY DEF Reset, ResetPacket
    <3> QED
      BY <3>1, <3>2, <3>3 DEF Next, FromHost, FromMirror, Sources
  <2> QED
    BY <1>1, <2>1
<1>3. Spec => []InStep
  BY AlwaysInStep
<1> QED
  BY <1>2, <1>3, PTL DEF Spec, CleanSwitch

-----------------------------------------------------------------------------
(***************************************************************************)
(* The packets, counted.                                                   *)
(***************************************************************************)

(* A number of packets is a number.                                        *)
LEMMA NumberIs ==
  ASSUME NEW S, NEW q \in Seq(S), NEW op
  PROVE  /\ IsFiniteSet({i \in 1 .. Len(q) : q[i].op = op})
         /\ Number(q, op) \in Nat
         /\ Number(q, op) = 0 <=> op \notin Ops(q)
<1>1. PICK I : I = {i \in 1 .. Len(q) : q[i].op = op}
  OBVIOUS
<1>2. IsFiniteSet(1 .. Len(q)) /\ I \subseteq 1 .. Len(q)
  BY <1>1, FS_Interval
<1>3. IsFiniteSet(I)
  BY <1>2, FS_Subset
<1>4. Number(q, op) = Cardinality(I)
  BY <1>1 DEF Number
<1>5. Cardinality(I) \in Nat /\ (Cardinality(I) = 0 <=> I = {})
  BY <1>3, FS_CardinalityType, FS_EmptySet
<1>6. I = {} <=> op \notin Ops(q)
  BY <1>1 DEF Ops
<1> QED
  BY <1>1, <1>3, <1>4, <1>5, <1>6

(* Every packet of q is an op.                                             *)
LEMMA NumberOfRun ==
  ASSUME NEW S, NEW q \in Seq(S), NEW o, \A i \in 1 .. Len(q) : q[i].op = o, NEW op
  PROVE  Number(q, op) = IF op = o THEN Len(q) ELSE 0
<1>1. CASE op = o
  <2>1. {i \in 1 .. Len(q) : q[i].op = op} = 1 .. Len(q)
    BY <1>1
  <2>2. Cardinality(1 .. Len(q)) = Len(q)
    <3>1. 1 \in Int /\ Len(q) \in Nat
      OBVIOUS
    <3> QED
      BY <3>1, FS_Interval
  <2> QED
    BY <1>1, <2>1, <2>2 DEF Number
<1>2. CASE op # o
  BY <1>2, NumberIs DEF Ops
<1> QED
  BY <1>1, <1>2

(* One sequence after another.                                             *)
LEMMA NumberOfConcat ==
  ASSUME NEW S, NEW p \in Seq(S), NEW q \in Seq(S), NEW op
  PROVE  Number(p \o q, op) = Number(p, op) + Number(q, op)
<1>0. PICK t : t = p \o q
  OBVIOUS
<1>1. PICK n \in Nat, m \in Nat :
        /\ n = Len(p) /\ m = Len(q) /\ Len(t) = n + m
        /\ \A i \in 1 .. n : t[i] = p[i]
        /\ \A i \in n + 1 .. n + m : t[i] = q[i - n] /\ i - n \in 1 .. m
  <2>1. /\ Len(p) \in Nat /\ Len(q) \in Nat
        /\ Len(p \o q) = Len(p) + Len(q)
        /\ \A i \in 1 .. Len(p) : (p \o q)[i] = p[i]
        /\ \A i \in Len(p) + 1 .. Len(p) + Len(q) :
             (p \o q)[i] = q[i - Len(p)] /\ i - Len(p) \in 1 .. Len(q)
    BY ConcatIs
  <2> QED
    BY <1>0, <2>1
<1>2. PICK I, J, K : /\ I = {i \in 1 .. n : p[i].op = op}
                     /\ J = {i \in 1 .. m : q[i].op = op}
                     /\ K = {i \in n + 1 .. n + m : t[i].op = op}
  OBVIOUS
<1>3. IsFiniteSet(I)
  <2>1. IsFiniteSet({i \in 1 .. Len(p) : p[i].op = op})
    BY NumberIs
  <2> QED
    BY <1>1, <1>2, <2>1
<1>4. IsFiniteSet(J)
  <2>1. IsFiniteSet({i \in 1 .. Len(q) : q[i].op = op})
    BY NumberIs
  <2> QED
    BY <1>1, <1>2, <2>1
<1>5. IsFiniteSet(K) /\ Cardinality(K) = Cardinality(J)
  <2> DEFINE f == [i \in J |-> i + n]
  <2>1. \A i \in J : i \in 1 .. m /\ f[i] = i + n /\ i + n \in n + 1 .. n + m /\ (i + n) - n = i
    BY <1>1, <1>2
  <2>2. \A i \in J : f[i] \in K
    BY <1>1, <1>2, <2>1
  <2>3. \A j \in K : j - n \in J /\ f[j - n] = j
    <3> SUFFICES ASSUME NEW j \in K PROVE j - n \in J /\ f[j - n] = j
      OBVIOUS
    <3>1. j \in n + 1 .. n + m /\ t[j].op = op
      BY <1>2
    <3>2. t[j] = q[j - n] /\ j - n \in 1 .. m /\ (j - n) + n = j
      BY <1>1, <3>1
    <3>3. j - n \in J
      BY <1>2, <3>1, <3>2
    <3> QED
      BY <3>2, <3>3
  <2>4. f \in Bijection(J, K)
    <3>1. f \in [J -> K]
      BY <2>2
    <3>2. \A a, b \in J : f[a] = f[b] => a = b
      BY <1>1, <2>1
    <3>3. \A j \in K : \E a \in J : f[a] = j
      BY <2>3
    <3> HIDE DEF f
    <3> QED
      BY <3>1, <3>2, <3>3 DEF Bijection, Injection, IsInjective, Surjection
  <2> QED
    BY <1>4, <2>4, FS_Bijection DEF ExistsBijection
<1>6. {i \in 1 .. Len(t) : t[i].op = op} = I \cup K /\ I \cap K = {}
  <2>1. 1 .. n + m = (1 .. n) \cup (n + 1 .. n + m) /\ (1 .. n) \cap (n + 1 .. n + m) = {}
    BY <1>1
  <2> QED
    BY <1>1, <1>2, <2>1
<1>7. Cardinality(I \cup K) = Cardinality(I) + Cardinality(K) - Cardinality(I \cap K)
  BY <1>3, <1>5, FS_Union
<1>8. Cardinality(I \cap K) = 0 /\ Cardinality(I) \in Nat /\ Cardinality(K) \in Nat
  BY <1>3, <1>5, <1>6, FS_EmptySet, FS_CardinalityType
<1>9. Number(t, op) = Cardinality(I \cup K) /\ Number(p, op) = Cardinality(I)
        /\ Number(q, op) = Cardinality(J)
  BY <1>1, <1>2, <1>6 DEF Number
<1>10. Number(t, op) = Number(p, op) + Number(q, op)
  BY <1>5, <1>7, <1>8, <1>9
<1> QED
  BY <1>0, <1>10

One(m, op) == IF m.op = op THEN 1 ELSE 0

(* One packet more, one packet less.                                       *)
LEMMA NumberOfAppend ==
  ASSUME NEW S, NEW q \in Seq(S), NEW m \in S, NEW op
  PROVE  Number(Append(q, m), op) = Number(q, op) + One(m, op)
<1>1. PICK u : u = << m >>
  OBVIOUS
<1>2. u \in Seq(S) /\ Len(u) = 1 /\ \A i \in 1 .. Len(u) : u[i].op = m.op
  BY <1>1
<1>3. Number(u, op) = One(m, op)
  BY <1>2, NumberOfRun DEF One
<1>4. Append(q, m) = q \o u
  BY <1>1
<1>5. Number(q \o u, op) = Number(q, op) + Number(u, op)
  BY <1>2, NumberOfConcat
<1> QED
  BY <1>3, <1>4, <1>5

LEMMA NumberOfTail ==
  ASSUME NEW S, NEW q \in Seq(S), q # <<>>, NEW op
  PROVE  Number(q, op) = Number(Tail(q), op) + One(Head(q), op)
<1>1. PICK u, t : u = << Head(q) >> /\ t = Tail(q)
  OBVIOUS
<1>2. u \in Seq(S) /\ Len(u) = 1 /\ \A i \in 1 .. Len(u) : u[i].op = Head(q).op
  BY <1>1
<1>3. Number(u, op) = One(Head(q), op)
  BY <1>2, NumberOfRun DEF One
<1>4. t \in Seq(S)
  BY <1>1
<1>5. q = u \o t
  BY <1>1
<1>6. Number(u \o t, op) = Number(u, op) + Number(t, op)
  BY <1>2, <1>4, NumberOfConcat
<1>7. Number(u, op) \in Nat /\ Number(t, op) \in Nat
  BY <1>2, <1>4, NumberIs
<1>8. Number(q, op) = Number(u \o t, op)
  BY <1>5
<1>9. Number(q, op) = Number(t, op) + One(Head(q), op)
  BY <1>3, <1>6, <1>7, <1>8
<1> QED
  BY <1>1, <1>9

(* What one call sends.                                                    *)
LEMMA NumberOfBatch ==
  ASSUME overflowKeys \in Seq(Keys), NEW op
  PROVE  Number(RequestBatch, op) = CASE op = "START"     -> 1
                                      [] op = "COL"       -> NReq - 1
                                      [] op = "QRY_KEY"   -> Len(overflowKeys)
                                      [] op = "RST_START" -> 1
                                      [] op = "RST"       -> NReq - 1
                                      [] OTHER            -> 0
<1>1. PICK n \in Nat : n = NReq - 1
  BY ControllerAssumption
<1> DEFINE Run(s, o, l) == s \in Seq(Request) /\ Len(s) = l /\ \A i \in 1 .. Len(s) : s[i].op = o
<1>2. ASSUME NEW o \in KeylessOps
      PROVE  Run(<< Req(o) >>, o, 1) /\ Run(Repeat(NReq - 1, o), o, n)
  <2>1. Req(o) \in Request /\ Req(o).op = o
    BY DEF Req, Request
  <2>2. PICK m : m = Req(o)
    OBVIOUS
  <2>3. Repeat(NReq - 1, o) = [i \in 1 .. n |-> m]
    BY <1>1, <2>2 DEF Repeat
  <2>4. PICK r : r = [i \in 1 .. n |-> m]
    OBVIOUS
  <2>5. Run(r, o, n)
    BY <2>1, <2>2, <2>4
  <2>6. Repeat(NReq - 1, o) = r
    BY <2>3, <2>4
  <2>7. Run(Repeat(NReq - 1, o), o, n)
    <3> HIDE DEF Run
    <3> QED
      BY <2>5, <2>6
  <2>8. Run(<< Req(o) >>, o, 1)
    BY <2>1
  <2> HIDE DEF Run
  <2> QED
    BY <2>7, <2>8
<1>3. Run(Queries, "QRY_KEY", Len(overflowKeys))
  <2>1. PICK m \in Nat : m = Len(overflowKeys)
    OBVIOUS
  <2>2. \A i \in 1 .. m : QryKey(overflowKeys[i]) \in Request /\ QryKey(overflowKeys[i]).op = "QRY_KEY"
    <3>1. \A k \in Keys : QryKey(k) \in Request /\ QryKey(k).op = "QRY_KEY"
      BY DEF QryKey, Request
    <3> QED
      BY <2>1, <3>1
  <2>3. Queries = [i \in 1 .. m |-> QryKey(overflowKeys[i])]
    BY <2>1 DEF Queries
  <2>4. Queries \in Seq(Request) /\ Len(Queries) = m
    BY <2>2, <2>3
  <2>5. \A i \in 1 .. m : Queries[i].op = "QRY_KEY"
    BY <2>2, <2>3
  <2> QED
    BY <2>1, <2>4, <2>5
<1>4. {"START", "COL", "RST_START", "RST"} \subseteq KeylessOps
  BY DEF KeylessOps
<1>5. PICK s1, s2, s3, s4, s5 :
        /\ s1 = << Req("START") >> /\ s2 = Repeat(NReq - 1, "COL") /\ s3 = Queries
        /\ s4 = << Req("RST_START") >> /\ s5 = Repeat(NReq - 1, "RST")
  OBVIOUS
<1>6. /\ Run(s1, "START", 1) /\ Run(s2, "COL", n) /\ Run(s3, "QRY_KEY", Len(overflowKeys))
      /\ Run(s4, "RST_START", 1) /\ Run(s5, "RST", n)
  BY <1>2, <1>3, <1>4, <1>5
<1>7. ASSUME NEW s, NEW o, NEW l, Run(s, o, l)
      PROVE  Number(s, op) = IF op = o THEN l ELSE 0
  <2>1. s \in Seq(Request) /\ Len(s) = l /\ \A i \in 1 .. Len(s) : s[i].op = o
    BY <1>7
  <2>2. Number(s, op) = IF op = o THEN Len(s) ELSE 0
    BY <2>1, NumberOfRun
  <2> QED
    BY <2>1, <2>2
<1>8. /\ s1 \in Seq(Request) /\ s2 \in Seq(Request) /\ s3 \in Seq(Request)
      /\ s4 \in Seq(Request) /\ s5 \in Seq(Request)
  BY <1>6
<1>9. /\ Number(s1, op) = (IF op = "START" THEN 1 ELSE 0)
      /\ Number(s2, op) = (IF op = "COL" THEN n ELSE 0)
      /\ Number(s3, op) = (IF op = "QRY_KEY" THEN Len(overflowKeys) ELSE 0)
      /\ Number(s4, op) = (IF op = "RST_START" THEN 1 ELSE 0)
      /\ Number(s5, op) = (IF op = "RST" THEN n ELSE 0)
  <2> HIDE DEF Run
  <2> QED
    BY <1>6, <1>7, Zenon
<1> HIDE DEF Run
<1>10. \A p, q \in Seq(Request) : p \o q \in Seq(Request)
                                  /\ Number(p \o q, op) = Number(p, op) + Number(q, op)
  BY NumberOfConcat
<1>11. PICK w2 \in Seq(Request) : w2 = s1 \o s2 /\ Number(w2, op) = Number(s1, op) + Number(s2, op)
  BY <1>8, <1>10
<1>12. PICK w3 \in Seq(Request) : w3 = w2 \o s3 /\ Number(w3, op) = Number(w2, op) + Number(s3, op)
  BY <1>8, <1>10
<1>13. PICK w4 \in Seq(Request) : w4 = w3 \o s4 /\ Number(w4, op) = Number(w3, op) + Number(s4, op)
  BY <1>8, <1>10
<1>14. PICK w5 \in Seq(Request) : w5 = w4 \o s5 /\ Number(w5, op) = Number(w4, op) + Number(s5, op)
  BY <1>8, <1>10
<1>15. w5 = RequestBatch
  BY <1>5, <1>11, <1>12, <1>13, <1>14 DEF RequestBatch
<1>16. Len(overflowKeys) \in Nat
  OBVIOUS
<1>17. Number(w5, op) = (IF op = "START" THEN 1 ELSE 0) + (IF op = "COL" THEN n ELSE 0)
                        + (IF op = "QRY_KEY" THEN Len(overflowKeys) ELSE 0)
                        + (IF op = "RST_START" THEN 1 ELSE 0) + (IF op = "RST" THEN n ELSE 0)
  BY <1>9, <1>11, <1>12, <1>13, <1>14
<1> QED
  BY <1>1, <1>15, <1>16, <1>17

(* The DONE messages that wait in the ring, counted.                       *)
LEMMA WrittenIs ==
  ASSUME NEW h \in Slot, NEW s \in Slot
  PROVE  (s - h) % MSGS = Dist(h, s)
<1>1. /\ MSGS \in Nat \ {0} /\ s \in Nat /\ h \in Nat /\ s < MSGS /\ h < MSGS
      /\ Dist(h, s) = IF s >= h THEN s - h ELSE s - h + MSGS
  BY WireAssumption DEF Slot, Dist
<1>2. CASE s >= h
  <2>1. (s - h) % MSGS = s - h
    BY <1>1, <1>2
  <2> QED
    BY <1>1, <1>2, <2>1
<1>3. CASE s < h
  <2>1. (s - h) % MSGS = s - h + MSGS
    BY <1>1, <1>3
  <2> QED
    BY <1>1, <1>3, <2>1
<1> QED
  BY <1>1, <1>2, <1>3

(* The invariant and the protocol count the same DONE messages.            *)
LEMMA UnreadDonesIs ==
  ASSUME TypeOK, NEW d \in Nat, Dones(d)
  PROVE  UnreadDones = d
<1>1. /\ msgHead \in Slot /\ msgAddr \in Slot /\ MSGS \in Nat \ {0}
  BY WireAssumption DEF TypeOK, DataPlaneTypeOK, ControllerTypeOK
<1>2. PICK h, b : h = msgHead /\ b = Behind
  OBVIOUS
<1>3. b \in 0 .. MSGS - 1 /\ h \in Slot /\ d =< b
  BY <1>1, <1>2, DistIs DEF Behind, Off, Dones
<1>4. PICK D : D = {s \in Slot : Written(s) /\ msgBuf[s].op = "DONE"}
  OBVIOUS
<1>5. \A s \in Slot : Dist(h, s) \in 0 .. MSGS - 1 /\ (Written(s) <=> Dist(h, s) < b)
  <2>1. \A s \in Slot : (s - msgHead) % MSGS = Dist(msgHead, s)
    BY <1>1, WrittenIs
  <2>2. \A s \in Slot : Dist(msgHead, s) \in 0 .. MSGS - 1
    BY <1>1, DistIs
  <2>3. b = Dist(msgHead, msgAddr)
    BY <1>2 DEF Behind, Off
  <2> QED
    BY <1>1, <1>2, <2>1, <2>2, <2>3 DEF Written
<1>6. \A s \in Slot : Dist(h, s) < b => (msgBuf[s].op = "DONE" <=> Dist(h, s) >= b - d)
  BY <1>2 DEF Dones, UnreadSlots, Off
<1>7. D = {s \in Slot : b - d =< Dist(h, s) /\ Dist(h, s) < b}
  BY <1>3, <1>4, <1>5, <1>6
<1>8. PICK c \in Nat : c = b - d
  BY <1>3
<1>9. \A o \in c .. b - 1 : \E s \in Slot : Dist(h, s) = o
  <2> SUFFICES ASSUME NEW o \in c .. b - 1 PROVE \E s \in Slot : Dist(h, s) = o
    OBVIOUS
  <2>1. o \in Nat /\ o < MSGS /\ h \in Nat /\ h < MSGS
    BY <1>1, <1>3, <1>8 DEF Slot
  <2>2. CASE h + o < MSGS
    <3>1. h + o \in Slot /\ Dist(h, h + o) = o
      BY <1>1, <2>1, <2>2 DEF Slot, Dist
    <3> QED
      BY <3>1
  <2>3. CASE h + o >= MSGS
    <3>1. h + o - MSGS \in Slot /\ Dist(h, h + o - MSGS) = o
      BY <1>1, <2>1, <2>3 DEF Slot, Dist
    <3> QED
      BY <3>1
  <2> QED
    BY <1>1, <2>1, <2>2, <2>3
<1> DEFINE f == [o \in c .. b - 1 |-> CHOOSE s \in Slot : Dist(h, s) = o]
<1>10. f \in Bijection(c .. b - 1, D)
  <2>1. \A o \in c .. b - 1 : f[o] \in Slot /\ Dist(h, f[o]) = o
    BY <1>9
  <2> HIDE DEF f
  <2>2. \A s, t \in Slot : Dist(h, s) = Dist(h, t) => s = t
    BY <1>3, DistIs
  <2>3. \A o \in c .. b - 1 : f[o] \in D
    BY <1>3, <1>7, <1>8, <2>1
  <2>4. \A s \in D : Dist(h, s) \in c .. b - 1 /\ f[Dist(h, s)] = s
    <3> SUFFICES ASSUME NEW s \in D PROVE Dist(h, s) \in c .. b - 1 /\ f[Dist(h, s)] = s
      OBVIOUS
    <3>1. s \in Slot /\ Dist(h, s) \in c .. b - 1
      BY <1>3, <1>5, <1>7, <1>8
    <3> QED
      BY <2>1, <2>2, <3>1
  <2>5. f \in [c .. b - 1 -> D]
    BY <2>3 DEF f
  <2>6. \A o, u \in c .. b - 1 : f[o] = f[u] => o = u
    BY <2>1
  <2> QED
    BY <2>4, <2>5, <2>6 DEF Bijection, Injection, IsInjective, Surjection
<1>11. IsFiniteSet(c .. b - 1) /\ Cardinality(c .. b - 1) = d
  <2>1. c \in Int /\ b - 1 \in Int
    BY <1>3
  <2>2. Cardinality(c .. b - 1) = IF c > b - 1 THEN 0 ELSE (b - 1) - c + 1
    BY <2>1, FS_Interval
  <2>3. IsFiniteSet(c .. b - 1)
    BY <2>1, FS_Interval
  <2> QED
    BY <1>3, <1>8, <2>2, <2>3
<1>12. Cardinality(D) = d
  <2>3. ExistsBijection(c .. b - 1, D)
    BY <1>10 DEF ExistsBijection
  <2> QED
    BY <1>11, <2>3, FS_Bijection
<1> QED
  BY <1>4, <1>12 DEF UnreadDones

(* The two queues as CollectReset sees them.                               *)
LEMMA CountsAre ==
  ASSUME NEW S, NEW q \in Seq(S)
  PROVE  /\ Counts(q) \in [RequestOps -> Nat]
         /\ \A op \in RequestOps : Counts(q)[op] = Number(q, op)
         /\ \A op \in RequestOps : Counts(q)[op] = 0 <=> op \notin Ops(q)
<1>1. \A op \in RequestOps : Number(q, op) \in Nat /\ (Number(q, op) = 0 <=> op \notin Ops(q))
  BY NumberIs
<1> QED
  BY <1>1 DEF Counts

(* The counts when the first packet leaves and when one more comes.        *)
LEMMA CountsOfTail ==
  ASSUME NEW S, NEW q \in Seq(S), q # <<>>
  PROVE  /\ Head(q).op \notin RequestOps => Counts(Tail(q)) = Counts(q)
         /\ Head(q).op \in RequestOps =>
              /\ Counts(q)[Head(q).op] > 0
              /\ Counts(Tail(q)) = [Counts(q) EXCEPT ![Head(q).op] = @ - 1]
<1>1. PICK t \in Seq(S), h \in S : t = Tail(q) /\ h = Head(q)
  BY TailIs
<1>2. /\ Counts(q) \in [RequestOps -> Nat] /\ \A op \in RequestOps : Counts(q)[op] = Number(q, op)
      /\ Counts(t) \in [RequestOps -> Nat] /\ \A op \in RequestOps : Counts(t)[op] = Number(t, op)
  BY CountsAre
<1>3. \A op \in RequestOps : Counts(q)[op] = Counts(t)[op] + IF h.op = op THEN 1 ELSE 0
  <2> SUFFICES ASSUME NEW op \in RequestOps
               PROVE  Counts(q)[op] = Counts(t)[op] + IF h.op = op THEN 1 ELSE 0
    OBVIOUS
  <2>1. Number(q, op) = Number(Tail(q), op) + One(Head(q), op)
    BY NumberOfTail
  <2> QED
    BY <1>1, <1>2, <2>1 DEF One
<1>4. h.op \notin RequestOps => Counts(t) = Counts(q)
  <2> SUFFICES ASSUME h.op \notin RequestOps PROVE Counts(t) = Counts(q)
    OBVIOUS
  <2>1. ASSUME NEW op \in RequestOps PROVE Counts(t)[op] = Counts(q)[op]
    <3>1. h.op # op /\ Counts(t)[op] \in Nat
      BY <1>2
    <3> QED
      BY <1>3, <3>1
  <2> QED
    BY <1>2, <2>1
<1>5. h.op \in RequestOps => Counts(q)[h.op] > 0 /\ Counts(t) = [Counts(q) EXCEPT ![h.op] = @ - 1]
  <2> SUFFICES ASSUME h.op \in RequestOps
               PROVE  Counts(q)[h.op] > 0 /\ Counts(t) = [Counts(q) EXCEPT ![h.op] = @ - 1]
    OBVIOUS
  <2>1. Counts(q)[h.op] > 0
    BY <1>2, <1>3
  <2>2. \A op \in RequestOps : Counts(t)[op] = [Counts(q) EXCEPT ![h.op] = @ - 1][op]
    BY <1>2, <1>3
  <2> QED
    BY <1>2, <2>1, <2>2
<1> QED
  BY <1>1, <1>4, <1>5

LEMMA CountsOfAppend ==
  ASSUME NEW S, NEW q \in Seq(S), NEW m \in S
  PROVE  \A op \in RequestOps : Counts(Append(q, m))[op] = Counts(q)[op] + One(m, op)
<1>1. \A op : Number(Append(q, m), op) = Number(q, op) + One(m, op)
  BY NumberOfAppend
<1> QED
  BY <1>1 DEF Counts

(* A packet passes the egress of the switch and of CollectReset.           *)
Passes(src, op, out) == Protocol!Arrives(src, op) /\ Protocol!Pass(src, op, out)

(* Nothing that has to come before the first request is on the link.       *)
LEMMA FirstInOrder ==
  ASSUME RequestsInOrder, QueriesLast, NEW q, q = hostQ, hostQ \in Seq(Request), hostQ # <<>>,
         NEW o \in Protocol!Before(Head(q).op)
  PROVE  o \notin Ops(q)
<1>1. PICK n \in Nat : n = Len(q)
  <2>1. Len(hostQ) \in Nat
    OBVIOUS
  <2> QED
    BY <2>1
<1>2. Head(q) = q[1] /\ 1 \in 1 .. n
  BY <1>1, TailIs
<1> SUFFICES ASSUME NEW i \in 1 .. n, q[i].op = o PROVE FALSE
  BY <1>1 DEF Ops
<1>3. CASE o = "START"
  <2>1. q[1].op # "START" /\ q[1].op # "RST"
    BY <1>2, <1>3 DEF Protocol!Before
  <2>2. 1 \in 1 .. i - 1
    BY <1>1, <1>2, <1>3, <2>1
  <2> QED
    BY <1>1, <1>2, <1>3, <2>1, <2>2 DEF RequestsInOrder
<1>4. CASE o = "COL" /\ q[1].op = "QRY_KEY"
  <2>1. 1 < i
    BY <1>1, <1>2, <1>4
  <2> QED
    BY <1>1, <1>2, <1>4, <2>1 DEF QueriesLast
<1>5. CASE q[1].op = "RST_START"
  <2>1. o \in {"START", "COL", "QRY_KEY"}
    BY <1>2, <1>5 DEF Protocol!Before
  <2>2. PICK j \in i + 1 .. n : q[j].op = "RST_START"
    BY <1>1, <2>1 DEF RequestsInOrder
  <2>3. j \in 1 .. n /\ j # 1
    BY <1>1
  <2> QED
    BY <1>1, <1>2, <1>5, <2>2, <2>3 DEF RequestsInOrder, Once
<1> QED
  BY <1>2, <1>3, <1>4, <1>5 DEF Protocol!Before

(* A packet that passes the egress passes that of the protocol.            *)
LEMMA PassMaps ==
  ASSUME TypeOK, RequestsInOrder, QueriesLast, NEW src \in Sources, Arrived(src) # <<>>,
         NEW op \in RequestOps, op = Head(Arrived(src)).op,
         NEW out, out = <<>> \/ \E m \in Mirrored : out = << m >>, Pass(src, out)
  PROVE  Passes(src, op, Ops(out))
<1>1. hostQ \in Seq(Request) /\ mirrorQ \in Seq(Mirrored)
  BY DEF TypeOK, WireTypeOK, DataPlaneTypeOK
<1>2. PICK q \in Seq(Mirrored) : q = IF src = "mirror" THEN Tail(mirrorQ) ELSE mirrorQ
  BY <1>1, TailIs DEF Arrived, Sources
<1>3. Counts(mirrorQ) \in [RequestOps -> Nat] /\ Counts(q) \in [RequestOps -> Nat]
  BY <1>1, <1>2, CountsAre
<1>4. Protocol!Arrives(src, op)
  <2>1. CASE src = "host"
    <3>1. hostQ # <<>> /\ op = Head(hostQ).op
      BY <2>1 DEF Arrived
    <3>2. Counts(hostQ)[op] > 0
      BY <1>1, <3>1, CountsOfTail
    <3>3. \A o \in Protocol!Before(op) : o \in RequestOps /\ o \notin Ops(hostQ)
      <4>1. \A o \in Protocol!Before(op) : o \in RequestOps
        BY DEF Protocol!Before, RequestOps
      <4>2. \A o \in Protocol!Before(op) : o \notin Ops(hostQ)
        BY <1>1, <3>1, FirstInOrder
      <4> QED
        BY <4>1, <4>2
    <3>4. \A o \in Protocol!Before(op) : Counts(hostQ)[o] = 0
      BY <1>1, <3>3, CountsAre
    <3> QED
      BY <2>1, <3>2, <3>4 DEF Protocol!Arrives
  <2>2. CASE src = "mirror"
    <3>1. mirrorQ # <<>> /\ op = Head(mirrorQ).op
      BY <2>2 DEF Arrived
    <3>2. Counts(mirrorQ)[op] > 0
      BY <1>1, <3>1, CountsOfTail
    <3> QED
      BY <2>2, <3>2 DEF Protocol!Arrives
  <2> QED
    BY <2>1, <2>2 DEF Sources
<1>5. Counts(hostQ)' = IF src = "host" THEN [Counts(hostQ) EXCEPT ![op] = @ - 1] ELSE Counts(hostQ)
  <2>1. CASE src = "host"
    <3>1. hostQ # <<>> /\ op = Head(hostQ).op /\ hostQ' = Tail(hostQ)
      BY <2>1 DEF Arrived, Pass
    <3> QED
      BY <1>1, <2>1, <3>1, CountsOfTail
  <2>2. CASE src # "host"
    BY <2>2 DEF Pass
  <2> QED
    BY <2>1, <2>2
<1>6. \A o \in RequestOps : Counts(q)[o] = Counts(mirrorQ)[o] - IF src = "mirror" /\ o = op THEN 1 ELSE 0
  <2>1. CASE src = "mirror"
    <3>1. mirrorQ # <<>> /\ op = Head(mirrorQ).op /\ q = Tail(mirrorQ)
      BY <1>2, <2>1 DEF Arrived
    <3>2. Counts(q) = [Counts(mirrorQ) EXCEPT ![op] = @ - 1]
      BY <1>1, <3>1, CountsOfTail
    <3> QED
      BY <1>3, <2>1, <3>2
  <2>2. CASE src # "mirror"
    BY <1>2, <1>3, <2>2
  <2> QED
    BY <2>1, <2>2
<1>7. /\ Counts(mirrorQ') \in [RequestOps -> Nat]
      /\ \A o \in RequestOps : Counts(mirrorQ')[o] = Counts(q)[o] + IF o \in Ops(out) THEN 1 ELSE 0
  <2>1. mirrorQ' = q \o out
    BY <1>2 DEF Pass
  <2>2. CASE out = <<>>
    <3>1. mirrorQ' = q /\ Ops(out) = {}
      BY <1>2, <2>1, <2>2 DEF Ops
    <3> QED
      BY <1>3, <3>1
  <2>3. CASE \E m \in Mirrored : out = << m >>
    <3>1. PICK m \in Mirrored : out = << m >>
      BY <2>3
    <3>2. mirrorQ' = Append(q, m) /\ mirrorQ' \in Seq(Mirrored)
      BY <1>2, <2>1, <3>1, AppendIs
    <3>3. Ops(out) = {m.op}
      BY <3>1 DEF Ops
    <3>4. \A o \in RequestOps : Counts(mirrorQ')[o] = Counts(q)[o] + One(m, o)
      BY <3>2, CountsOfAppend
    <3> QED
      BY <3>2, <3>3, <3>4, CountsAre DEF One
  <2> QED
    BY <2>2, <2>3
<1>8. Counts(mirrorQ)' = [o \in RequestOps |-> Counts(mirrorQ)[o]
                                    - (IF src = "mirror" /\ o = op THEN 1 ELSE 0)
                                    + (IF o \in Ops(out) THEN 1 ELSE 0)]
  <2> DEFINE g == [o \in RequestOps |-> Counts(mirrorQ)[o]
                                    - (IF src = "mirror" /\ o = op THEN 1 ELSE 0)
                                    + (IF o \in Ops(out) THEN 1 ELSE 0)]
  <2>1. \A o \in RequestOps : Counts(mirrorQ')[o] = g[o]
    BY <1>6, <1>7
  <2>2. Counts(mirrorQ') = g
    BY <1>7, <2>1
  <2> QED
    BY <2>2
<1>9. Protocol!Pass(src, op, Ops(out))
  BY <1>5, <1>8 DEF Protocol!Pass, Protocol!Ops, RequestOps
<1> QED
  BY <1>4, <1>9 DEF Passes

-----------------------------------------------------------------------------
(***************************************************************************)
(* The steps as CollectReset sees them.                                    *)
(***************************************************************************)
ProtocolVars ==
  <<Busy, Counts(hostQ), Counts(mirrorQ), keyIdx[ColCopy], resetIdx, DonesSoFar>>

(* Every step but the one that sends the requests.                         *)
ProtocolStep ==
  \/ \E n \in 0 .. NKEYS : Protocol!Start(n)
  \/ \E src \in Sources : Protocol!Collect(src)
  \/ Protocol!Query
  \/ \E src \in Sources, op \in RequestOps : Protocol!Reset(src, op)
  \/ \E src \in Sources, op \in RequestOps : Protocol!Lose(src, op)
  \/ Protocol!Finish
  \/ UNCHANGED ProtocolVars

(* The DONE messages of the running call, those read included.             *)
LEMMA DonesAre ==
  InStep => /\ pc \in {"waitVals", "recvVals"} => \A d \in Nat : Dones(d) => DonesSoFar = d
            /\ pc \in {"merge", "recvDone"} => \A d \in Nat : Dones(d) => DonesSoFar = d + 1
            /\ ~Busy => DonesSoFar = 0
<1> SUFFICES ASSUME InStep
             PROVE  /\ pc \in {"waitVals", "recvVals"} => \A d \in Nat : Dones(d) => DonesSoFar = d
                    /\ pc \in {"merge", "recvDone"} => \A d \in Nat : Dones(d) => DonesSoFar = d + 1
                    /\ ~Busy => DonesSoFar = 0
  OBVIOUS
<1>1. \A d \in Nat : Dones(d) => UnreadDones = d
  BY UnreadDonesIs DEF InStep
<1>2. pc \in {"waitVals", "recvVals"} => DonesSoFar = UnreadDones
  BY DEF DonesSoFar
<1>3. pc \in {"merge", "recvDone"} => DonesSoFar = UnreadDones + 1
  BY DEF DonesSoFar
<1>4. ~Busy => DonesSoFar = 0
  BY DEF DonesSoFar, Busy
<1> QED
  BY <1>1, <1>2, <1>3, <1>4

(* The same after a step.                                                  *)
LEMMA DonesAreNext ==
  ASSUME InStep'
  PROVE  /\ pc' \in {"waitVals", "recvVals"} => \A d \in Nat : Dones(d)' => DonesSoFar' = d
         /\ pc' \in {"merge", "recvDone"} => \A d \in Nat : Dones(d)' => DonesSoFar' = d + 1
         /\ ~Busy' => DonesSoFar' = 0
<1>1. (InStep => /\ pc \in {"waitVals", "recvVals"} => \A d \in Nat : Dones(d) => DonesSoFar = d
                 /\ pc \in {"merge", "recvDone"} => \A d \in Nat : Dones(d) => DonesSoFar = d + 1
                 /\ ~Busy => DonesSoFar = 0)'
  BY DonesAre, PTL
<1> QED
  BY <1>1

(* The ring is left alone, and so is the collected copy.                   *)
LEMMA DonesRest ==
  ASSUME UNCHANGED <<pc, msgHead, msgAddr, msgBuf>>
  PROVE  Busy' = Busy /\ DonesSoFar' = DonesSoFar
  BY DEF Busy, DonesSoFar, UnreadDones, Written

LEMMA CopyRests ==
  ASSUME UNCHANGED <<epoch, keyIdx>>
  PROVE  keyIdx[ColCopy]' = keyIdx[ColCopy]
  BY DEF ColCopy

(* What is first in a queue.                                               *)
LEMMA HeadsAre ==
  ASSUME TypeOK, MirrorOK
  PROVE  /\ hostQ \in Seq(Request) /\ mirrorQ \in Seq(Mirrored)
         /\ hostQ # <<>> => Head(hostQ).op \in RequestOps \cup {"PUSH"}
         /\ mirrorQ # <<>> => Head(mirrorQ).op \in {"COL", "RST_START", "RST", "KEY"}
<1>1. hostQ \in Seq(Request) /\ mirrorQ \in Seq(Mirrored)
  BY DEF TypeOK, WireTypeOK, DataPlaneTypeOK
<1>2. hostQ # <<>> => Head(hostQ).op \in RequestOps \cup {"PUSH"}
  <2>1. hostQ # <<>> => Head(hostQ) \in Request
    BY <1>1
  <2>2. \A m \in Request : m.op \in RequestOps \cup {"PUSH"}
    BY DEF Request, KeylessOps, RequestOps
  <2> QED
    BY <2>1, <2>2
<1>3. mirrorQ # <<>> => Head(mirrorQ).op \in Ops(mirrorQ)
  BY <1>1, TailIs DEF Ops
<1> QED
  BY <1>1, <1>2, <1>3 DEF MirrorOK

(* A lost packet; a lost PUSH or report is none of the protocol's.         *)
LEMMA LoseMaps ==
  ASSUME InStep, QueriesLast, Lose
  PROVE  ProtocolStep
<1> USE DEF InStep
<1>1. /\ UNCHANGED <<pc, msgHead, msgAddr, msgBuf, epoch, keyIdx, resetIdx>>
      /\ \/ hostQ # <<>> /\ Pass("host", <<>>)
         \/ mirrorQ # <<>> /\ Pass("mirror", <<>>)
  <2>1. /\ UNCHANGED <<pc, msgHead, msgAddr, msgBuf, epoch, keyIdx, resetIdx>>
        /\ \/ hostQ # <<>> /\ hostQ' = Tail(hostQ) /\ mirrorQ' = mirrorQ
           \/ mirrorQ # <<>> /\ mirrorQ' = Tail(mirrorQ) /\ hostQ' = hostQ
    BY DEF Lose, LoseRequest, LoseMirrored, wireVars, controllerVars, historyVars, switchVars
  <2>2. mirrorQ \o <<>> = mirrorQ /\ (mirrorQ # <<>> => Tail(mirrorQ) \o <<>> = Tail(mirrorQ))
    BY HeadsAre
  <2> QED
    BY <2>1, <2>2 DEF Pass
<1>2. PICK src \in Sources : Arrived(src) # <<>> /\ Pass(src, <<>>)
  BY <1>1 DEF Arrived, Sources
<1>3. UNCHANGED <<Busy, keyIdx[ColCopy], resetIdx, DonesSoFar>>
  BY <1>1, DonesRest, CopyRests
<1> DEFINE op == Head(Arrived(src)).op
<1>4. CASE op \in RequestOps
  <2>1. Passes(src, op, Ops(<<>>))
    BY <1>2, <1>4, PassMaps
  <2>2. Ops(<<>>) = {}
    BY DEF Ops
  <2>3. Passes(src, op, {})
    BY <2>1, <2>2
  <2>4. Protocol!Lose(src, op)
    BY <1>3, <2>3 DEF Passes, Protocol!Lose
  <2> QED
    BY <1>4, <2>4 DEF ProtocolStep
<1>5. CASE op \notin RequestOps
  <2>1. Counts(hostQ)' = Counts(hostQ) /\ Counts(mirrorQ)' = Counts(mirrorQ)
    <3>1. CASE src = "host"
      <4>1. hostQ' = Tail(hostQ) /\ mirrorQ' = mirrorQ /\ hostQ # <<>> /\ op = Head(hostQ).op
        BY <1>2, <3>1, HeadsAre DEF Pass, Arrived
      <4> QED
        BY <1>5, <4>1, HeadsAre, CountsOfTail
    <3>2. CASE src = "mirror"
      <4>1. mirrorQ' = Tail(mirrorQ) /\ hostQ' = hostQ /\ mirrorQ # <<>> /\ op = Head(mirrorQ).op
        BY <1>2, <3>2, HeadsAre DEF Pass, Arrived
      <4> QED
        BY <1>5, <4>1, HeadsAre, CountsOfTail
    <3> QED
      BY <3>1, <3>2 DEF Sources
  <2> QED
    BY <1>3, <2>1 DEF ProtocolStep, ProtocolVars
<1> QED
  BY <1>4, <1>5

(* A query only leaves the link.                                           *)
LEMMA QueryMaps ==
  ASSUME InStep, QueriesLast, Query
  PROVE  ProtocolStep
<1> USE DEF InStep
<1>1. /\ UNCHANGED <<pc, msgHead, msgAddr, msgBuf, epoch, keyIdx, resetIdx>>
      /\ hostQ # <<>> /\ Head(hostQ).op = "QRY_KEY" /\ Pass("host", <<>>)
  BY DEF Query, QueryKey, Arrives, Arrived, SendNothing, controllerVars
<1>2. UNCHANGED <<Busy, keyIdx[ColCopy], resetIdx, DonesSoFar>>
  BY <1>1, DonesRest, CopyRests
<1>3. Passes("host", "QRY_KEY", Ops(<<>>))
  <2>1. "host" \in Sources /\ "QRY_KEY" \in RequestOps
    BY DEF Sources, RequestOps
  <2>2. Arrived("host") = hostQ
    BY DEF Arrived
  <2> QED
    BY <1>1, <2>1, <2>2, PassMaps
<1>4. Ops(<<>>) = {}
  BY DEF Ops
<1>5. Protocol!Query
  BY <1>2, <1>3, <1>4 DEF Passes, Protocol!Query
<1> QED
  BY <1>5 DEF ProtocolStep

(* So does a report leave the mirror, between two calls of switchWin.      *)
LEMMA ReportMaps ==
  ASSUME InStep, ReportOverflow
  PROVE  ProtocolStep
<1> USE DEF InStep
<1>1. /\ mirrorQ # <<>> /\ Head(mirrorQ).op = "KEY" /\ hostQ' = hostQ
      /\ mirrorQ' = Tail(mirrorQ) \o <<>>
      /\ UNCHANGED <<epoch, resetIdx, keyIdx, pc>>
  BY DEF ReportOverflow, ReportKey, Arrives, Arrived, Pass, sketchVars, controllerVars, historyVars
<1>2. mirrorQ' = Tail(mirrorQ)
  BY <1>1, HeadsAre
<1>3. Counts(mirrorQ)' = Counts(mirrorQ)
  <2>1. Head(mirrorQ).op \notin RequestOps
    BY <1>1 DEF RequestOps
  <2> QED
    BY <1>1, <1>2, <2>1, HeadsAre, CountsOfTail
<1>4. pc \in {"idle", "exit"}
  <2>1. 1 \in Reporting
    BY <1>1, HeadsAre DEF Reporting
  <2> QED
    BY <2>1 DEF ReportsOK
<1>5. UNCHANGED <<Busy, DonesSoFar>>
  BY <1>1, <1>4 DEF Busy, DonesSoFar
<1>6. keyIdx[ColCopy]' = keyIdx[ColCopy]
  BY <1>1, CopyRests
<1> QED
  BY <1>1, <1>3, <1>5, <1>6 DEF ProtocolStep, ProtocolVars

(* START and COL collect a key, or find none.                              *)
LEMMA CollectMaps ==
  ASSUME Fits, InStep, InStep', QueriesLast, NEW src \in Sources, Collect(src)
  PROVE  ProtocolStep
<1> USE DEF InStep
<1>1. /\ Arrives(src, {"START", "COL"}) /\ SwitchEpoch(src)
      /\ UNCHANGED <<resetIdx, pc, msgHead, msgTail>>
  BY DEF Collect, CollectKey, CollectNothing, controllerVars
<1>2. Arrived(src) # <<>> /\ Head(Arrived(src)).op \in {"START", "COL"}
  BY <1>1 DEF Arrives
<1>3. PICK op : op = Head(Arrived(src)).op
  OBVIOUS
<1>4. PICK c, l, o :
        /\ c = CopyCollectedBy(src)
        /\ l = IF keyIdx[c] = 0 THEN 0 ELSE keyIdx[c] - 1
        /\ o = IF keyIdx[c] = 0 THEN IF op = "START" THEN "RST_START" ELSE "RST"
                                ELSE NextCollectOp(l)
  OBVIOUS
<1>5. PICK out : out = << Again(src, o) >>
  OBVIOUS
<1>6. Pass(src, out) /\ keyIdx' = [keyIdx EXCEPT ![c] = l]
  <2>1. CASE CollectKey(src)
    <3>1. /\ keyIdx[c] # 0 /\ keyIdx' = [keyIdx EXCEPT ![c] = keyIdx[c] - 1]
          /\ Pass(src, << Again(src, NextCollectOp(keyIdx[c] - 1)) >>)
      BY <1>4, <2>1 DEF CollectKey
    <3> QED
      BY <1>4, <1>5, <3>1
  <2>2. CASE CollectNothing(src)
    <3>1. /\ keyIdx[c] = 0 /\ keyIdx' = keyIdx
          /\ Pass(src, << Again(src, IF op = "START" THEN "RST_START" ELSE "RST") >>)
      BY <1>3, <1>4, <2>2 DEF CollectNothing
    <3>2. c \in Copies
      BY <1>4, TheCopies DEF CopyCollectedBy
    <3>3. keyIdx \in [Copies -> 0 .. NKEYS]
      BY DEF TypeOK, DataPlaneTypeOK
    <3>4. keyIdx' = [keyIdx EXCEPT ![c] = l]
      BY <1>4, <3>1, <3>2, <3>3
    <3> QED
      BY <1>4, <1>5, <3>1, <3>4
  <2> QED
    BY <2>1, <2>2 DEF Collect
<1>7. o \in {"COL", "RST", "RST_START"}
  BY <1>4 DEF NextCollectOp
<1>8. Again(src, o) \in Mirrored /\ Again(src, o).op = o /\ Ops(out) = {o}
  <2>1. Again(src, o) \in Mirrored /\ Again(src, o).op = o
    BY <1>2, <1>7, AgainIs DEF KeylessOps
  <2> QED
    BY <1>5, <2>1 DEF Ops
<1>9. Passes(src, op, {o})
  <2>1. op \in RequestOps
    BY <1>2, <1>3 DEF RequestOps
  <2>2. \E m \in Mirrored : out = << m >>
    BY <1>5, <1>8
  <2>3. Passes(src, op, Ops(out))
    BY <1>2, <1>3, <1>6, <2>1, <2>2, PassMaps
  <2> QED
    BY <1>8, <2>3
<1>10. hostQ' = IF src = "host" THEN Tail(hostQ) ELSE hostQ
  BY <1>6 DEF Pass
<1>11. /\ c \in Copies /\ ColCopy' = c
       /\ op = "START" => src = "host"
       /\ op # "START" => c = ColCopy
  <2>1. CASE op = "START"
    BY <1>1, <1>3, <1>4, <1>10, <2>1, CollectReady
  <2>2. CASE op # "START"
    <3>1. c = ColCopy /\ epoch' = epoch
      BY <1>1, <1>3, <1>4, <2>2 DEF CopyCollectedBy, SwitchEpoch
    <3> QED
      BY <2>2, <3>1, TheCopies DEF ColCopy
  <2> QED
    BY <2>1, <2>2
<1>12. keyIdx[c] \in 0 .. NKEYS /\ keyIdx[ColCopy]' = l
  <2>1. keyIdx \in [Copies -> 0 .. NKEYS]
    BY DEF TypeOK, DataPlaneTypeOK
  <2>2. keyIdx'[c] = l
    BY <1>6, <1>11, <2>1
  <2> QED
    BY <1>11, <2>1, <2>2
<1>13. Busy' = Busy /\ DonesSoFar' = DonesSoFar
  <2>1. CASE UNCHANGED <<msgBuf, msgAddr>>
    BY <1>1, <2>1, DonesRest
  <2>2. CASE ~UNCHANGED <<msgBuf, msgAddr>>
    <3>1. keyIdx[c] # 0
      BY <1>4, <2>2 DEF Collect, CollectNothing, CollectKey, SendNothing
    <3>2. op = "START" \/ keyIdx[ColCopy] # 0
      BY <1>11, <3>1
    <3>3. /\ c \in Copies /\ pc \in {"waitVals", "recvVals"} /\ Dones(0) /\ Kind("KEYVAL")
          /\ Behind \in Nat /\ Behind + keyIdx[c] =< NKEYS
      BY <1>1, <1>3, <1>4, <1>10, <3>2, CollectReady
    <3>4. PICK k : k = keyBuf[c][keyIdx[c] - 1] /\ SendMsg("KEYVAL", k, CmRead(c, k))
      BY <1>4, <2>2 DEF Collect, CollectNothing, CollectKey, SendNothing
    <3>5. k \in Keys /\ CmRead(c, k) \in Val
      <4>1. keyIdx[c] - 1 \in 0 .. keyIdx[c] - 1
        BY <1>12, <3>1, DataPlaneAssumption
      <4>2. k \in Keys
        BY <3>3, <3>4, <4>1 DEF BuffersOK
      <4> QED
        BY <3>3, <4>2, CmReadIs
    <3>6. Behind < MSGS - 1
      BY <1>12, <3>3, DataPlaneAssumption, WireAssumption DEF Fits
    <3>7. Dones(0)'
      BY <1>1, <3>3, <3>4, <3>5, <3>6, SendMsgCounts
    <3>8. DonesSoFar = 0 /\ DonesSoFar' = 0
      BY <1>1, <3>3, <3>7, DonesAre, DonesAreNext
    <3> QED
      BY <1>1, <3>8 DEF Busy
  <2> QED
    BY <2>1, <2>2
<1>14. CASE op = "START"
  <2>1. o = Protocol!NextCollectOp(l)
    BY <1>4, <1>14 DEF NextCollectOp, Protocol!NextCollectOp
  <2>2. Protocol!Start(keyIdx[c])
    BY <1>1, <1>4, <1>9, <1>11, <1>12, <1>13, <1>14, <2>1 DEF Passes, Protocol!Start
  <2> QED
    BY <1>12, <2>2 DEF ProtocolStep
<1>15. CASE op # "START"
  <2>1. op = "COL"
    BY <1>2, <1>3, <1>15
  <2>2. {o} = IF keyIdx[ColCopy] = 0 THEN {"RST"} ELSE {Protocol!NextCollectOp(l)}
    BY <1>4, <1>11, <1>15 DEF NextCollectOp, Protocol!NextCollectOp
  <2>3. l = IF keyIdx[ColCopy] = 0 THEN 0 ELSE keyIdx[ColCopy] - 1
    BY <1>4, <1>11, <1>15
  <2>4. Protocol!Collect(src)
    BY <1>1, <1>9, <1>12, <1>13, <2>1, <2>2, <2>3 DEF Passes, Protocol!Collect
  <2> QED
    BY <2>4 DEF ProtocolStep
<1> QED
  BY <1>14, <1>15

(* One DONE message more is one more for the controller to count.          *)
LEMMA DoneCounted ==
  ASSUME InStep, InStep', Busy, UNCHANGED <<pc, msgHead, msgTail>>, Behind < MSGS - 1,
         SendMsg("DONE", NoKey, 0)
  PROVE  DonesSoFar' = DonesSoFar + 1
<1> USE DEF InStep
<1>1. \A d \in Nat : Dones(d) => Dones(d + 1)'
  BY DoneSent
<1>2. CASE pc \in {"waitVals", "recvVals"}
  <2>1. PICK d \in {0, 1, 2} : Dones(d)
    BY <1>2 DEF PhaseOK
  <2>2. DonesSoFar = d
    BY <1>2, <2>1, DonesAre
  <2>3. d \in Nat /\ d + 1 \in Nat /\ Dones(d + 1)'
    BY <1>1, <2>1
  <2>4. DonesSoFar' = d + 1
    BY <1>2, <2>3, DonesAreNext
  <2> QED
    BY <2>2, <2>4
<1>3. CASE pc \in {"merge", "recvDone"}
  <2>1. PICK d \in {1, 2} : Dones(d - 1)
    BY <1>3 DEF PhaseOK
  <2>2. PICK e \in Nat : e = d - 1 /\ Dones(e)
    BY <2>1
  <2>3. DonesSoFar = e + 1
    BY <1>3, <2>2, DonesAre
  <2>4. e + 1 \in Nat /\ Dones(e + 1)'
    BY <1>1, <2>2
  <2>5. DonesSoFar' = (e + 1) + 1
    BY <1>3, <2>4, DonesAreNext
  <2> QED
    BY <2>3, <2>5
<1> QED
  BY <1>2, <1>3 DEF Busy

(* An RST_START, or an index left to reset, is only found while a call     *)
(* waits, and only before the second DONE.                                 *)
LEMMA ResetIsAwaited ==
  ASSUME Fits, InStep, ~Cleared
  PROVE  Busy /\ Behind \in Nat /\ Behind < MSGS - 1
<1> USE DEF InStep
<1>1. Busy
  BY DEF PhaseOK, TypeOK, ControllerTypeOK, Phases, Busy
<1>2. \A d : Stage(d) => d \in {0, 1}
  BY DEF Stage
<1>3. Behind \in Nat
  BY DistIs, WireAssumption DEF TypeOK, DataPlaneTypeOK, ControllerTypeOK, Behind, Off
<1>4. keyIdx[ColCopy] \in 0 .. NKEYS
  BY TheCopies DEF TypeOK, DataPlaneTypeOK
<1>5. Behind =< NKEYS + 1
  <2>1. CASE pc \in {"waitVals", "recvVals"}
    <3>1. PICK d \in {0, 1} : Behind - d + keyIdx[ColCopy] =< NKEYS
      BY <1>2, <2>1 DEF PhaseOK
    <3> QED
      BY <1>3, <1>4, <3>1, DataPlaneAssumption
  <2>2. CASE pc \in {"merge", "recvDone"}
    <3>1. PICK d \in {0, 1} : Behind = d - 1
      BY <1>2, <2>2 DEF PhaseOK
    <3> QED
      BY <1>3, <3>1, DataPlaneAssumption
  <2> QED
    BY <1>1, <2>1, <2>2 DEF Busy
<1> QED
  BY <1>1, <1>3, <1>5, DataPlaneAssumption, WireAssumption DEF Fits

(* RST_START and RST take a cell, or wait, or end; PUSH is none of these.  *)
LEMMA ResetMaps ==
  ASSUME Fits, InStep, InStep', QueriesLast, NEW src \in Sources, Reset(src)
  PROVE  ProtocolStep
<1> USE DEF InStep
<1>1. PICK op \in {"RST_START", "RST", "PUSH"} : op = Head(Arrived(src)).op
  BY DEF Reset, ResetPacket, Arrives
<1>2. PICK x : x = ResetIdxGot(op)
  OBVIOUS
<1>3. PICK out : out = IF x # NDATA THEN << Again(src, "RST") >> ELSE <<>>
  OBVIOUS
<1>4. /\ Arrived(src) # <<>> /\ Pass(src, out) /\ resetIdx' = ResetIdxLeft(op)
      /\ IF IsDone(op, x) THEN SendMsg("DONE", NoKey, 0) ELSE SendNothing
      /\ UNCHANGED <<epoch, keyIdx, pc, msgHead, msgTail>>
  BY <1>1, <1>2, <1>3 DEF Reset, ResetPacket, Arrives, controllerVars
<1>5. NDATA \in Nat \ {0, 1} /\ RSTIDX_MID # NDATA /\ RSTIDX_MID \in Nat
  BY DataPlaneAssumption DEF RSTIDX_MID
<1>6. resetIdx \in 0 .. NDATA \cup {RSTIDX_MID}
  BY DEF TypeOK, DataPlaneTypeOK
<1>7. keyIdx[ColCopy]' = keyIdx[ColCopy]
  BY <1>4, CopyRests
<1>8. Cleared => op # "RST_START" /\ x = NDATA
  <2> SUFFICES ASSUME Cleared PROVE op # "RST_START" /\ x = NDATA
    OBVIOUS
  <2>1. op # "RST_START"
    BY <1>1, ResetPasses DEF Cleared, Calm
  <2>2. resetIdx = NDATA
    BY DEF Cleared
  <2> QED
    BY <1>2, <1>5, <2>1, <2>2 DEF ResetIdxGot
<1>9. out = <<>> \/ \E m \in Mirrored : out = << m >>
  <2>1. Again(src, "RST") \in Mirrored
    BY <1>1, <1>4, AgainIs DEF KeylessOps
  <2> QED
    BY <1>3, <2>1
<1>10. CASE op = "PUSH"
  <2>1. pc = "recvKeys"
    BY <1>1, <1>10, ResetPasses DEF PushAwaited
  <2>2. Cleared
    BY <2>1 DEF PhaseOK
  <2>3. x = NDATA /\ resetIdx' = resetIdx /\ out = <<>>
    BY <1>3, <1>4, <1>8, <1>10, <2>2 DEF ResetIdxLeft, Cleared
  <2>4. src = "host"
    <3>1. src = "mirror" => Head(mirrorQ).op # "PUSH" /\ Arrived(src) = mirrorQ
      BY <1>4, HeadsAre DEF Arrived
    <3> QED
      BY <1>1, <1>10, <3>1 DEF Sources
  <2>5. hostQ # <<>> /\ Head(hostQ).op = "PUSH" /\ hostQ' = Tail(hostQ) /\ mirrorQ' = mirrorQ
    BY <1>1, <1>4, <1>10, <2>3, <2>4, HeadsAre DEF Arrived, Pass
  <2>6. Counts(hostQ)' = Counts(hostQ) /\ Counts(mirrorQ)' = Counts(mirrorQ)
    <3>1. Head(hostQ).op \notin RequestOps
      BY <2>5 DEF RequestOps
    <3> QED
      BY <2>5, <3>1, HeadsAre, CountsOfTail
  <2>7. Busy' = Busy /\ DonesSoFar' = DonesSoFar
    BY <1>4, <2>1 DEF Busy, DonesSoFar
  <2> QED
    BY <1>7, <2>3, <2>6, <2>7 DEF ProtocolStep, ProtocolVars
<1>11. CASE op # "PUSH"
  <2>1. op \in RequestOps /\ op \in {"RST_START", "RST"}
    BY <1>1, <1>11 DEF RequestOps
  <2>2. Passes(src, op, Ops(out))
    BY <1>1, <1>4, <1>9, <2>1, PassMaps
  <2>3. Ops(out) = IF x = NDATA THEN {} ELSE {"RST"}
    <3>1. Again(src, "RST").op = "RST"
      BY <1>1, <1>4, AgainIs DEF KeylessOps
    <3> QED
      BY <1>3, <3>1 DEF Ops
  <2>4. x = Protocol!ResetIdxGot(op) /\ resetIdx' = Protocol!ResetIdxLeft(op)
    BY <1>2, <1>4 DEF ResetIdxGot, ResetIdxLeft, RSTIDX_MID,
                      Protocol!ResetIdxGot, Protocol!ResetIdxLeft, Protocol!RSTIDX_MID
  <2>5. IsDone(op, x) <=> Protocol!Reported(x)
    BY <2>1 DEF IsDone, Protocol!Reported
  <2>6. Busy' = Busy
    BY <1>4 DEF Busy
  <2>7. DonesSoFar' = IF Protocol!Reported(x) THEN DonesSoFar + 1 ELSE DonesSoFar
    <3>1. CASE IsDone(op, x)
      <4>1. x # NDATA
        BY <1>5, <2>1, <3>1 DEF IsDone
      <4>2. Busy /\ Behind < MSGS - 1
        BY <1>8, <4>1, ResetIsAwaited
      <4>3. DonesSoFar' = DonesSoFar + 1
        BY <1>4, <3>1, <4>2, DoneCounted
      <4> QED
        BY <2>5, <3>1, <4>3
    <3>2. CASE ~IsDone(op, x)
      <4>1. UNCHANGED <<msgBuf, msgAddr>>
        BY <1>4, <3>2 DEF SendNothing
      <4> QED
        BY <1>4, <2>5, <3>2, <4>1, DonesRest
    <3> QED
      BY <3>1, <3>2
  <2>8. Protocol!Reset(src, op)
    BY <1>7, <2>1, <2>2, <2>3, <2>4, <2>6, <2>7 DEF Passes, Protocol!Reset
  <2> QED
    BY <2>1, <2>8 DEF ProtocolStep
<1> QED
  BY <1>10, <1>11

(* Traffic leaves the packets of the protocol and the collected copy.      *)
LEMMA TrafficMaps ==
  ASSUME InStep, NEW k \in Keys, Traffic(k)
  PROVE  ProtocolStep
<1> USE DEF InStep
<1>1. /\ hostQ' = hostQ /\ UNCHANGED <<pc, msgHead, msgAddr, msgBuf, epoch, resetIdx>>
      /\ \/ mirrorQ' = mirrorQ \o <<>>
         \/ mirrorQ' = mirrorQ \o << Report(k) >>
      /\ \/ keyIdx' = keyIdx
         \/ keyIdx' = [keyIdx EXCEPT ![ActiveCopy] = @ + 1]
  BY DEF Traffic, NormalPacket, controllerVars, wireVars
<1>2. keyIdx[ColCopy]' = keyIdx[ColCopy]
  <2>1. keyIdx \in [Copies -> 0 .. NKEYS] /\ ColCopy \in Copies /\ ColCopy # ActiveCopy
    BY TheCopies DEF TypeOK, DataPlaneTypeOK
  <2>2. ColCopy' = ColCopy
    BY <1>1 DEF ColCopy
  <2> QED
    BY <1>1, <2>1, <2>2
<1>3. Counts(mirrorQ)' = Counts(mirrorQ)
  <2>1. CASE mirrorQ' = mirrorQ \o <<>>
    <3>1. mirrorQ' = mirrorQ
      BY <2>1, HeadsAre
    <3> QED
      BY <3>1
  <2>2. CASE mirrorQ' = mirrorQ \o << Report(k) >>
    <3>1. PICK m \in Mirrored : m = Report(k) /\ m.op = "KEY"
      <4>1. Report(k) \in Mirrored /\ Report(k).op = "KEY"
        BY DEF Mirrored, Report
      <4> QED
        BY <4>1
    <3>2. mirrorQ' = Append(mirrorQ, m) /\ mirrorQ' \in Seq(Mirrored)
      BY <2>2, <3>1, HeadsAre, AppendIs
    <3>3. \A op \in RequestOps : Counts(mirrorQ')[op] = Counts(mirrorQ)[op] + One(m, op)
      BY <3>2, HeadsAre, CountsOfAppend
    <3>4. Counts(mirrorQ) \in [RequestOps -> Nat] /\ Counts(mirrorQ') \in [RequestOps -> Nat]
      BY <3>2, HeadsAre, CountsAre
    <3>5. \A op \in RequestOps : One(m, op) = 0
      BY <3>1 DEF One, RequestOps
    <3>6. \A op \in RequestOps : Counts(mirrorQ')[op] = Counts(mirrorQ)[op]
      BY <3>3, <3>4, <3>5
    <3> QED
      BY <3>4, <3>6
  <2> QED
    BY <1>1, <2>1, <2>2
<1> QED
  BY <1>1, <1>2, <1>3, DonesRest DEF ProtocolStep, ProtocolVars

(* switchWin begins, and its PUSH is no packet of the protocol.            *)
LEMMA StartMaps ==
  ASSUME InStep, StartSwitch
  PROVE  ProtocolStep
<1> USE DEF InStep
<1>1. /\ pc = "idle" /\ pc' = "recvKeys" /\ hostQ' = Append(hostQ, Req("PUSH"))
      /\ UNCHANGED <<mirrorQ, epoch, keyIdx, resetIdx>>
  BY DEF StartSwitch, SwitchWin, SwitchWinSending, Goto, switchVars
<1>2. Busy' = Busy /\ DonesSoFar' = DonesSoFar
  BY <1>1 DEF Busy, DonesSoFar
<1>3. Counts(hostQ)' = Counts(hostQ)
  <2>1. PICK m \in Request : m = Req("PUSH") /\ m.op = "PUSH"
    <3>1. Req("PUSH") \in Request /\ Req("PUSH").op = "PUSH"
      BY DEF Req, Request, KeylessOps
    <3> QED
      BY <3>1
  <2>2. hostQ' = Append(hostQ, m) /\ hostQ' \in Seq(Request)
    BY <1>1, <2>1, HeadsAre, AppendIs
  <2>3. \A op \in RequestOps : Counts(hostQ')[op] = Counts(hostQ)[op] + One(m, op)
    BY <2>2, HeadsAre, CountsOfAppend
  <2>4. Counts(hostQ) \in [RequestOps -> Nat] /\ Counts(hostQ') \in [RequestOps -> Nat]
    BY <2>2, HeadsAre, CountsAre
  <2>5. \A op \in RequestOps : One(m, op) = 0
    BY <2>1 DEF One, RequestOps
  <2>6. \A op \in RequestOps : Counts(hostQ')[op] = Counts(hostQ)[op]
    BY <2>3, <2>4, <2>5
  <2> QED
    BY <2>4, <2>6
<1> QED
  BY <1>1, <1>2, <1>3, CopyRests DEF ProtocolStep, ProtocolVars

(* What switchWin reads or merges leaves the packets alone.                *)
LEMMA ReceiveMaps ==
  ASSUME InStep, InStep', Receive \/ MergeSubWindow \/ Quit \/ Stopped \/ UNCHANGED vars
  PROVE  SendRequests \/ ProtocolStep
<1> USE DEF InStep
<1> SUFFICES ASSUME ~SendRequests PROVE ProtocolStep
  OBVIOUS
<1>1. /\ UNCHANGED <<hostQ, mirrorQ, epoch, keyIdx, resetIdx, msgAddr, msgBuf>>
  BY DEF Receive, AwaitValues, RecvKey, RecvKeyVal, RecvKeyValsDone, RecvDone, MergeSubWindow, Merge,
         Quit, Exit, Stopped, switchVars, wireVars, vars
<1>2. UNCHANGED <<Counts(hostQ), Counts(mirrorQ), keyIdx[ColCopy], resetIdx>>
  BY <1>1, CopyRests
<1>3. Busy' = Busy /\ DonesSoFar' = DonesSoFar => ProtocolStep
  BY <1>2 DEF ProtocolStep, ProtocolVars
<1>4. CASE AwaitValues
  <2>1. pc = "waitVals" /\ pc' = "recvVals" /\ UnreadDones' = UnreadDones
    BY <1>1, <1>4 DEF AwaitValues, Goto, UnreadDones, Written
  <2>2. Busy' = Busy /\ DonesSoFar' = DonesSoFar
    BY <2>1 DEF Busy, DonesSoFar
  <2> QED
    BY <1>3, <2>2
<1>5. CASE RecvKey
  <2>1. pc = "recvKeys" /\ pc' = pc
    BY <1>5 DEF RecvKey
  <2>2. Busy' = Busy /\ DonesSoFar' = DonesSoFar
    BY <2>1 DEF Busy, DonesSoFar
  <2> QED
    BY <1>3, <2>2
<1>6. CASE RecvKeyVal
  <2>1. pc = "recvVals" /\ pc' = pc /\ FirstMsg.op # "DONE" /\ NextMsg
    BY <1>6 DEF RecvKeyVal
  <2>2. PICK d \in {0, 1, 2} : Dones(d)
    BY <2>1 DEF PhaseOK
  <2>3. d \in Nat /\ Dones(d)'
    BY <1>1, <2>1, <2>2, NextMsgCounts
  <2>4. DonesSoFar = d /\ DonesSoFar' = d
    BY <2>1, <2>2, <2>3, DonesAre, DonesAreNext
  <2> QED
    BY <1>3, <2>1, <2>4 DEF Busy
<1>7. CASE RecvKeyValsDone
  <2>1. pc = "recvVals" /\ pc' = "merge" /\ FirstMsg.op = "DONE" /\ NextMsg
    BY <1>7 DEF RecvKeyValsDone, Goto
  <2>2. PICK d \in {0, 1, 2} : Dones(d)
    BY <2>1 DEF PhaseOK
  <2>3. d > 0 /\ Dones(d - 1)'
    BY <1>1, <2>1, <2>2, NextMsgCounts
  <2>4. PICK e \in Nat : e = d - 1 /\ Dones(e)'
    BY <2>2, <2>3
  <2>5. DonesSoFar = d
    BY <2>1, <2>2, DonesAre
  <2>6. DonesSoFar' = e + 1
    BY <2>1, <2>4, DonesAreNext
  <2>7. DonesSoFar' = DonesSoFar
    BY <2>4, <2>5, <2>6
  <2> QED
    BY <1>3, <2>1, <2>7 DEF Busy
<1>8. CASE RecvDone
  <2>1. pc = "recvDone" /\ pc' = "idle" /\ NextMsg
    BY <1>8 DEF RecvDone, Goto
  <2>2. PICK d \in {1, 2} : Dones(d - 1) /\ Behind = d - 1
    BY <2>1 DEF PhaseOK
  <2>3. d = 2
    BY <1>1, <2>1, <2>2, NextMsgKeepsRing
  <2>4. PICK e \in Nat : e = 1 /\ Dones(e)
    BY <2>2, <2>3
  <2>5. DonesSoFar = e + 1
    BY <2>1, <2>4, DonesAre
  <2>6. Busy /\ ~Busy' /\ DonesSoFar = 2
    BY <2>1, <2>4, <2>5 DEF Busy
  <2>7. DonesSoFar' = 0
    BY <2>6, DonesAreNext
  <2>8. Protocol!Finish
    BY <1>2, <2>6, <2>7 DEF Protocol!Finish
  <2> QED
    BY <2>8 DEF ProtocolStep
<1>9. CASE MergeSubWindow
  <2>1. pc = "merge" /\ pc' = "recvDone" /\ UnreadDones' = UnreadDones
    BY <1>1, <1>9 DEF MergeSubWindow, Merge, Goto, UnreadDones, Written
  <2>2. Busy' = Busy /\ DonesSoFar' = DonesSoFar
    BY <2>1 DEF Busy, DonesSoFar
  <2> QED
    BY <1>3, <2>2
<1>10. CASE Quit
  <2>1. pc = "idle" /\ pc' = "exit"
    BY <1>10 DEF Quit, Exit, Goto
  <2>2. Busy' = Busy /\ DonesSoFar' = DonesSoFar
    BY <2>1 DEF Busy, DonesSoFar
  <2> QED
    BY <1>3, <2>2
<1>11. CASE Stopped \/ UNCHANGED vars
  <2>1. UNCHANGED <<pc, msgHead, msgAddr, msgBuf>>
    BY <1>11 DEF Stopped, vars, controllerVars, switchVars, wireVars
  <2> QED
    BY <1>3, <2>1, DonesRest
<1> QED
  BY <1>4, <1>5, <1>6, <1>7, <1>8, <1>9, <1>10, <1>11 DEF Receive

(* What switchWin knows when it sends its requests: only what is left of   *)
(* earlier resets is on the link, and the ring is empty when the DONE of   *)
(* the PUSH has been read.                                                 *)
LEMMA SendingIs ==
  ASSUME InStep, SendRequests, UNCHANGED <<switchVars, historyVars>>
  PROVE  /\ pc = "recvKeys" /\ pc' = "waitVals" /\ hostQ' = hostQ \o RequestBatch
         /\ Ops(hostQ) \subseteq {"RST"} /\ Behind' = 0
         /\ hostQ \in Seq(Request) /\ overflowKeys \in Seq(Keys) /\ RequestBatch \in Seq(Request)
         /\ UNCHANGED <<mirrorQ, epoch, keyIdx, resetIdx, overflowKeys, switches>>
<1> USE DEF InStep
<1>1. /\ pc = "recvKeys" /\ pc' = "waitVals" /\ FirstMsg.op = "DONE" /\ NextMsg
      /\ hostQ' = hostQ \o RequestBatch
      /\ UNCHANGED <<msgBuf, msgAddr, mirrorQ, epoch, keyIdx, resetIdx, overflowKeys, switches>>
  BY DEF SendRequests, SendRequestsOf, Goto, switchVars, historyVars
<1>2. Cleared
  BY <1>1 DEF PhaseOK
<1>3. PICK d \in {0, 1} : Dones(d) /\ (d = 1 => "PUSH" \notin Ops(hostQ))
  BY <1>1 DEF PhaseOK
<1>4. Behind = d /\ d > 0
  BY <1>1, <1>3, NextMsgCounts
<1>5. Behind' = Behind - 1
  BY <1>1, NextMsgKeepsRing
<1>6. d = 1 /\ Behind' = 0
  BY <1>3, <1>4, <1>5
<1>7. Ops(hostQ) \subseteq {"RST"}
  BY <1>2, <1>3, <1>6 DEF Cleared, Calm
<1>8. hostQ \in Seq(Request) /\ overflowKeys \in Seq(Keys)
  BY DEF TypeOK, WireTypeOK, ControllerTypeOK
<1>9. RequestBatch \in Seq(Request)
  BY <1>8, BatchIs
<1> QED
  BY <1>1, <1>6, <1>7, <1>8, <1>9

(* The packets that go round, in both queues.                              *)
LEMMA GoingIs ==
  ASSUME NEW S, NEW q \in Seq(S)
  PROVE  /\ Going(q) \in Nat
         /\ \A op \in RequestOps : Counts(q)[op] = Number(q, op) /\ Number(q, op) \in Nat
         /\ Going(q) = Counts(q)["START"] + Counts(q)["COL"] + Counts(q)["RST_START"] + Counts(q)["RST"]
<1>1. \A op \in RequestOps : Counts(q)[op] = Number(q, op) /\ Number(q, op) \in Nat
  BY CountsAre, NumberIs
<1>2. {"START", "COL", "RST_START", "RST"} \subseteq RequestOps
  BY DEF RequestOps
<1> QED
  BY <1>1, <1>2 DEF Going

(* Products, for the bounds.                                               *)
LEMMA MoreIsMore ==
  ASSUME NEW a \in Nat, NEW m \in Nat, NEW n \in Nat, m =< n
  PROVE  a * m \in Nat /\ a * m =< a * n /\ a * (m + 1) = a * m + a
<1>1. PICK x \in Nat : n = m + x
  <2>1. n - m \in Nat /\ n = m + (n - m)
    OBVIOUS
  <2> QED
    BY <2>1
<1>2. a * (m + x) = a * m + a * x
  OBVIOUS
<1>3. a * x \in Nat /\ a * m \in Nat
  OBVIOUS
<1>4. a * (m + 1) = a * m + a
  OBVIOUS
<1> QED
  BY <1>1, <1>2, <1>3, <1>4

(* switchWin sends its requests.                                           *)
LEMMA BeginMaps ==
  ASSUME Fits, InStep, InStep', AskedOnce, FewPackets, SendRequests,
         UNCHANGED <<switchVars, historyVars>>
  PROVE  \E m \in 0 .. Cardinality(Keys) : Protocol!Begin(m)
<1> USE DEF InStep
<1>1. /\ pc = "recvKeys" /\ pc' = "waitVals" /\ hostQ' = hostQ \o RequestBatch
      /\ Ops(hostQ) \subseteq {"RST"} /\ Behind' = 0
      /\ hostQ \in Seq(Request) /\ overflowKeys \in Seq(Keys) /\ RequestBatch \in Seq(Request)
      /\ UNCHANGED <<mirrorQ, epoch, keyIdx, resetIdx, overflowKeys, switches>>
  BY SendingIs
<1>2. mirrorQ \in Seq(Mirrored)
  BY DEF TypeOK, WireTypeOK, DataPlaneTypeOK
<1>3. PICK n \in Nat, m \in Nat, r \in Nat :
        n = NReq - 1 /\ m = Len(overflowKeys) /\ r = Counts(hostQ)["RST"]
  <2>1. Counts(hostQ)["RST"] \in Nat
    BY <1>1, CountsAre DEF RequestOps
  <2>2. Len(overflowKeys) \in Nat
    BY <1>1
  <2>3. NReq - 1 \in Nat
    BY ControllerAssumption
  <2> QED
    BY <2>1, <2>2, <2>3
<1>4. m \in 0 .. Cardinality(Keys)
  <2>1. overflowKeys \in [1 .. m -> Keys]
    BY <1>1, <1>3
  <2>2. \A i, j \in 1 .. m : overflowKeys[i] = overflowKeys[j] => i = j
    BY <1>3 DEF AskedOnce
  <2>3. m =< Cardinality(Keys) /\ Cardinality(Keys) \in Nat
    BY <2>1, <2>2, PlacesOfKeys DEF Fits
  <2> QED
    BY <2>3
<1>5. /\ Counts(hostQ)["START"] = 0 /\ Counts(hostQ)["COL"] = 0 /\ Counts(hostQ)["QRY_KEY"] = 0
      /\ Counts(hostQ)["RST_START"] = 0
  <2>1. \A op \in RequestOps : op \notin Ops(hostQ) => Counts(hostQ)[op] = 0
    BY <1>1, CountsAre
  <2> QED
    BY <1>1, <2>1 DEF RequestOps
<1>6. \A op \in RequestOps : Counts(hostQ)'[op] = Counts(hostQ)[op] + Number(RequestBatch, op)
  <2>1. \A op : Number(hostQ \o RequestBatch, op) = Number(hostQ, op) + Number(RequestBatch, op)
    BY <1>1, NumberOfConcat
  <2> QED
    BY <1>1, <2>1 DEF Counts
<1>7. \A op \in RequestOps : Number(RequestBatch, op) = CASE op = "START"     -> 1
                                                         [] op = "COL"       -> n
                                                         [] op = "QRY_KEY"   -> m
                                                         [] op = "RST_START" -> 1
                                                         [] op = "RST"       -> n
                                                         [] OTHER            -> 0
  BY <1>1, <1>3, NumberOfBatch
<1>8. Counts(hostQ)' = [op \in RequestOps |-> CASE op = "COL"     -> NReq - 1
                                               [] op = "RST"     -> Counts(hostQ)["RST"] + NReq - 1
                                               [] op = "QRY_KEY" -> m
                                               [] OTHER          -> 1]
  <2>1. Counts(hostQ)' \in [RequestOps -> Nat]
    <3>1. hostQ' \in Seq(Request)
      BY <1>1, ConcatIs
    <3>2. Counts(hostQ') \in [RequestOps -> Nat]
      BY <3>1, CountsAre
    <3> QED
      BY <3>2
  <2> QED
    BY <1>3, <1>5, <1>6, <1>7, <2>1 DEF RequestOps
<1>9. Counts(hostQ)["RST"] + Counts(mirrorQ)["RST"] + Counts(mirrorQ)["COL"] =< 2 * NReq * MaxSwitch
  <2>1. PICK a \in Nat, s \in Nat : a = 2 * NReq /\ s = Sent /\ s =< MaxSwitch /\ MaxSwitch \in Nat
    <3>1. 2 * NReq \in Nat /\ MaxSwitch \in Nat
      BY ControllerAssumption, OmniWindowAssumption
    <3>2. Sent \in Nat /\ Sent =< MaxSwitch
      BY <3>1 DEF Sent, FewPackets, TypeOK
    <3> QED
      BY <3>1, <3>2
  <2>2. Going(hostQ) + Going(mirrorQ) =< a * s
    BY <2>1 DEF FewPackets
  <2>3. a * s =< a * MaxSwitch /\ a * s \in Nat
    BY <2>1, MoreIsMore
  <2>4. /\ Going(hostQ) \in Nat /\ Going(hostQ) = Counts(hostQ)["START"] + Counts(hostQ)["COL"]
                                    + Counts(hostQ)["RST_START"] + Counts(hostQ)["RST"]
        /\ Going(mirrorQ) \in Nat /\ Going(mirrorQ) = Counts(mirrorQ)["START"] + Counts(mirrorQ)["COL"]
                                    + Counts(mirrorQ)["RST_START"] + Counts(mirrorQ)["RST"]
    BY <1>1, <1>2, GoingIs
  <2>5. /\ Counts(mirrorQ)["START"] \in Nat /\ Counts(mirrorQ)["COL"] \in Nat
        /\ Counts(mirrorQ)["RST_START"] \in Nat /\ Counts(mirrorQ)["RST"] \in Nat
    BY <1>2, CountsAre DEF RequestOps
  <2>6. Counts(hostQ)["RST"] + Counts(mirrorQ)["RST"] + Counts(mirrorQ)["COL"] =< Going(hostQ) + Going(mirrorQ)
    <3>1. Going(hostQ) = r
      BY <1>3, <1>5, <2>4
    <3>2. PICK x, y, z, u \in Nat : /\ x = Counts(mirrorQ)["START"] /\ y = Counts(mirrorQ)["COL"]
                                    /\ z = Counts(mirrorQ)["RST_START"] /\ u = Counts(mirrorQ)["RST"]
      BY <2>5
    <3>3. Going(mirrorQ) = x + y + z + u
      BY <2>4, <3>2
    <3>4. r + u + y =< r + (x + y + z + u)
      OBVIOUS
    <3> QED
      BY <1>3, <3>1, <3>2, <3>3, <3>4
  <2>7. a * MaxSwitch = 2 * NReq * MaxSwitch /\ a * MaxSwitch \in Nat
    BY <2>1
  <2>8. PICK g \in Nat, x \in Nat, y \in Nat :
          /\ g = Going(hostQ) + Going(mirrorQ) /\ x = a * s /\ y = a * MaxSwitch
    <3>1. Going(hostQ) + Going(mirrorQ) \in Nat
      BY <2>4
    <3> QED
      BY <2>3, <2>7, <3>1
  <2>9. PICK l \in Nat : l = Counts(hostQ)["RST"] + Counts(mirrorQ)["RST"] + Counts(mirrorQ)["COL"]
    <3>1. Counts(hostQ)["RST"] + Counts(mirrorQ)["RST"] + Counts(mirrorQ)["COL"] \in Nat
      BY <1>3, <2>5
    <3> QED
      BY <3>1
  <2>10. l =< g /\ g =< x /\ x =< y
    BY <2>2, <2>3, <2>6, <2>8, <2>9
  <2>11. l =< y
    BY <2>10
  <2> QED
    BY <2>7, <2>8, <2>9, <2>11
<1>10. ~Busy /\ Busy' = TRUE
  BY <1>1 DEF Busy
<1>11. DonesSoFar' = 0
  <2>1. (TypeOK /\ Behind = 0)' => Dones(0)'
    BY EmptyRing, PTL
  <2>2. Dones(0)'
    BY <1>1, <2>1
  <2> QED
    BY <1>1, <2>2, DonesAreNext
<1>12. UNCHANGED <<Counts(mirrorQ), keyIdx[ColCopy], resetIdx>>
  BY <1>1, CopyRests
<1>13. Protocol!Begin(m)
  BY <1>8, <1>9, <1>10, <1>11, <1>12 DEF Protocol!Begin, Protocol!Ops, RequestOps
<1> QED
  BY <1>4, <1>13

(* A packet goes round as one packet at most, and a query not at all.      *)
LEMMA GoingAfterPass ==
  ASSUME TypeOK, TypeOK', NEW src \in Sources, NEW op \in RequestOps, NEW out,
         Protocol!Pass(src, op, out),
         out = {} \/ (op # "QRY_KEY" /\ \E o \in {"COL", "RST_START", "RST"} : out = {o})
  PROVE  (Going(hostQ) + Going(mirrorQ))' =< Going(hostQ) + Going(mirrorQ)
<1> DEFINE Lost(s, o) == IF src = s /\ o = op THEN 1 ELSE 0
           New(o) == IF o \in out THEN 1 ELSE 0
           Sum(c) == c["START"] + c["COL"] + c["RST_START"] + c["RST"]
<1>1. PICK h \in [RequestOps -> Nat], m \in [RequestOps -> Nat] :
        /\ h = Counts(hostQ) /\ m = Counts(mirrorQ)
        /\ Going(hostQ) = Sum(h) /\ Going(mirrorQ) = Sum(m)
  <2>1. hostQ \in Seq(Request) /\ mirrorQ \in Seq(Mirrored)
    BY DEF TypeOK, WireTypeOK, DataPlaneTypeOK
  <2> QED
    BY <2>1, CountsAre, GoingIs
<1>2. PICK g \in [RequestOps -> Nat], n \in [RequestOps -> Nat] :
        /\ g = Counts(hostQ)' /\ n = Counts(mirrorQ)'
        /\ Going(hostQ)' = Sum(g) /\ Going(mirrorQ)' = Sum(n)
  <2>1. hostQ' \in Seq(Request) /\ mirrorQ' \in Seq(Mirrored)
    BY DEF TypeOK, WireTypeOK, DataPlaneTypeOK
  <2>2. /\ Counts(hostQ') \in [RequestOps -> Nat] /\ Counts(mirrorQ') \in [RequestOps -> Nat]
        /\ Going(hostQ') = Sum(Counts(hostQ')) /\ Going(mirrorQ') = Sum(Counts(mirrorQ'))
    BY <2>1, CountsAre, GoingIs
  <2> QED
    BY <2>2
<1>3. \A o \in RequestOps : g[o] = h[o] - Lost("host", o)
  <2>1. g = IF src = "host" THEN [h EXCEPT ![op] = @ - 1] ELSE h
    BY <1>1, <1>2 DEF Protocol!Pass
  <2>2. \A o \in RequestOps : h[o] \in Nat
    BY <1>1
  <2> QED
    BY <1>1, <2>1, <2>2
<1>4. \A o \in RequestOps : n[o] = m[o] - Lost("mirror", o) + New(o)
  BY <1>1, <1>2 DEF Protocol!Pass, Protocol!Ops, RequestOps
<1>5. {"START", "COL", "RST_START", "RST"} \subseteq RequestOps
  BY DEF RequestOps
<1>6. Sum(g) = Sum(h) - (Lost("host", "START") + Lost("host", "COL")
                           + Lost("host", "RST_START") + Lost("host", "RST"))
  <2> HIDE DEF Lost
  <2>1. \A o \in RequestOps : Lost("host", o) \in Nat
    BY DEF Lost
  <2> QED
    BY <1>3, <1>5, <2>1
<1>7. Sum(n) = Sum(m) - (Lost("mirror", "START") + Lost("mirror", "COL")
                           + Lost("mirror", "RST_START") + Lost("mirror", "RST"))
                      + (New("START") + New("COL") + New("RST_START") + New("RST"))
  <2> HIDE DEF Lost, New
  <2>1. \A o \in RequestOps : Lost("mirror", o) \in Nat /\ New(o) \in Nat
    BY DEF Lost, New
  <2> QED
    BY <1>4, <1>5, <2>1
<1>8. \A s \in Sources : Lost(s, "START") + Lost(s, "COL") + Lost(s, "RST_START") + Lost(s, "RST")
                           = IF src = s /\ op # "QRY_KEY" THEN 1 ELSE 0
  BY DEF RequestOps
<1>9. New("START") + New("COL") + New("RST_START") + New("RST") = IF out = {} THEN 0 ELSE 1
  OBVIOUS
<1>10. Sum(h) \in Nat /\ Sum(m) \in Nat
  BY <1>5
<1> HIDE DEF Lost, New, Sum
<1>11. Sum(g) + Sum(n) =< Sum(h) + Sum(m)
  BY <1>6, <1>7, <1>8, <1>9, <1>10 DEF Sources
<1> QED
  BY <1>1, <1>2, <1>11

(* No step but the sending of requests adds packets.                       *)
LEMMA StepIsFew ==
  ASSUME TypeOK, TypeOK', ProtocolStep
  PROVE  (Going(hostQ) + Going(mirrorQ))' =< Going(hostQ) + Going(mirrorQ)
<1> DEFINE Few == (Going(hostQ) + Going(mirrorQ))' =< Going(hostQ) + Going(mirrorQ)
<1>1. {"START", "COL", "QRY_KEY", "RST_START", "RST"} \subseteq RequestOps /\ Sources = {"host", "mirror"}
  BY DEF RequestOps, Sources
<1>2. \A i : \E o \in {"COL", "RST_START", "RST"} : {Protocol!NextCollectOp(i)} = {o}
  BY DEF Protocol!NextCollectOp
<1>3. ASSUME NEW n \in 0 .. NKEYS, Protocol!Start(n) PROVE Few
  <2>1. PICK i : Protocol!Pass("host", "START", {Protocol!NextCollectOp(i)})
    BY <1>3 DEF Protocol!Start
  <2> QED
    BY <1>1, <1>2, <2>1, GoingAfterPass
<1>4. ASSUME NEW src \in Sources, Protocol!Collect(src) PROVE Few
  <2>1. PICK out : Protocol!Pass(src, "COL", out) /\ \E o \in {"COL", "RST_START", "RST"} : out = {o}
    BY <1>2, <1>4 DEF Protocol!Collect
  <2> QED
    BY <1>1, <2>1, GoingAfterPass
<1>5. ASSUME Protocol!Query PROVE Few
  <2>1. Protocol!Pass("host", "QRY_KEY", {})
    BY <1>5 DEF Protocol!Query
  <2> QED
    BY <1>1, <2>1, GoingAfterPass
<1>6. ASSUME NEW src \in Sources, NEW op \in RequestOps, Protocol!Reset(src, op) PROVE Few
  <2>1. PICK out : /\ Protocol!Pass(src, op, out) /\ op # "QRY_KEY"
                   /\ (out = {} \/ \E o \in {"COL", "RST_START", "RST"} : out = {o})
    BY <1>6 DEF Protocol!Reset
  <2> QED
    BY <1>1, <2>1, GoingAfterPass
<1>7. ASSUME NEW src \in Sources, NEW op \in RequestOps, Protocol!Lose(src, op) PROVE Few
  <2>1. Protocol!Pass(src, op, {})
    BY <1>7 DEF Protocol!Lose
  <2> QED
    BY <1>1, <2>1, GoingAfterPass
<1>8. CASE Counts(hostQ)' = Counts(hostQ) /\ Counts(mirrorQ)' = Counts(mirrorQ)
  <2>1. /\ hostQ \in Seq(Request) /\ mirrorQ \in Seq(Mirrored)
        /\ hostQ' \in Seq(Request) /\ mirrorQ' \in Seq(Mirrored)
    BY DEF TypeOK, WireTypeOK, DataPlaneTypeOK
  <2>2. Going(hostQ') = Going(hostQ) /\ Going(mirrorQ') = Going(mirrorQ)
    BY <1>8, <2>1, GoingIs
  <2>3. Going(hostQ) \in Nat /\ Going(mirrorQ) \in Nat
    BY <2>1, GoingIs
  <2> QED
    BY <2>2, <2>3
<1>9. CASE Protocol!Finish
  BY <1>8, <1>9 DEF Protocol!Finish
<1>10. CASE UNCHANGED ProtocolVars
  BY <1>8, <1>10 DEF ProtocolVars
<1> QED
  BY <1>3, <1>4, <1>5, <1>6, <1>7, <1>9, <1>10 DEF ProtocolStep

-----------------------------------------------------------------------------
(***************************************************************************)
(* The packets stay as few as they are, and the queries in their place.    *)
(***************************************************************************)

(* A step sends the PUSH of a call, sends its requests, or at most takes   *)
(* the first request off the link.                                         *)
LEMMA LinkMoves ==
  ASSUME [Next]_vars
  PROVE  \/ hostQ' = hostQ
         \/ hostQ # <<>> /\ hostQ' = Tail(hostQ)
         \/ StartSwitch
         \/ SendRequests /\ UNCHANGED <<switchVars, historyVars>>
<1>1. ASSUME NEW k \in Keys, Traffic(k) PROVE hostQ' = hostQ
  BY <1>1 DEF Traffic, NormalPacket, wireVars
<1>2. ASSUME NEW src \in Sources, Collect(src) \/ Reset(src) \/ Query \/ ReportOverflow
      PROVE  hostQ' = hostQ \/ (hostQ # <<>> /\ hostQ' = Tail(hostQ))
  <2>1. CASE Collect(src)
    <3>1. Arrived(src) # <<>> /\ \E out : Pass(src, out)
      BY <2>1 DEF Collect, CollectKey, CollectNothing, Arrives
    <3> QED
      BY <3>1 DEF Pass, Arrived
  <2>2. CASE Reset(src)
    <3>1. Arrived(src) # <<>> /\ \E out : Pass(src, out)
      BY <2>2 DEF Reset, ResetPacket, Arrives
    <3> QED
      BY <3>1 DEF Pass, Arrived
  <2>3. CASE Query
    BY <2>3 DEF Query, QueryKey, Arrives, Arrived, Pass
  <2>4. CASE ReportOverflow
    BY <2>4 DEF ReportOverflow, ReportKey, Pass
  <2> QED
    BY <1>2, <2>1, <2>2, <2>3, <2>4
<1>3. FromHost \/ FromMirror => hostQ' = hostQ \/ (hostQ # <<>> /\ hostQ' = Tail(hostQ))
  BY <1>2 DEF FromHost, FromMirror, Sources
<1>4. Receive => hostQ' = hostQ \/ (SendRequests /\ UNCHANGED <<switchVars, historyVars>>)
  BY DEF Receive, AwaitValues, RecvKey, RecvKeyVal, RecvKeyValsDone, RecvDone
<1>5. MergeSubWindow \/ Quit \/ Stopped \/ UNCHANGED vars => hostQ' = hostQ
  BY DEF MergeSubWindow, Merge, Quit, Exit, Stopped, vars, wireVars
<1>6. Lose => hostQ' = hostQ \/ (hostQ # <<>> /\ hostQ' = Tail(hostQ))
  BY DEF Lose, LoseRequest, LoseMirrored, wireVars
<1> QED
  BY <1>1, <1>3, <1>4, <1>5, <1>6 DEF Next

(* Every step keeps the queries behind what collects.                      *)
LEMMA QueriesLastKept ==
  ASSUME InStep, QueriesLast, [Next]_vars
  PROVE  QueriesLast'
<1> USE DEF InStep
<1>1. hostQ \in Seq(Request)
  BY DEF TypeOK, WireTypeOK
<1>2. PICK n \in Nat : n = Len(hostQ)
  BY <1>1
<1>3. CASE hostQ' = hostQ
  BY <1>3 DEF QueriesLast
<1>4. CASE hostQ # <<>> /\ hostQ' = Tail(hostQ)
  <2>1. Len(hostQ') = n - 1 /\ \A i \in 1 .. n - 1 : hostQ'[i] = hostQ[i + 1] /\ i + 1 \in 1 .. n
    BY <1>1, <1>2, <1>4, TailIs
  <2>2. \A i, j \in 1 .. n - 1 : i < j => i + 1 < j + 1
    BY <1>2
  <2> QED
    BY <1>2, <2>1, <2>2 DEF QueriesLast
<1>5. CASE StartSwitch
  <2>1. PICK m \in Request : m.op = "PUSH" /\ hostQ' = Append(hostQ, m)
    <3>1. Req("PUSH") \in Request /\ Req("PUSH").op = "PUSH"
      BY DEF Req, Request, KeylessOps
    <3> QED
      BY <1>5, <3>1 DEF StartSwitch, SwitchWin, SwitchWinSending
  <2>2. PICK t \in Seq(Request) : t = Append(hostQ, m)
    BY <1>1, <2>1, AppendIs
  <2>3. Len(t) = n + 1 /\ t[n + 1] = m /\ \A i \in 1 .. n : t[i] = hostQ[i]
    BY <1>1, <1>2, <2>1, <2>2
  <2>4. \A i, j \in 1 .. n + 1 : i < j => i \in 1 .. n /\ (j \in 1 .. n \/ j = n + 1)
    BY <1>2
  <2> QED
    BY <1>2, <2>1, <2>2, <2>3, <2>4 DEF QueriesLast
<1>6. CASE SendRequests /\ UNCHANGED <<switchVars, historyVars>>
  <2>1. /\ hostQ' = hostQ \o RequestBatch /\ Ops(hostQ) \subseteq {"RST"}
        /\ overflowKeys \in Seq(Keys) /\ RequestBatch \in Seq(Request)
    BY <1>6, SendingIs
  <2>a. PICK b : b = RequestBatch
    OBVIOUS
  <2>b. overflowKeys \in Seq(Keys)
    BY <2>1
  <2>2. PICK t : b \in Seq(Request) /\ t = hostQ \o b /\ t = hostQ'
    BY <2>1, <2>a
  <2>c. PICK p, m, e \in Nat : PartsAre(b, p, m, e)
    BY <2>a, <2>b, BatchParts
  <2>3. /\ e = 2 + p + m /\ Len(b) = e + p /\ b[1].op = "START"
        /\ \A i \in 2 .. 1 + p : b[i].op = "COL"
        /\ \A i \in 2 + p .. e - 1 : b[i].op = "QRY_KEY"
        /\ b[e].op = "RST_START"
        /\ \A i \in e + 1 .. e + p : b[i].op = "RST"
    BY <2>c DEF PartsAre
  <2>4. /\ Len(t) = n + (e + p)
        /\ \A i \in 1 .. n : t[i] = hostQ[i]
        /\ \A i \in n + 1 .. n + (e + p) : t[i] = b[i - n] /\ i - n \in 1 .. e + p
    <3>1. /\ Len(hostQ \o b) = Len(hostQ) + Len(b)
          /\ \A i \in 1 .. Len(hostQ) : (hostQ \o b)[i] = hostQ[i]
          /\ \A i \in Len(hostQ) + 1 .. Len(hostQ) + Len(b) :
               (hostQ \o b)[i] = b[i - Len(hostQ)] /\ i - Len(hostQ) \in 1 .. Len(b)
      BY <1>1, <2>2, ConcatIs
    <3> QED
      BY <1>2, <2>2, <2>3, <3>1
  <2>5. \A i \in 1 .. n : hostQ[i].op = "RST"
    BY <1>2, <2>1 DEF Ops
  <2>6. \A i \in 1 .. e + p : b[i].op = "QRY_KEY" => i \in 2 + p .. e - 1
    <3>1. \A i \in 1 .. e + p : \/ i = 1 \/ i \in 2 .. 1 + p \/ i \in 2 + p .. e - 1 \/ i = e
                                \/ i \in e + 1 .. e + p
      BY <2>3
    <3> QED
      BY <2>3, <3>1
  <2>7. \A j \in 1 .. e + p : b[j].op = "COL" => j \in 2 .. 1 + p
    <3>1. \A i \in 1 .. e + p : \/ i = 1 \/ i \in 2 .. 1 + p \/ i \in 2 + p .. e - 1 \/ i = e
                                \/ i \in e + 1 .. e + p
      BY <2>3
    <3> QED
      BY <2>3, <3>1
  <2>8. ASSUME NEW i \in 1 .. n + (e + p), NEW j \in 1 .. n + (e + p), i < j,
               t[i].op = "QRY_KEY", t[j].op = "COL"
        PROVE  FALSE
    <3>1. i \in n + 1 .. n + (e + p) /\ j \in n + 1 .. n + (e + p)
      <4>1. i \notin 1 .. n /\ j \notin 1 .. n
        BY <2>4, <2>5, <2>8
      <4> QED
        BY <1>2, <2>3, <2>8, <4>1
    <3>2. i - n \in 1 .. e + p /\ j - n \in 1 .. e + p /\ b[i - n].op = "QRY_KEY" /\ b[j - n].op = "COL"
      BY <2>4, <2>8, <3>1
    <3>3. i - n \in 2 + p .. e - 1 /\ j - n \in 2 .. 1 + p
      BY <2>6, <2>7, <3>2
    <3> QED
      BY <1>2, <2>3, <2>8, <3>3
  <2>9. QueriesLast'
    BY <2>2, <2>4, <2>8 DEF QueriesLast
  <2> QED
    BY <2>9
<1> QED
  BY <1>3, <1>4, <1>5, <1>6, LinkMoves

(* The steps that begin a call, read its reports and end that phase, and   *)
(* what the others leave alone.                                            *)
LEMMA StepKinds ==
  ASSUME [Next]_vars
  PROVE  \/ StartSwitch
         \/ SendRequests /\ UNCHANGED <<switchVars, historyVars>>
         \/ RecvKey /\ UNCHANGED <<switchVars, historyVars>>
         \/ /\ UNCHANGED <<overflowKeys, switches>>
            /\ pc' = pc \/ (pc # "recvKeys" /\ pc' # "recvKeys")
<1> DEFINE Rest == /\ UNCHANGED <<overflowKeys, switches>>
                   /\ pc' = pc \/ (pc # "recvKeys" /\ pc' # "recvKeys")
<1>1. \A k \in Keys : Traffic(k) => Rest
  BY DEF Traffic, controllerVars
<1>2. FromHost \/ FromMirror => Rest
  BY DEF FromHost, FromMirror, Collect, Reset, Query, ReportOverflow, CloseSubWindow, controllerVars,
         historyVars
<1>3. Receive => \/ SendRequests /\ UNCHANGED <<switchVars, historyVars>>
                 \/ RecvKey /\ UNCHANGED <<switchVars, historyVars>>
                 \/ Rest
  BY DEF Receive, AwaitValues, RecvKeyVal, RecvKeyValsDone, RecvDone, Goto, historyVars
<1>4. MergeSubWindow \/ Quit \/ Lose \/ Stopped \/ UNCHANGED vars => Rest
  BY DEF MergeSubWindow, Merge, Quit, Exit, Lose, Stopped, Goto, controllerVars, historyVars, vars
<1> QED
  BY <1>1, <1>2, <1>3, <1>4 DEF Next

(* While the controller reads reports none is added or overwritten.        *)
LEMMA ReportsStay ==
  ASSUME Fits, InStep, pc = "recvKeys", pc' = "recvKeys", [Next]_vars
  PROVE  \/ RecvKey /\ UNCHANGED <<switchVars, historyVars>>
         \/ /\ overflowKeys' = overflowKeys /\ Reported' = Reported
            /\ \A s \in Reported : msgBuf'[s].key = msgBuf[s].key
<1> USE DEF InStep
<1> DEFINE Stays == /\ overflowKeys' = overflowKeys /\ Reported' = Reported
                    /\ \A s \in Reported : msgBuf'[s].key = msgBuf[s].key
<1>1. Cleared /\ Kind("KEY")
  BY DEF PhaseOK
<1>2. PICK d \in {0, 1} : Dones(d) /\ (d = 1 => "PUSH" \notin Ops(hostQ))
  BY DEF PhaseOK
<1>3. UNCHANGED <<msgHead, msgTail, msgAddr, msgBuf, cq, overflowKeys>> => Stays
  BY RingUntouched
<1>4. ASSUME NEW src \in Sources, Collect(src) PROVE Stays
  <2>1. /\ Arrives(src, {"START", "COL"}) /\ SwitchEpoch(src)
        /\ UNCHANGED <<msgHead, msgTail, overflowKeys>>
        /\ hostQ' = IF src = "host" THEN Tail(hostQ) ELSE hostQ
    BY <1>4 DEF Collect, CollectKey, CollectNothing, Pass, controllerVars
  <2>2. ~(Head(Arrived(src)).op = "START" \/ keyIdx[ColCopy] # 0)
    BY <2>1, CollectReady
  <2>3. CopyCollectedBy(src) = ColCopy /\ keyIdx[ColCopy] = 0
    BY <2>2 DEF CopyCollectedBy, Arrives
  <2>4. CollectNothing(src)
    BY <1>4, <2>3 DEF Collect, CollectKey
  <2> QED
    BY <1>3, <2>1, <2>4 DEF CollectNothing, SendNothing
<1>5. ASSUME NEW src \in Sources, Reset(src) PROVE Stays
  <2>1. PICK op \in {"RST_START", "RST", "PUSH"} : op = Head(Arrived(src)).op
    BY <1>5 DEF Reset, ResetPacket, Arrives
  <2>2. /\ UNCHANGED <<msgHead, msgTail, overflowKeys>>
        /\ IF IsDone(op, ResetIdxGot(op)) THEN SendMsg("DONE", NoKey, 0) ELSE SendNothing
    BY <1>5, <2>1 DEF Reset, ResetPacket, controllerVars
  <2>3. CASE IsDone(op, ResetIdxGot(op))
    <3>1. Behind \in 0 .. MSGS - 1 /\ Behind - d =< Cardinality(Keys) /\ Cardinality(Keys) \in Nat
      BY <1>1, <1>2, ReportsFit DEF Fits
    <3>2. op # "RST_START"
      BY <1>1, <1>5, <2>1, ResetPasses DEF Cleared, Calm
    <3>3. ResetIdxGot(op) = NDATA
      BY <1>1, <3>2, DataPlaneAssumption DEF ResetIdxGot, Cleared, RSTIDX_MID
    <3>4. op = "PUSH"
      BY <2>3, <3>3, DataPlaneAssumption DEF IsDone
    <3>5. d = 0
      BY <1>2, <1>5, <2>1, <3>4, ResetPasses
    <3>6. Behind < MSGS - 1
      BY <3>1, <3>5, WireAssumption DEF Fits
    <3>7. Reported' = Reported /\ \A t \in Reported : msgBuf'[t] = msgBuf[t]
      BY <2>2, <2>3, <3>6, DoneSent
    <3> QED
      BY <2>2, <3>7
  <2>4. CASE ~IsDone(op, ResetIdxGot(op))
    BY <1>3, <2>2, <2>4 DEF SendNothing
  <2> QED
    BY <2>3, <2>4
<1>6. Query => Stays
  BY <1>3 DEF Query, QueryKey, SendNothing, controllerVars
<1>7. ~ReportOverflow
  <2> SUFFICES ASSUME ReportOverflow PROVE FALSE
    OBVIOUS
  <2>1. mirrorQ # <<>> /\ Head(mirrorQ).op = "KEY"
    BY DEF ReportOverflow, ReportKey, Arrives, Arrived
  <2>2. 1 \in Reporting
    BY <2>1, HeadsAre, TailIs DEF Reporting
  <2> QED
    BY <2>2 DEF ReportsOK
<1>8. \A k \in Keys : Traffic(k) => Stays
  BY <1>3 DEF Traffic, NormalPacket, wireVars, controllerVars
<1>9. FromHost \/ FromMirror => Stays
  BY <1>4, <1>5, <1>6, <1>7 DEF FromHost, FromMirror, Sources
<1>10. /\ ~StartSwitch /\ ~MergeSubWindow /\ ~Quit
       /\ Receive => RecvKey /\ UNCHANGED <<switchVars, historyVars>>
  BY DEF StartSwitch, SwitchWin, SwitchWinSending, Receive, AwaitValues, SendRequests, SendRequestsOf,
         RecvKeyVal, RecvKeyValsDone, RecvDone, MergeSubWindow, Merge, Quit, Exit, Goto
<1>11. Lose \/ Stopped \/ UNCHANGED vars => Stays
  BY <1>3 DEF Lose, LoseRequest, LoseMirrored, Stopped, vars, wireVars, switchVars, controllerVars
<1> QED
  BY <1>8, <1>9, <1>10, <1>11 DEF Next

(* Each report is read once, and each is of another key.                   *)
LEMMA AskedOnceKept ==
  ASSUME Fits, InStep, AskedOnce, [Next]_vars
  PROVE  AskedOnce'
<1> USE DEF InStep
<1>1. CASE RecvKey /\ UNCHANGED <<switchVars, historyVars>>
  <2>1. /\ pc = "recvKeys" /\ NextMsg /\ FirstMsg.op # "DONE"
        /\ overflowKeys' = Append(overflowKeys, FirstMsg.key)
        /\ UNCHANGED <<msgBuf, hostQ>>
    BY <1>1 DEF RecvKey
  <2>2. UNCHANGED msgAddr
    BY <1>1 DEF switchVars
  <2>3. PICK h \in UnreadSlots : h = msgHead /\ UnreadSlots' = UnreadSlots \ {h}
    BY <2>1, <2>2, NextMsgKeepsRing
  <2>4. PICK key \in Keys : key = msgBuf[h].key /\ h \in Reported
    <3>1. PICK d \in {0, 1} : Dones(d)
      BY <2>1 DEF PhaseOK
    <3>2. FirstMsg.op = "KEY" /\ FirstMsg.key \in Keys
      BY <2>1, <2>2, <3>1, NextMsgCounts DEF PhaseOK
    <3> QED
      BY <2>3, <3>2 DEF FirstMsg, Reported
  <2>5. overflowKeys \in Seq(Keys)
    BY DEF TypeOK, ControllerTypeOK
  <2>6. PICK n \in Nat, t \in Seq(Keys) :
          /\ n = Len(overflowKeys) /\ t = Append(overflowKeys, key) /\ Len(t) = n + 1
          /\ t[n + 1] = key /\ \A i \in 1 .. n : t[i] = overflowKeys[i]
    <3>1. Len(overflowKeys) \in Nat /\ Append(overflowKeys, key) \in Seq(Keys)
      BY <2>4, <2>5, AppendIs
    <3>2. /\ Len(Append(overflowKeys, key)) = Len(overflowKeys) + 1
          /\ Append(overflowKeys, key)[Len(overflowKeys) + 1] = key
          /\ \A i \in 1 .. Len(overflowKeys) : Append(overflowKeys, key)[i] = overflowKeys[i]
      BY <2>4, <2>5
    <3> QED
      BY <3>1, <3>2
  <2>7. t = overflowKeys'
    BY <2>1, <2>3, <2>4, <2>6 DEF FirstMsg
  <2>8. \A i \in 1 .. n : overflowKeys[i] # key
    <3>1. key \notin ToAsk
      BY <2>1, <2>4 DEF AskedOnce
    <3> QED
      BY <2>6, <3>1 DEF ToAsk
  <2>9. \A i, j \in 1 .. n + 1 : t[i] = t[j] => i = j
    <3>1. \A i, j \in 1 .. n : overflowKeys[i] = overflowKeys[j] => i = j
      BY <2>6 DEF AskedOnce
    <3>2. \A i \in 1 .. n + 1 : i \in 1 .. n \/ i = n + 1
      BY <2>6
    <3> QED
      BY <2>6, <2>8, <3>1, <3>2
  <2>10. Reported' \subseteq Reported \ {h}
    BY <2>1, <2>3 DEF Reported
  <2>11. \A s \in Reported' : msgBuf'[s].key # key /\ msgBuf'[s].key \notin ToAsk
    BY <2>1, <2>4, <2>10 DEF AskedOnce, ReportsOK
  <2>12. ToAsk' \subseteq ToAsk \cup {key}
    <3>1. ToAsk' = {t[i] : i \in 1 .. n + 1}
      BY <2>6, <2>7 DEF ToAsk
    <3>2. \A i \in 1 .. n + 1 : i \in 1 .. n \/ i = n + 1
      BY <2>6
    <3>3. \A i \in 1 .. n : t[i] \in ToAsk
      BY <2>6 DEF ToAsk
    <3> QED
      BY <2>6, <3>1, <3>2, <3>3
  <2> QED
    BY <2>6, <2>7, <2>9, <2>11, <2>12 DEF AskedOnce
<1>2. CASE pc' = "recvKeys" /\ pc = "recvKeys" /\ ~(RecvKey /\ UNCHANGED <<switchVars, historyVars>>)
  <2>1. /\ overflowKeys' = overflowKeys /\ Reported' = Reported
        /\ \A s \in Reported : msgBuf'[s].key = msgBuf[s].key
    BY <1>2, ReportsStay
  <2> QED
    BY <1>2, <2>1 DEF AskedOnce, ToAsk
<1>3. CASE StartSwitch
  <2>1. overflowKeys' = <<>>
    BY <1>3 DEF StartSwitch, SwitchWin, SwitchWinSending
  <2>2. ToAsk' = {} /\ Len(overflowKeys') = 0
    BY <2>1 DEF ToAsk
  <2> QED
    BY <2>2 DEF AskedOnce
<1>4. CASE overflowKeys' = overflowKeys /\ pc' # "recvKeys"
  BY <1>4 DEF AskedOnce
<1>5. SendRequests => overflowKeys' = overflowKeys /\ pc' # "recvKeys"
  BY DEF SendRequests, SendRequestsOf, Goto
<1> QED
  BY <1>1, <1>2, <1>3, <1>4, <1>5, StepKinds

(* Each call sends as many packets that go round.                          *)
LEMMA FewPacketsKept ==
  ASSUME Fits, InStep, InStep', FewPackets, [Next]_vars,
         ProtocolStep \/ (SendRequests /\ UNCHANGED <<switchVars, historyVars>>)
  PROVE  FewPackets'
<1> USE DEF InStep
<1>1. PICK a \in Nat : a = 2 * NReq
  BY ControllerAssumption
<1>2. hostQ \in Seq(Request) /\ mirrorQ \in Seq(Mirrored) /\ switches \in Nat
  BY OmniWindowAssumption DEF TypeOK, WireTypeOK, DataPlaneTypeOK
<1>3. Going(hostQ) \in Nat /\ Going(mirrorQ) \in Nat
  BY <1>2, GoingIs
<1>4. Sent \in Nat /\ Going(hostQ) + Going(mirrorQ) =< a * Sent
  BY <1>1, <1>2 DEF FewPackets, Sent
<1>5. CASE SendRequests /\ UNCHANGED <<switchVars, historyVars>>
  <2>1. /\ pc = "recvKeys" /\ pc' = "waitVals" /\ hostQ' = hostQ \o RequestBatch
        /\ overflowKeys \in Seq(Keys) /\ RequestBatch \in Seq(Request)
        /\ UNCHANGED <<mirrorQ, switches>>
    BY <1>5, SendingIs
  <2>2. Sent' = Sent + 1
    BY <1>2, <2>1 DEF Sent
  <2>3. \A op : Number(hostQ \o RequestBatch, op) = Number(hostQ, op) + Number(RequestBatch, op)
    BY <1>2, <2>1, NumberOfConcat
  <2>4. PICK n \in Nat : n = NReq - 1
    BY ControllerAssumption
  <2>5. /\ Number(RequestBatch, "START") = 1 /\ Number(RequestBatch, "COL") = n
        /\ Number(RequestBatch, "RST_START") = 1 /\ Number(RequestBatch, "RST") = n
    BY <2>1, <2>4, NumberOfBatch
  <2>6. /\ Number(hostQ, "START") \in Nat /\ Number(hostQ, "COL") \in Nat
        /\ Number(hostQ, "RST_START") \in Nat /\ Number(hostQ, "RST") \in Nat
    BY <1>2, NumberIs
  <2>7. Going(hostQ') = Going(hostQ) + a
    BY <1>1, <2>1, <2>3, <2>4, <2>5, <2>6, ControllerAssumption DEF Going
  <2>8. a * (Sent + 1) = a * Sent + a /\ a * Sent \in Nat
    BY <1>1, <1>4, MoreIsMore
  <2>9. Going(hostQ') + Going(mirrorQ) =< a * (Sent + 1)
    <3>1. PICK g \in Nat, m \in Nat, x \in Nat : g = Going(hostQ) /\ m = Going(mirrorQ) /\ x = a * Sent
      BY <1>3, <2>8
    <3>2. g + m =< x => (g + a) + m =< x + a
      BY <1>1
    <3> QED
      BY <1>4, <2>7, <2>8, <3>1, <3>2
  <2>10. Going(hostQ)' + Going(mirrorQ)' =< a * Sent'
    BY <2>1, <2>2, <2>9
  <2> QED
    BY <1>1, <1>4, <2>2, <2>10 DEF FewPackets
<1>6. CASE ProtocolStep /\ ~(SendRequests /\ UNCHANGED <<switchVars, historyVars>>)
  <2>1. Sent' = Sent
    <3>1. CASE StartSwitch
      <4>1. pc = "idle" /\ pc' = "recvKeys" /\ switches' = switches + 1
        BY <3>1 DEF StartSwitch, SwitchWin, SwitchWinSending, Goto
      <4> QED
        BY <1>2, <4>1 DEF Sent
    <3>2. CASE RecvKey /\ UNCHANGED <<switchVars, historyVars>>
      BY <3>2 DEF RecvKey, Sent, historyVars
    <3> QED
      BY <1>6, <3>1, <3>2, StepKinds DEF Sent
  <2>2. (Going(hostQ) + Going(mirrorQ))' =< Going(hostQ) + Going(mirrorQ)
    BY <1>6, StepIsFew
  <2>3. Going(hostQ') \in Nat /\ Going(mirrorQ') \in Nat
    <3>1. hostQ' \in Seq(Request) /\ mirrorQ' \in Seq(Mirrored)
      BY DEF TypeOK, WireTypeOK, DataPlaneTypeOK
    <3> QED
      BY <3>1, GoingIs
  <2>4. a * Sent \in Nat
    BY <1>1, <1>4, MoreIsMore
  <2>5. Going(hostQ)' + Going(mirrorQ)' =< a * Sent
    BY <1>3, <1>4, <2>2, <2>3, <2>4
  <2> QED
    BY <1>1, <1>4, <2>1, <2>5 DEF FewPackets
<1> QED
  BY <1>5, <1>6

-----------------------------------------------------------------------------
(***************************************************************************)
(* The whole.                                                              *)
(***************************************************************************)

(* Every step of the system is one of CollectReset, or leaves what it      *)
(* counts alone.                                                           *)
LEMMA NextMaps ==
  ASSUME Fits, InStep, InStep', PacketsRight, [Next]_vars
  PROVE  ProtocolStep \/ (SendRequests /\ UNCHANGED <<switchVars, historyVars>>)
<1> USE DEF PacketsRight
<1>1. \A k \in Keys : Traffic(k) => ProtocolStep
  BY TrafficMaps
<1>2. ASSUME NEW src \in Sources, Collect(src) \/ Reset(src) PROVE ProtocolStep
  BY <1>2, CollectMaps, ResetMaps
<1>3. FromHost \/ FromMirror => ProtocolStep
  BY <1>2, QueryMaps, ReportMaps DEF FromHost, FromMirror, Sources
<1>4. StartSwitch => ProtocolStep
  BY StartMaps
<1>5. Lose => ProtocolStep
  BY LoseMaps
<1>6. Receive => ProtocolStep \/ (SendRequests /\ UNCHANGED <<switchVars, historyVars>>)
  BY ReceiveMaps DEF Receive
<1>7. MergeSubWindow \/ Quit \/ Stopped \/ UNCHANGED vars =>
        ProtocolStep \/ (SendRequests /\ UNCHANGED <<switchVars, historyVars>>)
  <2>1. MergeSubWindow \/ Quit \/ Stopped \/ UNCHANGED vars => SendRequests \/ ProtocolStep
    BY ReceiveMaps
  <2>2. MergeSubWindow \/ Quit \/ Stopped \/ UNCHANGED vars => ~SendRequests
    BY DEF MergeSubWindow, Merge, Quit, Exit, Stopped, SendRequests, SendRequestsOf, Goto, vars,
           controllerVars
  <2> QED
    BY <2>1, <2>2
<1> QED
  BY <1>1, <1>3, <1>4, <1>5, <1>6, <1>7 DEF Next

(* The packets stay right.                                                 *)
LEMMA PacketsStayRight ==
  ASSUME Fits, InStep, InStep', PacketsRight, [Next]_vars
  PROVE  PacketsRight'
  BY NextMaps, QueriesLastKept, AskedOnceKept, FewPacketsKept DEF PacketsRight

(* It begins with no packet.                                               *)
LEMMA InitPacketsRight ==
  ASSUME Fits, Init
  PROVE  PacketsRight /\ Protocol!Init
<1>1. /\ hostQ = <<>> /\ mirrorQ = <<>> /\ overflowKeys = <<>> /\ pc = "idle" /\ switches = 0
      /\ keyIdx = [c \in Copies |-> 0] /\ resetIdx = NDATA
  BY DEF Init, WireInit, DataPlaneInit, ControllerInit
<1>2. \A op : Number(<<>>, op) = 0
  <2>1. \A op : {i \in 1 .. Len(<<>>) : <<>>[i].op = op} = {}
    OBVIOUS
  <2> QED
    BY <2>1, FS_EmptySet DEF Number
<1>3. Counts(hostQ) = Protocol!NoPackets /\ Counts(mirrorQ) = Protocol!NoPackets
  BY <1>1, <1>2 DEF Counts, Protocol!NoPackets, Protocol!Ops, RequestOps
<1>4. keyIdx[ColCopy] = 0
  BY <1>1, InitInStep DEF InStep, PhaseOK, Cleared, Calm
<1>5. Protocol!Init
  BY <1>1, <1>3, <1>4 DEF Protocol!Init, Busy, DonesSoFar
<1>6. FewPackets
  <2>1. 2 * NReq \in Nat
    BY ControllerAssumption
  <2>2. 2 * NReq * 0 = 0
    BY <2>1
  <2>3. Going(hostQ) = 0 /\ Going(mirrorQ) = 0 /\ Sent = 0
    BY <1>1, <1>2 DEF Going, Sent
  <2> QED
    BY <2>2, <2>3 DEF FewPackets
<1>7. QueriesLast /\ AskedOnce
  BY <1>1 DEF QueriesLast, AskedOnce
<1> QED
  BY <1>5, <1>6, <1>7 DEF PacketsRight

(* Every step of the switch and of the controller is one of the counting   *)
(* protocol, for any number of keys, slots and packets: its reset starts   *)
(* when both RST_START have come, takes every cell once, and is over when  *)
(* the second DONE is read; what is still going round of earlier calls     *)
(* never exceeds what those calls have sent.                               *)
THEOREM FollowsCollectReset == Fits => (Spec => FollowsProtocol)
<1> SUFFICES ASSUME Fits PROVE Spec => FollowsProtocol
  OBVIOUS
<1>1. Init => PacketsRight /\ Protocol!Init
  BY InitPacketsRight
<1>2. InStep /\ InStep' /\ PacketsRight /\ [Next]_vars => PacketsRight'
  BY PacketsStayRight
<1>3. Protocol!Ops = RequestOps /\ Protocol!Sources = Sources
  BY DEF Protocol!Ops, RequestOps, Protocol!Sources, Sources
<1>4. ProtocolStep => Protocol!Next \/ UNCHANGED Protocol!vars
  BY <1>3 DEF ProtocolStep, ProtocolVars, Protocol!Next, Protocol!vars
<1>5. InStep /\ InStep' /\ PacketsRight /\ [Next]_vars => [Protocol!Next]_Protocol!vars
  <2> SUFFICES ASSUME InStep, InStep', PacketsRight, [Next]_vars
               PROVE  Protocol!Next \/ UNCHANGED Protocol!vars
    OBVIOUS
  <2>1. CASE SendRequests /\ UNCHANGED <<switchVars, historyVars>>
    <3>1. \E m \in 0 .. Cardinality(Keys) : Protocol!Begin(m)
      BY <2>1, BeginMaps DEF PacketsRight
    <3> QED
      BY <3>1 DEF Protocol!Next
  <2> QED
    BY <1>4, <2>1, NextMaps
<1>6. Spec => []InStep
  BY AlwaysInStep
<1> QED
  BY <1>1, <1>2, <1>5, <1>6, PTL DEF Spec, FollowsProtocol, Protocol!Spec

-----------------------------------------------------------------------------
(***************************************************************************)
(* The keys that packets of a queue are about.                             *)
(***************************************************************************)

Packet == Request \cup Mirrored

(* Requests and mirrored packets are packets of either queue.              *)
LEMMA PacketsOf ==
  /\ \A q \in Seq(Request) : q \in Seq(Packet)
  /\ \A q \in Seq(Mirrored) : q \in Seq(Packet)
  BY DEF Packet

(* Those of two queues, one after the other.                               *)
Joined(t, p, q) == t = p \o q /\ p \in Seq(Packet) /\ q \in Seq(Packet)

LEMMA KeysOfConcat ==
  ASSUME NEW p, NEW q, NEW t, Joined(t, p, q), NEW op
  PROVE  t \in Seq(Packet) /\ KeysOf(t, op) = KeysOf(p, op) \cup KeysOf(q, op)
<1> USE DEF Joined
<1> DEFINE m == Len(p)
           n == Len(q)
<1>1. /\ m \in Nat /\ n \in Nat /\ Len(t) = m + n
      /\ \A i \in 1 .. m : t[i] = p[i]
      /\ \A i \in m + 1 .. m + n : t[i] = q[i - m] /\ i - m \in 1 .. n
  BY ConcatIs
<1>2. \A i \in 1 .. m + n : i \in 1 .. m \/ i \in m + 1 .. m + n
  BY <1>1
<1>3. \A i \in 1 .. n : t[i + m] = q[i] /\ i + m \in 1 .. m + n
  <2> SUFFICES ASSUME NEW i \in 1 .. n PROVE t[i + m] = q[i] /\ i + m \in 1 .. m + n
    OBVIOUS
  <2>1. i + m \in m + 1 .. m + n /\ (i + m) - m = i /\ i + m \in 1 .. m + n
    BY <1>1
  <2> QED
    BY <1>1, <2>1
<1>4. \A i \in 1 .. m : i \in 1 .. m + n
  BY <1>1
<1>5. KeysOf(t, op) \subseteq KeysOf(p, op) \cup KeysOf(q, op)
  BY <1>1, <1>2 DEF KeysOf
<1>6. KeysOf(p, op) \subseteq KeysOf(t, op)
  BY <1>1, <1>4 DEF KeysOf
<1>7. KeysOf(q, op) \subseteq KeysOf(t, op)
  <2> SUFFICES ASSUME NEW i \in 1 .. n, q[i].op = op PROVE q[i].key \in KeysOf(t, op)
    BY DEF KeysOf
  <2> QED
    BY <1>1, <1>3 DEF KeysOf
<1>8. t \in Seq(Packet)
  BY ConcatIs
<1> QED
  BY <1>5, <1>6, <1>7, <1>8

(* Those of a single packet.                                               *)
LEMMA KeysOfOne ==
  ASSUME NEW m, NEW op
  PROVE  KeysOf(<< m >>, op) = IF m.op = op THEN {m.key} ELSE {}
<1>1. Len(<< m >>) = 1 /\ << m >>[1] = m
  OBVIOUS
<1> QED
  BY <1>1 DEF KeysOf

(* What the head was about.                                                *)
LEMMA KeysOfTail ==
  ASSUME NEW q \in Seq(Packet), q # <<>>, NEW op
  PROVE  /\ KeysOf(Tail(q), op) \subseteq KeysOf(q, op)
         /\ KeysOf(q, op) \subseteq KeysOf(Tail(q), op) \cup {Head(q).key}
         /\ Head(q).op # op => KeysOf(Tail(q), op) = KeysOf(q, op)
         /\ Head(q).op = op => Head(q).key \in KeysOf(q, op)
<1>1. Tail(q) \in Seq(Packet) /\ Head(q) \in Packet /\ << Head(q) >> \in Seq(Packet)
  OBVIOUS
<1>2. q = << Head(q) >> \o Tail(q)
  OBVIOUS
<1>4. KeysOf(<< Head(q) >>, op) = IF Head(q).op = op THEN {Head(q).key} ELSE {}
  BY KeysOfOne
<1>3. Joined(q, << Head(q) >>, Tail(q))
  BY <1>1, <1>2 DEF Joined
<1>5. KeysOf(q, op) = KeysOf(<< Head(q) >>, op) \cup KeysOf(Tail(q), op)
  BY <1>3, KeysOfConcat
<1> QED
  BY <1>4, <1>5

(* An append adds what its packet is about.                                *)
LEMMA KeysOfAppend ==
  ASSUME NEW q, NEW m, NEW t, Joined(t, q, << m >>), NEW op
  PROVE  KeysOf(t, op) = KeysOf(q, op) \cup IF m.op = op THEN {m.key} ELSE {}
<1>2. KeysOf(t, op) = KeysOf(q, op) \cup KeysOf(<< m >>, op)
  BY KeysOfConcat
<1>3. KeysOf(<< m >>, op) = IF m.op = op THEN {m.key} ELSE {}
  BY KeysOfOne
<1> QED
  BY <1>2, <1>3

(* The batch asks for the keys that recvKeys has noted.                    *)
LEMMA KeysOfBatch ==
  ASSUME overflowKeys \in Seq(Keys)
  PROVE  KeysOf(RequestBatch, "QRY_KEY") = ToAsk /\ RequestBatch \in Seq(Packet)
<1> DEFINE s1 == << Req("START") >>
           s2 == Repeat(NReq - 1, "COL")
           s4 == << Req("RST_START") >>
           s5 == Repeat(NReq - 1, "RST")
<1>1. NReq - 1 \in Nat
  BY ControllerAssumption
<1>2. \A o \in {"START", "COL", "RST_START", "RST"} : Req(o) \in Request /\ Req(o).op # "QRY_KEY"
  BY DEF Req, Request, KeylessOps
<1>3. s1 \in Seq(Request) /\ s4 \in Seq(Request)
  BY <1>2
<1>4. s2 \in Seq(Request) /\ s5 \in Seq(Request) /\ Len(s2) = NReq - 1 /\ Len(s5) = NReq - 1
  BY <1>1, <1>2 DEF Repeat
<1>5. KeysOf(s1, "QRY_KEY") = {} /\ KeysOf(s4, "QRY_KEY") = {}
  BY <1>2, KeysOfOne
<1>6. KeysOf(s2, "QRY_KEY") = {} /\ KeysOf(s5, "QRY_KEY") = {}
  BY <1>2, <1>4 DEF KeysOf, Repeat
<1>7. Queries \in Seq(Request) /\ Len(Queries) = Len(overflowKeys)
  <2>1. \A k \in Keys : QryKey(k) \in Request
    BY DEF QryKey, Request
  <2> QED
    BY <2>1 DEF Queries
<1>8. KeysOf(Queries, "QRY_KEY") = ToAsk
  <2>1. \A i \in 1 .. Len(overflowKeys) : Queries[i].op = "QRY_KEY" /\ Queries[i].key = overflowKeys[i]
    BY DEF Queries, QryKey
  <2> QED
    BY <1>7, <2>1 DEF KeysOf, ToAsk
<1> HIDE DEF s1, s2, s4, s5
<1>9. PICK a, b, c, d : a = s1 \o s2 /\ b = a \o Queries /\ c = b \o s4 /\ d = c \o s5
  OBVIOUS
<1>a. /\ s1 \in Seq(Packet) /\ s2 \in Seq(Packet) /\ s4 \in Seq(Packet) /\ s5 \in Seq(Packet)
      /\ Queries \in Seq(Packet)
  BY <1>3, <1>4, <1>7, PacketsOf
<1>10. a \in Seq(Packet) /\ KeysOf(a, "QRY_KEY") = KeysOf(s1, "QRY_KEY") \cup KeysOf(s2, "QRY_KEY")
  <2>1. Joined(a, s1, s2)
    BY <1>9, <1>a DEF Joined
  <2> QED
    BY <2>1, KeysOfConcat
<1>11. b \in Seq(Packet) /\ KeysOf(b, "QRY_KEY") = KeysOf(a, "QRY_KEY") \cup KeysOf(Queries, "QRY_KEY")
  <2>1. Joined(b, a, Queries)
    BY <1>9, <1>a, <1>10 DEF Joined
  <2> QED
    BY <2>1, KeysOfConcat
<1>12. c \in Seq(Packet) /\ KeysOf(c, "QRY_KEY") = KeysOf(b, "QRY_KEY") \cup KeysOf(s4, "QRY_KEY")
  <2>1. Joined(c, b, s4)
    BY <1>9, <1>a, <1>11 DEF Joined
  <2> QED
    BY <2>1, KeysOfConcat
<1>b. d \in Seq(Packet) /\ KeysOf(d, "QRY_KEY") = KeysOf(c, "QRY_KEY") \cup KeysOf(s5, "QRY_KEY")
  <2>1. Joined(d, c, s5)
    BY <1>9, <1>a, <1>12 DEF Joined
  <2> QED
    BY <2>1, KeysOfConcat
<1>13. KeysOf(d, "QRY_KEY") = ToAsk
  BY <1>5, <1>6, <1>8, <1>10, <1>11, <1>12, <1>b
<1>14. d = RequestBatch
  BY <1>9 DEF RequestBatch, s1, s2, s4, s5
<1> QED
  BY <1>13, <1>14, <1>b

(* So does the same batch with flags.                                      *)
LEMMA KeysOfSame ==
  ASSUME overflowKeys \in Seq(Keys), NEW b, SameRequests(b)
  PROVE  KeysOf(b, "QRY_KEY") = ToAsk /\ b \in Seq(Packet)
<1>1. KeysOf(RequestBatch, "QRY_KEY") = ToAsk
  BY KeysOfBatch
<1>2. KeysOf(b, "QRY_KEY") = KeysOf(RequestBatch, "QRY_KEY")
  BY DEF SameRequests, KeysOf
<1>3. b \in Seq(Packet)
  BY PacketsOf DEF SameRequests
<1> QED
  BY <1>1, <1>2, <1>3

(* A packet leaves the head of its queue; the mirror may get another, that *)
(* reports no key.                                                         *)
LEMMA PassedKeys ==
  ASSUME TypeOK, NEW src \in Sources, Arrived(src) # <<>>, NEW out, Pass(src, out),
         out = <<>> \/ \E m \in Mirrored : out = << m >>
  PROVE  /\ Asked' \subseteq Asked
         /\ Asked \subseteq Asked' \cup {Head(Arrived(src)).key}
         /\ src = "mirror" \/ Head(Arrived(src)).op # "QRY_KEY" => Asked' = Asked
         /\ src = "host" /\ Head(hostQ).op = "QRY_KEY" => Head(hostQ).key \in Asked
         /\ Head(Arrived(src)).op # "KEY" => KeysOf(mirrorQ, "KEY") \subseteq KeysOf(mirrorQ, "KEY")'
         /\ KeysOf(mirrorQ, "KEY") \subseteq KeysOf(mirrorQ, "KEY")' \cup {Head(Arrived(src)).key}
<1>1. hostQ \in Seq(Packet) /\ mirrorQ \in Seq(Packet)
  BY PacketsOf DEF TypeOK, WireTypeOK, DataPlaneTypeOK
<1>2. src = "host" \/ src = "mirror"
  BY DEF Sources
<1>3. /\ Asked' \subseteq Asked
      /\ Asked \subseteq Asked' \cup {Head(Arrived(src)).key}
      /\ src = "mirror" \/ Head(Arrived(src)).op # "QRY_KEY" => Asked' = Asked
      /\ src = "host" /\ Head(hostQ).op = "QRY_KEY" => Head(hostQ).key \in Asked
  <2>1. CASE src = "host"
    <3>1. hostQ # <<>> /\ hostQ' = Tail(hostQ) /\ Arrived(src) = hostQ /\ src # "mirror"
      BY <2>1 DEF Arrived, Pass
    <3> QED
      BY <1>1, <3>1, KeysOfTail DEF Asked
  <2>2. CASE src = "mirror"
    <3>1. hostQ' = hostQ /\ src # "host"
      BY <2>2 DEF Pass
    <3> QED
      BY <3>1 DEF Asked
  <2> QED
    BY <1>2, <2>1, <2>2
<1>4. PICK q \in Seq(Packet) :
        /\ q = IF src = "mirror" THEN Tail(mirrorQ) ELSE mirrorQ
        /\ Head(Arrived(src)).op # "KEY" => KeysOf(mirrorQ, "KEY") \subseteq KeysOf(q, "KEY")
        /\ KeysOf(mirrorQ, "KEY") \subseteq KeysOf(q, "KEY") \cup {Head(Arrived(src)).key}
  <2>1. CASE src = "mirror"
    <3>1. mirrorQ # <<>> /\ Arrived(src) = mirrorQ /\ Tail(mirrorQ) \in Seq(Packet)
      BY <1>1, <2>1 DEF Arrived
    <3> QED
      BY <1>1, <2>1, <3>1, KeysOfTail
  <2>2. CASE src = "host"
    <3>1. src # "mirror"
      BY <2>2
    <3> QED
      BY <1>1, <3>1
  <2> QED
    BY <1>2, <2>1, <2>2
<1>5. mirrorQ' = q \o out
  BY <1>4 DEF Pass
<1>6. KeysOf(q, "KEY") \subseteq KeysOf(mirrorQ', "KEY")
  <2>1. CASE out = <<>>
    BY <1>4, <1>5, <2>1
  <2>2. CASE out # <<>>
    <3>1. PICK m \in Packet : out = << m >>
      BY <2>2 DEF Packet
    <3>2. PICK t : t = q \o << m >>
      OBVIOUS
    <3>a. Joined(t, q, << m >>)
      BY <1>4, <3>2 DEF Joined
    <3>3. KeysOf(t, "KEY") = KeysOf(q, "KEY") \cup IF m.op = "KEY" THEN {m.key} ELSE {}
      BY <3>a, KeysOfAppend
    <3> QED
      BY <1>5, <3>1, <3>2, <3>3
  <2> QED
    BY <2>1, <2>2
<1> QED
  BY <1>3, <1>4, <1>6

-----------------------------------------------------------------------------
(***************************************************************************)
(* What keeps the accounts.                                                *)
(***************************************************************************)

(* Queries on the link are about keys.                                     *)
LEMMA AskedAreKeys ==
  ASSUME TypeOK
  PROVE  Asked \subseteq Keys
<1> SUFFICES ASSUME NEW i \in 1 .. Len(hostQ), hostQ[i].op = "QRY_KEY" PROVE hostQ[i].key \in Keys
  BY DEF Asked, KeysOf
<1>1. hostQ[i] \in Request
  BY DEF TypeOK, WireTypeOK
<1> QED
  BY <1>1 DEF Request, KeylessOps

(* Nothing that collects means nothing asked for or stored.                *)
LEMMA CalmMeans ==
  Calm => Asked = {} /\ Stored(ColCopy) = {} /\ "START" \notin Ops(hostQ)
<1> SUFFICES ASSUME Calm
             PROVE  Asked = {} /\ Stored(ColCopy) = {} /\ "START" \notin Ops(hostQ)
  OBVIOUS
<1>1. \A i \in 1 .. Len(hostQ) : hostQ[i].op \in {"RST", "PUSH"}
  BY DEF Calm, Ops
<1>2. Asked = {}
  BY <1>1 DEF Asked, KeysOf
<1>3. Stored(ColCopy) = {}
  BY DEF Calm, Stored
<1> QED
  BY <1>2, <1>3 DEF Calm

(* Only the counters of the collected copy matter to what it answers.      *)
LEMMA CmReadLasts ==
  ASSUME ColCopy' = ColCopy, cmX'[ColCopy] = cmX[ColCopy], cmY'[ColCopy] = cmY[ColCopy]
  PROVE  \A k \in Keys : CmRead(ColCopy, k)' = CmRead(ColCopy, k)
  BY DEF CmRead

(* A copy that is clear answers zero.                                      *)
LEMMA CmReadClean ==
  ASSUME TypeOK, NEW c \in Copies, IsClean(c), NEW k \in Keys
  PROVE  CmRead(c, k) = 0
<1>1. CmX[k] \in Cell /\ CmY[k] \in Cell
  BY DataPlaneAssumption
<1> QED
  BY <1>1 DEF CmRead, IsClean

(* No step but a new key, or one that takes a report or a query away, can  *)
(* lose track of a key.                                                    *)
LEMMA KeysAccountedLast ==
  ASSUME KeysAccounted, UNCHANGED <<pc, overflowKeys, newKeys>>, Overflowing' = Overflowing,
         Asked' \subseteq Asked, "START" \in Ops(hostQ)' => "START" \in Ops(hostQ),
         NoOverflow \/ \A k \in Overflowing : Known(k) => Known(k)'
  PROVE  KeysAccounted'
  BY DEF KeysAccounted, ToAsk

(* A step that writes no value slot leaves every filled one known.         *)
LEMMA SlotsKnownLast ==
  ASSUME SlotsKnown, UNCHANGED <<inserted, overflowKeys, epochData>>, Asked' \subseteq Asked
  PROVE  SlotsKnown'
  BY DEF SlotsKnown, ToAsk

(* The values stay right while the slots, the keys left to collect and the *)
(* unread values stay what they are.                                       *)
LEMMA ValuesLast ==
  ASSUME ValuesRight, UNCHANGED <<pc, epochData, closed>>,
         "START" \in Ops(hostQ)' => "START" \in Ops(hostQ),
         pc \in {"waitVals", "recvVals"} =>
           /\ Stored(ColCopy)' = Stored(ColCopy) /\ Asked' = Asked /\ Told' = Told
           /\ \A k \in Stored(ColCopy) \cup Asked : CmRead(ColCopy, k)' = CmRead(ColCopy, k)
           /\ \A s \in UnreadSlots' :
                msgBuf'[s].op = "KEYVAL" => s \in UnreadSlots /\ msgBuf'[s] = msgBuf[s]
  PROVE  ValuesRight'
<1>1. CASE pc \in {"waitVals", "recvVals"}
  <2>1. \A k \in Stored(ColCopy)' \cup Asked' : CmRead(ColCopy, k)' = closed'[k]
    BY <1>1 DEF ValuesRight
  <2>2. \A s \in UnreadSlots' :
          msgBuf'[s].op = "KEYVAL" => msgBuf'[s].val = closed'[msgBuf'[s].key]
    BY <1>1 DEF ValuesRight
  <2>3. \A k \in Keys : epochData'[k] = closed'[k] \/ k \in Stored(ColCopy)' \cup Asked' \cup Told'
    BY <1>1 DEF ValuesRight
  <2>4. "START" \in Ops(hostQ)' => closed' = NoCounts /\ epochData' = NoCounts
    BY DEF ValuesRight
  <2> QED
    BY <1>1, <2>1, <2>2, <2>3, <2>4 DEF ValuesRight
<1>2. CASE pc \notin {"waitVals", "recvVals"}
  BY <1>2 DEF ValuesRight
<1> QED
  BY <1>1, <1>2

(* Nothing new to read and nothing read.                                   *)
LEMMA TextUntouched ==
  ASSUME UNCHANGED <<msgHead, msgAddr, msgBuf>>
  PROVE  /\ UnreadSlots' = UnreadSlots /\ Told' = Told /\ Reported' = Reported
         /\ \A s \in UnreadSlots' :
              msgBuf'[s].op = "KEYVAL" => s \in UnreadSlots /\ msgBuf'[s] = msgBuf[s]
<1>1. UnreadSlots' = UnreadSlots
  BY DEF UnreadSlots, Behind, Off
<1> QED
  BY <1>1 DEF Told, Reported

(* A step that changes nothing leaves the accounts right.                  *)
LEMMA StutterAccounts ==
  ASSUME Accounts, UNCHANGED vars
  PROVE  Accounts'
<1> USE DEF Accounts
<1>1. /\ UNCHANGED <<hostQ, msgBuf, epochData, cq>>
      /\ UNCHANGED <<epoch, resetIdx, bfX, bfY, keyIdx, keyBuf, cmX, cmY, msgAddr, mirrorQ>>
      /\ UNCHANGED <<pc, msgHead, msgTail, overflowKeys, inserted, mergedData, abnormalKeys, curEpoch>>
      /\ UNCHANGED <<seen, newKeys, closed, window, switches>>
  BY DEF vars, wireVars, switchVars, controllerVars, historyVars
<1>2. /\ Asked' = Asked /\ Stored(ColCopy)' = Stored(ColCopy) /\ Overflowing' = Overflowing
      /\ ColCopy' = ColCopy /\ Ops(hostQ)' = Ops(hostQ)
  BY <1>1 DEF Asked, Stored, ColCopy, ActiveCopy, Overflowing
<1>3. /\ UnreadSlots' = UnreadSlots /\ Told' = Told /\ Reported' = Reported
      /\ \A s \in UnreadSlots' :
           msgBuf'[s].op = "KEYVAL" => s \in UnreadSlots /\ msgBuf'[s] = msgBuf[s]
  BY <1>1, TextUntouched
<1>4. \A k : CmRead(ColCopy, k)' = CmRead(ColCopy, k)
  BY <1>1, <1>2 DEF CmRead
<1>5. \A k : Known(k) => Known(k)'
  BY <1>1, <1>2, <1>3 DEF Known, ToAsk
<1>6. KeysAccounted'
  BY <1>1, <1>2, <1>5, KeysAccountedLast
<1>7. SlotsKnown'
  BY <1>1, <1>2, SlotsKnownLast
<1>8. ValuesRight'
  BY <1>1, <1>2, <1>3, <1>4, ValuesLast
<1> QED
  BY <1>6, <1>7, <1>8

-----------------------------------------------------------------------------
(***************************************************************************)
(* The traffic, and what is lost.                                          *)
(***************************************************************************)

(* A packet of the traffic leaves the collected copy alone, and a key that *)
(* it finds new is stored or reported.                                     *)
LEMMA TrafficAccounts ==
  ASSUME Fits, InStep, Accounts, NEW k \in Keys, Traffic(k)
  PROVE  Accounts'
<1> USE DEF InStep, Accounts
<1> DEFINE new == LooksNew(ActiveCopy, k)
           full == BufferFull(ActiveCopy)
<1>1. /\ NormalPacket(k)
      /\ IF new /\ ~full
         THEN /\ keyIdx' = [keyIdx EXCEPT ![ActiveCopy] = @ + 1]
              /\ keyBuf' = [keyBuf EXCEPT ![ActiveCopy][keyIdx[ActiveCopy]] = k]
         ELSE UNCHANGED <<keyIdx, keyBuf>>
      /\ mirrorQ' = mirrorQ \o (IF new /\ full THEN <<Report(k)>> ELSE <<>>)
      /\ newKeys' = IF new THEN newKeys \cup {k} ELSE newKeys
      /\ UNCHANGED <<hostQ, msgBuf, epochData, cq, epoch, msgAddr, closed>>
      /\ UNCHANGED <<pc, msgHead, overflowKeys, inserted>>
  BY DEF Traffic, NormalPacket, wireVars, controllerVars
<1>2. ActiveCopy \in Copies /\ ColCopy \in Copies /\ ColCopy # ActiveCopy
  BY TheCopies
<1>3. ActiveCopy' = ActiveCopy /\ ColCopy' = ColCopy /\ Asked' = Asked /\ ToAsk' = ToAsk
  BY <1>1 DEF ActiveCopy, ColCopy, Asked, ToAsk
<1>4. cmX'[ColCopy] = cmX[ColCopy] /\ cmY'[ColCopy] = cmY[ColCopy]
  BY <1>1, PacketMarks
<1>5. keyIdx'[ColCopy] = keyIdx[ColCopy] /\ keyBuf'[ColCopy] = keyBuf[ColCopy]
  BY <1>1, <1>2 DEF TypeOK, DataPlaneTypeOK
<1>6. Stored(ColCopy)' = Stored(ColCopy)
  BY <1>3, <1>5 DEF Stored
<1>7. \A j \in Keys : CmRead(ColCopy, j)' = CmRead(ColCopy, j)
  BY <1>3, <1>4, CmReadLasts
<1>8. /\ Told' = Told /\ Reported' = Reported
      /\ \A s \in UnreadSlots' :
           msgBuf'[s].op = "KEYVAL" => s \in UnreadSlots /\ msgBuf'[s] = msgBuf[s]
  BY <1>1, TextUntouched
<1>9. Asked \subseteq Keys
  BY AskedAreKeys
<1>10. Stored(ColCopy) \subseteq Keys
  BY <1>2 DEF BuffersOK, Stored
<1>11. ValuesRight'
  BY <1>1, <1>3, <1>6, <1>7, <1>8, <1>9, <1>10, ValuesLast
<1>12. SlotsKnown'
  BY <1>1, <1>3, SlotsKnownLast
<1>13. new => k \notin newKeys
  BY DEF Marked
<1>14. mirrorQ \in Seq(Packet) /\ mirrorQ \in Seq(Mirrored)
  BY PacketsOf DEF TypeOK, DataPlaneTypeOK
<1>15. KeysAccounted'
  <2>1. CASE ~(new /\ full)
    <3>1. mirrorQ' = mirrorQ
      BY <1>1, <1>14, <2>1
    <3>2. Overflowing' = Overflowing
      <4>1. CASE new
        BY <1>1, <1>3, <1>13, <2>1, <4>1, KeyStored
      <4>2. CASE ~new
        BY <1>1, <1>3, <4>2 DEF Overflowing, Stored
      <4> QED
        BY <4>1, <4>2
    <3>3. newKeys \subseteq newKeys'
      BY <1>1
    <3>4. \A j : Known(j) => Known(j)'
      BY <1>1, <1>3, <1>8, <3>1 DEF Known
    <3> QED
      BY <1>1, <1>3, <3>2, <3>3, <3>4 DEF KeysAccounted
  <2>2. CASE new /\ full
    <3>1. ~NoOverflow
      BY <2>2, RoomForKey DEF Fits
    <3>2. newKeys' = newKeys \cup {k} /\ mirrorQ' = mirrorQ \o << Report(k) >>
      BY <1>1, <2>2
    <3>3. Overflowing' \subseteq Overflowing \cup {k}
      BY <1>1, <1>3, <2>2, <3>2 DEF Overflowing, Stored
    <3>4. Report(k) \in Packet /\ Report(k).op = "KEY" /\ Report(k).key = k
      BY DEF Report, Packet, Mirrored
    <3>a. PICK t, m : t = mirrorQ \o << m >> /\ m = Report(k)
      OBVIOUS
    <3>b. m \in Packet /\ m.op = "KEY" /\ m.key = k
      BY <3>4, <3>a
    <3>c. KeysOf(t, "KEY") = KeysOf(mirrorQ, "KEY") \cup IF m.op = "KEY" THEN {m.key} ELSE {}
      <4>1. Joined(t, mirrorQ, << m >>)
        BY <1>14, <3>a, <3>b DEF Joined
      <4> QED
        BY <4>1, KeysOfAppend
    <3>5. t = mirrorQ \o << Report(k) >> /\ KeysOf(t, "KEY") = KeysOf(mirrorQ, "KEY") \cup {k}
      BY <3>a, <3>b, <3>c
    <3>6. KeysOf(mirrorQ, "KEY")' = KeysOf(mirrorQ, "KEY") \cup {k}
      BY <3>2, <3>4, <3>5
    <3>7. \A j : Known(j) => Known(j)'
      BY <1>1, <1>3, <1>8, <3>6 DEF Known
    <3>8. Known(k)'
      BY <3>6 DEF Known
    <3>9. \A j \in Overflowing' : Known(j)'
      BY <3>3, <3>7, <3>8 DEF KeysAccounted
    <3> QED
      BY <1>1, <1>3, <3>1, <3>2, <3>9 DEF KeysAccounted
  <2> QED
    BY <2>1, <2>2
<1> QED
  BY <1>11, <1>12, <1>15

(* Where nothing overflows, no loss takes an account away.                 *)
LEMMA LossAccounts ==
  ASSUME InStep, InStep', Accounts, Delivered, Lose
  PROVE  Accounts'
<1> USE DEF InStep, Accounts
<1>1. /\ NoOverflow
      /\ UNCHANGED <<msgBuf, epochData, msgHead, msgAddr, pc, overflowKeys, inserted>>
      /\ UNCHANGED <<epoch, keyIdx, keyBuf, cmX, cmY, newKeys, closed>>
      /\ hostQ' = hostQ \/ (hostQ # <<>> /\ hostQ' = Tail(hostQ))
  BY DEF Lose, LoseRequest, LoseMirrored, Delivered, wireVars, switchVars, controllerVars,
         historyVars, sketchVars
<1>2. hostQ \in Seq(Packet) /\ hostQ \in Seq(Request)
  BY PacketsOf DEF TypeOK, WireTypeOK
<1>3. Ops(hostQ)' \subseteq Ops(hostQ)
  BY <1>1, <1>2, OpsOfTail
<1>4. Asked = {} /\ Asked' \subseteq Asked
  <2>1. Asked = {}
    BY <1>1 DEF KeysAccounted
  <2>2. CASE hostQ' = hostQ
    BY <2>1, <2>2 DEF Asked
  <2>3. CASE hostQ # <<>> /\ hostQ' = Tail(hostQ)
    BY <1>2, <2>1, <2>3, KeysOfTail DEF Asked
  <2> QED
    BY <1>1, <2>1, <2>2, <2>3
<1>5. /\ ColCopy' = ColCopy /\ Stored(ColCopy)' = Stored(ColCopy) /\ Overflowing' = Overflowing
      /\ Asked' = Asked
  BY <1>1, <1>4 DEF ColCopy, ActiveCopy, Stored, Overflowing
<1>6. \A k : CmRead(ColCopy, k)' = CmRead(ColCopy, k)
  BY <1>1, <1>5 DEF CmRead
<1>7. /\ Told' = Told
      /\ \A s \in UnreadSlots' :
           msgBuf'[s].op = "KEYVAL" => s \in UnreadSlots /\ msgBuf'[s] = msgBuf[s]
  BY <1>1, TextUntouched
<1>8. KeysAccounted'
  BY <1>1, <1>3, <1>5, KeysAccountedLast
<1>9. SlotsKnown'
  BY <1>1, <1>5, SlotsKnownLast
<1>10. ValuesRight'
  BY <1>1, <1>3, <1>5, <1>6, <1>7, ValuesLast
<1> QED
  BY <1>8, <1>9, <1>10

-----------------------------------------------------------------------------
(***************************************************************************)
(* The reset packets, the reports and the queries.                         *)
(***************************************************************************)

(* The ring has room for every DONE message.                               *)
LEMMA DoneFits ==
  ASSUME Fits, InStep, NEW src \in Sources, Reset(src),
         NEW op, op = Head(Arrived(src)).op, IsDone(op, ResetIdxGot(op))
  PROVE  Behind < MSGS - 1
<1> USE DEF InStep
<1>1. Behind \in 0 .. MSGS - 1 /\ MSGS \in Nat
  BY DistIs, WireAssumption DEF TypeOK, DataPlaneTypeOK, ControllerTypeOK, Behind, Off
<1>2. NKEYS \in Nat \ {0} /\ NDATA \in Nat \ {0, 1}
  BY DataPlaneAssumption
<1>3. keyIdx[ColCopy] \in 0 .. NKEYS
  BY TheCopies DEF TypeOK, DataPlaneTypeOK
<1>4. /\ op = "RST_START" => "RST_START" \in Ops(hostQ) \cup Ops(mirrorQ)
      /\ op = "PUSH" => "PUSH" \in Ops(hostQ)
      /\ op \in {"RST_START", "RST", "PUSH"}
  BY ResetPasses DEF Reset, ResetPacket, Arrives
<1>5. Cleared => op = "PUSH"
  <2> SUFFICES ASSUME Cleared, op # "PUSH" PROVE FALSE
    OBVIOUS
  <2>1. op # "RST_START"
    BY <1>4 DEF Cleared, Calm
  <2>2. ResetIdxGot(op) = NDATA
    BY <1>4, <2>1 DEF ResetIdxGot, Cleared
  <2> QED
    BY <1>2, <2>2 DEF IsDone
<1>6. CASE pc \in {"idle", "exit", "recvKeys"}
  <2>1. Cleared /\ Kind("KEY") /\ Dones(0)
    BY <1>4, <1>5, <1>6 DEF PhaseOK
  <2>2. Behind - 0 =< Cardinality(Keys) /\ Cardinality(Keys) \in Nat
    BY <2>1, ReportsFit DEF Fits
  <2> QED
    BY <1>1, <2>2 DEF Fits
<1>7. CASE pc \in {"waitVals", "recvVals"}
  <2>1. PICK d \in {0, 1, 2} : Stage(d) /\ Behind - d + keyIdx[ColCopy] =< NKEYS
    BY <1>7 DEF PhaseOK
  <2>2. d # 2
    <3>1. op # "PUSH"
      BY <1>4, <1>7 DEF PushAwaited
    <3>2. ~Cleared
      BY <1>5, <3>1
    <3> QED
      BY <2>1, <3>2 DEF Stage
  <2>3. Behind =< NKEYS + 1
    BY <1>1, <1>2, <1>3, <2>1, <2>2
  <2> QED
    BY <1>1, <1>2, <2>3 DEF Fits
<1>8. CASE pc \in {"merge", "recvDone"}
  <2>1. PICK d \in {1, 2} : Behind = d - 1
    BY <1>8 DEF PhaseOK
  <2> QED
    BY <1>1, <1>2, <2>1 DEF Fits
<1> QED
  BY <1>6, <1>7, <1>8 DEF TypeOK, ControllerTypeOK, Phases

(* A reset packet clears counters only when nothing is left that they      *)
(* would answer.                                                           *)
LEMMA ResetAccounts ==
  ASSUME Fits, InStep, InStep', Accounts, NEW src \in Sources, Reset(src)
  PROVE  Accounts'
<1> USE DEF InStep, Accounts
<1>1. PICK op \in {"RST_START", "RST", "PUSH"} : op = Head(Arrived(src)).op
  BY DEF Reset, ResetPacket, Arrives
<1>2. /\ ResetPacket(src) /\ Arrived(src) # <<>> /\ closed' = closed
      /\ UNCHANGED <<epoch, keyIdx, keyBuf, epochData>>
      /\ UNCHANGED <<pc, msgHead, msgTail, overflowKeys, inserted, newKeys>>
  BY DEF Reset, ResetPacket, Arrives, controllerVars, historyVars
<1>3. Overflowing' = Overflowing /\ Ops(hostQ)' \subseteq Ops(hostQ) /\ resetIdx' = ResetIdxLeft(op)
  BY <1>1, ResetPasses
<1>4. PICK idx : idx = ResetIdxGot(op)
  OBVIOUS
<1>5. /\ cmX' = IF idx # NDATA THEN ClearCell(cmX, ColCopy, idx) ELSE cmX
      /\ cmY' = IF idx # NDATA THEN ClearCell(cmY, ColCopy, idx) ELSE cmY
      /\ IF IsDone(op, idx) THEN SendMsg("DONE", NoKey, 0) ELSE SendNothing
      /\ Pass(src, IF idx # NDATA THEN << Again(src, "RST") >> ELSE <<>>)
  BY <1>1, <1>2, <1>4 DEF ResetPacket
<1>6. PICK out : /\ out = IF idx # NDATA THEN << Again(src, "RST") >> ELSE <<>>
                 /\ Pass(src, out)
  BY <1>5
<1>7. out = <<>> \/ \E m \in Mirrored : out = << m >>
  <2>1. Again(src, "RST") \in Mirrored
    BY <1>1, <1>2, AgainIs DEF KeylessOps
  <2> QED
    BY <1>6, <2>1
<1>8. Asked' = Asked /\ KeysOf(mirrorQ, "KEY") \subseteq KeysOf(mirrorQ, "KEY")'
  BY <1>1, <1>2, <1>6, <1>7, PassedKeys
<1>9. ColCopy' = ColCopy /\ Stored(ColCopy)' = Stored(ColCopy)
  BY <1>2 DEF ColCopy, Stored
<1>10. /\ Told' = Told /\ Reported \subseteq Reported'
       /\ \A s \in Reported : msgBuf'[s] = msgBuf[s]
       /\ \A s \in UnreadSlots' :
            msgBuf'[s].op = "KEYVAL" => s \in UnreadSlots /\ msgBuf'[s] = msgBuf[s]
  <2>1. CASE ~IsDone(op, idx)
    <3>1. UNCHANGED <<msgHead, msgAddr, msgBuf>>
      BY <1>2, <1>5, <2>1 DEF SendNothing
    <3> QED
      BY <3>1, TextUntouched
  <2>2. CASE IsDone(op, idx)
    <3>1. Behind < MSGS - 1
      BY <1>1, <1>4, <2>2, DoneFits
    <3>2. SendMsg("DONE", NoKey, 0)
      BY <1>5, <2>2
    <3>3. "DONE" \in {"DONE", "KEY", "KEYVAL"} /\ NoKey \in Keys \cup {NoKey} /\ 0 \in Val
      BY WireAssumption DEF Val
    <3>4. /\ UnreadSlots' = UnreadSlots \cup {msgAddr} /\ msgAddr \notin UnreadSlots
          /\ msgBuf'[msgAddr] = [op |-> "DONE", key |-> NoKey, val |-> 0]
          /\ \A s \in UnreadSlots : msgBuf'[s] = msgBuf[s]
      BY <1>2, <3>1, <3>2, <3>3, SendMsgKeepsRing
    <3>5. msgBuf'[msgAddr].op = "DONE"
      BY <3>4
    <3>6. Told' = Told
      BY <3>4, <3>5 DEF Told
    <3>7. Reported \subseteq Reported'
      BY <3>4 DEF Reported
    <3>8. \A s \in Reported : s \in UnreadSlots
      BY DEF Reported
    <3> QED
      BY <3>4, <3>5, <3>6, <3>7, <3>8
  <2> QED
    BY <2>1, <2>2
<1>11. ASSUME idx # NDATA, pc \in {"waitVals", "recvVals"} PROVE ValuesRight'
  <2>1. Calm'
    <3>1. CASE op = "RST_START"
      <4>1. resetIdx' = 1 /\ NDATA > 1
        BY <1>3, <1>4, <1>11, <3>1, DataPlaneAssumption DEF ResetIdxLeft, ResetIdxGot
      <4>2. resetIdx' # NDATA /\ resetIdx' # RSTIDX_MID
        BY <4>1, DataPlaneAssumption DEF RSTIDX_MID
      <4>3. ~Collecting'
        BY <4>2 DEF Collecting
      <4> QED
        BY <1>2, <1>11, <4>3 DEF PhaseOK, Stage, Resetting, Cleared
    <3>2. CASE op # "RST_START"
      <4>1. resetIdx \notin {NDATA, RSTIDX_MID}
        BY <1>4, <1>11, <3>2 DEF ResetIdxGot
      <4>2. ~Collecting
        BY <4>1 DEF Collecting
      <4>3. Calm
        BY <1>11, <4>2 DEF PhaseOK, Stage, Resetting, Cleared
      <4>4. Ops(mirrorQ)' \subseteq Ops(mirrorQ) \cup {"RST"}
        BY ResetPasses
      <4> QED
        BY <1>2, <1>3, <1>9, <4>3, <4>4 DEF Calm
    <3> QED
      BY <3>1, <3>2
  <2>2. (Calm)' => (Asked = {} /\ Stored(ColCopy) = {} /\ "START" \notin Ops(hostQ))'
    BY CalmMeans, PTL
  <2>3. Asked = {} /\ Stored(ColCopy) = {}
    BY <1>8, <1>9, <2>1, <2>2
  <2>4. ValuesRight'
    BY <1>2, <1>3, <1>8, <1>9, <1>10, <2>3, ValuesLast
  <2> QED
    BY <2>4
<1>12. ASSUME ~(idx # NDATA /\ pc \in {"waitVals", "recvVals"}) PROVE ValuesRight'
  <2>1. pc \in {"waitVals", "recvVals"} => cmX' = cmX /\ cmY' = cmY
    BY <1>5, <1>12
  <2>2. pc \in {"waitVals", "recvVals"} => \A k : CmRead(ColCopy, k)' = CmRead(ColCopy, k)
    BY <1>9, <2>1 DEF CmRead
  <2> QED
    BY <1>2, <1>3, <1>8, <1>9, <1>10, <2>2, ValuesLast
<1>13. SlotsKnown'
  BY <1>2, <1>8, SlotsKnownLast
<1>14. "START" \in Ops(hostQ) => "START" \in Ops(hostQ)'
  <2>1. CASE src = "host"
    <3>1. hostQ # <<>> /\ hostQ' = Tail(hostQ) /\ Head(hostQ).op = op
      BY <1>1, <1>2, <1>6, <2>1 DEF Arrived, Pass
    <3>2. Ops(hostQ) = Ops(Tail(hostQ)) \cup {op}
      BY <3>1, OpsOfTail DEF TypeOK, WireTypeOK
    <3> QED
      BY <3>1, <3>2
  <2>2. CASE src # "host"
    BY <1>6, <2>2 DEF Pass
  <2> QED
    BY <2>1, <2>2
<1>15. \A k : Known(k) => Known(k)'
  BY <1>2, <1>8, <1>10, <1>14 DEF Known, ToAsk
<1>16. KeysAccounted'
  BY <1>2, <1>3, <1>8, <1>15, KeysAccountedLast
<1> QED
  BY <1>11, <1>12, <1>13, <1>16

(* A report goes from the mirror to the ring.                              *)
LEMMA ReportAccounts ==
  ASSUME Fits, InStep, InStep', Accounts, ReportOverflow
  PROVE  Accounts'
<1> USE DEF InStep, Accounts
<1>1. /\ mirrorQ # <<>> /\ Head(mirrorQ).op = "KEY" /\ mirrorQ' = Tail(mirrorQ) \o <<>>
      /\ hostQ' = hostQ /\ SendMsg("KEY", Head(mirrorQ).key, 0)
      /\ UNCHANGED <<epoch, keyIdx, keyBuf, epochData, cmX, cmY, closed>>
      /\ UNCHANGED <<pc, msgHead, msgTail, overflowKeys, inserted, newKeys>>
  BY DEF ReportOverflow, ReportKey, Arrives, Arrived, Pass, controllerVars, historyVars, sketchVars
<1>2. mirrorQ \in Seq(Mirrored) /\ mirrorQ \in Seq(Packet)
  BY PacketsOf DEF TypeOK, DataPlaneTypeOK
<1>3. PICK k \in Keys : k = Head(mirrorQ).key
  <2>1. Head(mirrorQ) \in Mirrored
    BY <1>1, <1>2, TailIs
  <2> QED
    BY <1>1, <2>1 DEF Mirrored, KeylessOps
<1>4. pc \in {"idle", "exit"}
  <2>1. Head(mirrorQ) = mirrorQ[1] /\ 1 \in 1 .. Len(mirrorQ)
    BY <1>1, <1>2, TailIs
  <2>2. 1 \in Reporting
    BY <1>1, <2>1 DEF Reporting
  <2> QED
    BY <2>2 DEF ReportsOK
<1>5. Cleared /\ Kind("KEY") /\ Dones(0)
  BY <1>4 DEF PhaseOK
<1>6. Behind < MSGS - 1
  <2>1. Behind - 0 =< Cardinality(Keys) /\ Cardinality(Keys) \in Nat /\ Behind \in 0 .. MSGS - 1
    BY <1>5, ReportsFit DEF Fits
  <2> QED
    BY <2>1, WireAssumption DEF Fits
<1>7. "KEY" \in {"DONE", "KEY", "KEYVAL"} /\ k \in Keys \cup {NoKey} /\ 0 \in Val
  BY WireAssumption DEF Val
<1>8. /\ UnreadSlots' = UnreadSlots \cup {msgAddr} /\ msgAddr \notin UnreadSlots
      /\ msgBuf'[msgAddr] = [op |-> "KEY", key |-> k, val |-> 0]
      /\ \A s \in UnreadSlots : msgBuf'[s] = msgBuf[s]
  <2>1. SendMsg("KEY", k, 0)
    BY <1>1, <1>3
  <2> QED
    BY <1>1, <1>6, <1>7, <2>1, SendMsgKeepsRing
<1>9. /\ Asked' = Asked /\ Overflowing' = Overflowing
      /\ \A s \in Reported : s \in Reported' /\ msgBuf'[s] = msgBuf[s]
  BY <1>1, <1>8 DEF Asked, Overflowing, Stored, ActiveCopy, Reported
<1>10. msgAddr \in Reported' /\ msgBuf'[msgAddr].key = k
  BY <1>8 DEF Reported
<1>11. KeysOf(mirrorQ, "KEY") \subseteq KeysOf(mirrorQ, "KEY")' \cup {k}
  <2>1. mirrorQ' = Tail(mirrorQ)
    BY <1>1, <1>2
  <2> QED
    BY <1>1, <1>2, <1>3, <2>1, KeysOfTail
<1>12. \A j : Known(j) => Known(j)'
  BY <1>1, <1>9, <1>10, <1>11 DEF Known, ToAsk
<1>13. KeysAccounted'
  BY <1>1, <1>9, <1>12, KeysAccountedLast
<1>14. SlotsKnown'
  BY <1>1, <1>9, SlotsKnownLast
<1>15. ValuesRight'
  BY <1>1, <1>4, ValuesLast
<1> QED
  BY <1>13, <1>14, <1>15

(* Nothing that collects passes the START.                                 *)
LEMMA BehindStart ==
  ASSUME TypeOK, RequestsInOrder, hostQ # <<>>, Head(hostQ).op \notin {"START", "RST"}
  PROVE  "START" \notin Ops(hostQ)
<1> SUFFICES ASSUME NEW i \in 1 .. Len(hostQ), hostQ[i].op = "START" PROVE FALSE
  BY DEF Ops
<1>1. Head(hostQ) = hostQ[1] /\ Len(hostQ) \in Nat
  BY TailIs DEF TypeOK, WireTypeOK
<1>2. i # 1
  BY <1>1
<1>3. 1 \in 1 .. i - 1
  BY <1>1, <1>2
<1>4. hostQ[1].op = "RST"
  BY <1>3 DEF RequestsInOrder
<1> QED
  BY <1>1, <1>4

(* A query is answered with the counter that the key had at the switch.    *)
LEMMA QueryAccounts ==
  ASSUME InStep, InStep', Accounts, Query
  PROVE  Accounts'
<1> USE DEF InStep, Accounts
<1>1. /\ hostQ # <<>> /\ Head(hostQ).op = "QRY_KEY"
      /\ epochData' = [epochData EXCEPT ![Head(hostQ).key] = CmRead(ColCopy, Head(hostQ).key)]
      /\ Pass("host", <<>>) /\ mirrorQ' = mirrorQ \o <<>> /\ UNCHANGED <<msgBuf, msgAddr, cq>>
      /\ UNCHANGED <<epoch, keyIdx, keyBuf, cmX, cmY, closed>>
      /\ UNCHANGED <<pc, msgHead, msgTail, overflowKeys, inserted, newKeys>>
  BY DEF Query, QueryKey, Arrives, Arrived, Pass, SendNothing, controllerVars, historyVars, sketchVars
<1>2. hostQ \in Seq(Request) /\ mirrorQ \in Seq(Mirrored)
  BY DEF TypeOK, WireTypeOK, DataPlaneTypeOK
<1>3. mirrorQ' = mirrorQ
  BY <1>1, <1>2
<1>4. PICK k : k = Head(hostQ).key
  OBVIOUS
<1>5. /\ Asked' \subseteq Asked /\ Asked \subseteq Asked' \cup {k} /\ k \in Asked
  <2>1. "host" \in Sources /\ Arrived("host") = hostQ
    BY DEF Sources, Arrived
  <2> QED
    BY <1>1, <1>4, <2>1, PassedKeys
<1>6. k \in Keys
  BY <1>5, AskedAreKeys
<1>7. hostQ' = Tail(hostQ)
  BY <1>1 DEF Pass
<1>8. Ops(hostQ)' \subseteq Ops(hostQ) /\ "QRY_KEY" \in Ops(hostQ)
  BY <1>1, <1>2, <1>7, OpsOfTail
<1>9. pc \in {"waitVals", "recvVals"}
  <2>1. ~Calm
    BY <1>8 DEF Calm
  <2> QED
    BY <2>1, CollectMeans DEF TypeOK, ControllerTypeOK, Phases
<1>10. "START" \notin Ops(hostQ) /\ "START" \notin Ops(hostQ)'
  BY <1>1, <1>8, BehindStart
<1>11. /\ ColCopy' = ColCopy /\ Stored(ColCopy)' = Stored(ColCopy) /\ Overflowing' = Overflowing
       /\ \A j : CmRead(ColCopy, j)' = CmRead(ColCopy, j)
  BY <1>1 DEF ColCopy, Stored, Overflowing, ActiveCopy, CmRead
<1>12. /\ Told' = Told /\ Reported' = Reported
       /\ \A s \in UnreadSlots' :
            msgBuf'[s].op = "KEYVAL" => s \in UnreadSlots /\ msgBuf'[s] = msgBuf[s]
  BY <1>1, TextUntouched
<1>13. CmRead(ColCopy, k) = closed[k]
  BY <1>5, <1>9 DEF ValuesRight
<1>14. /\ epochData'[k] = closed[k]
       /\ \A j \in Keys : j # k => epochData'[j] = epochData[j]
  BY <1>1, <1>4, <1>6, <1>13 DEF TypeOK, WireTypeOK
<1>15. KeysAccounted'
  <2>1. \A j : Known(j) => Known(j)'
    BY <1>1, <1>3, <1>10, <1>12 DEF Known, ToAsk
  <2> QED
    BY <1>1, <1>5, <1>8, <1>11, <2>1, KeysAccountedLast
<1>16. SlotsKnown'
  <2>1. InputKeys \cup ToAsk' \cup Asked' \subseteq inserted'
    BY <1>1, <1>5 DEF SlotsKnown, ToAsk
  <2>2. \A j \in Keys : epochData'[j] # 0 => j \in inserted'
    BY <1>1, <1>5, <1>14 DEF SlotsKnown
  <2> QED
    BY <2>1, <2>2 DEF SlotsKnown
<1>17. ValuesRight'
  <2>1. \A j \in Stored(ColCopy)' \cup Asked' : CmRead(ColCopy, j)' = closed'[j]
    BY <1>1, <1>5, <1>9, <1>11 DEF ValuesRight
  <2>2. \A s \in UnreadSlots' :
          msgBuf'[s].op = "KEYVAL" => msgBuf'[s].val = closed'[msgBuf'[s].key]
    BY <1>1, <1>9, <1>12 DEF ValuesRight
  <2>3. \A j \in Keys : epochData'[j] = closed'[j] \/ j \in Stored(ColCopy)' \cup Asked' \cup Told'
    BY <1>1, <1>5, <1>9, <1>11, <1>12, <1>14 DEF ValuesRight
  <2> QED
    BY <1>1, <1>9, <1>10, <2>1, <2>2, <2>3 DEF ValuesRight
<1> QED
  BY <1>15, <1>16, <1>17

-----------------------------------------------------------------------------
(***************************************************************************)
(* The collect packets.                                                    *)
(***************************************************************************)

(* No report is on its way, so no key is left that only a report tells of. *)
LEMMA NothingReported ==
  ASSUME TypeOK, Kind("KEYVAL"), Reporting = {}
  PROVE  KeysOf(mirrorQ, "KEY") = {} /\ Reported = {}
  BY DEF KeysOf, Reporting, Reported, Kind

(* What a collect packet finds: every counter that is to be collected, and *)
(* every value sent, is that of the sub-window which the START closed or   *)
(* closes; every new key of that sub-window is stored or asked for.        *)
LEMMA CollectClosed ==
  ASSUME InStep, Accounts, NEW src \in Sources, Arrives(src, {"START", "COL"}), SwitchEpoch(src),
         Head(Arrived(src)).op = "START" \/ keyIdx[ColCopy] # 0,
         hostQ' = IF src = "host" THEN Tail(hostQ) ELSE hostQ,
         NEW c, c = CopyCollectedBy(src), CloseSubWindow,
         \A d \in Copies \ {c} : keyIdx'[d] = keyIdx[d], UNCHANGED <<keyBuf, overflowKeys, pc>>,
         Asked' \subseteq Asked
  PROVE  /\ Stored(c) \cup Asked \subseteq Keys
         /\ \A j \in Stored(c) \cup Asked : CmRead(c, j) = closed'[j]
         /\ \A s \in UnreadSlots : msgBuf[s].op = "KEYVAL" => msgBuf[s].val = closed'[msgBuf[s].key]
         /\ \A j \in Keys : epochData[j] = closed'[j] \/ j \in Stored(c) \cup Asked \cup Told
         /\ KeysAccounted'
<1> USE DEF InStep, Accounts
<1> DEFINE op == Head(Arrived(src)).op
<1>1. /\ c \in Copies /\ pc \in {"waitVals", "recvVals"} /\ Kind("KEYVAL") /\ Reporting = {}
      /\ "START" \notin Ops(hostQ)'
      /\ op = "START" => src = "host" /\ epoch' # epoch /\ c = ActiveCopy
      /\ op # "START" => epoch' = epoch /\ ActiveCopy' = ActiveCopy /\ c = ColCopy
  BY CollectReady
<1>2. KeysOf(mirrorQ, "KEY") = {} /\ Reported = {}
  BY <1>1, NothingReported
<1>3. Asked \subseteq Keys
  BY AskedAreKeys
<1>4. Stored(c) \subseteq Keys
  BY <1>1 DEF BuffersOK, Stored
<1>5. newKeys \subseteq Keys /\ ActiveCopy \in Copies /\ ColCopy # ActiveCopy
  BY TheCopies DEF TypeOK
<1>6. ASSUME NEW j \in Overflowing PROVE "START" \in Ops(hostQ) /\ j \in Asked
  <2>1. Known(j)
    BY DEF KeysAccounted
  <2> QED
    BY <1>1, <1>2, <2>1 DEF Known
<1> HIDE DEF op
<1>7. CASE op = "START"
  <2>1. hostQ # <<>> /\ op = Head(hostQ).op
    BY <1>1, <1>7 DEF Arrives, Arrived, op
  <2>2. "START" \in Ops(hostQ)
    BY <1>1, <1>7, <2>1, RequestLeaves
  <2>3. Behind = 0
    <3>1. ~Calm
      BY <2>2 DEF Calm
    <3> QED
      BY <1>1, <2>2, <3>1, CollectMeans DEF Collecting
  <2>4. UnreadSlots = {}
    BY <2>3, EmptyRing
  <2>5. closed = NoCounts /\ epochData = NoCounts
    BY <2>2 DEF ValuesRight
  <2>6. newKeys' = {} /\ closed' = [k \in Keys |-> IF k \in newKeys THEN CmRead(ActiveCopy, k) ELSE 0]
    BY <1>1, <1>7 DEF CloseSubWindow
  <2>7. Stored(c) \subseteq newKeys /\ Asked \subseteq newKeys
    BY <1>1, <1>7, <2>2 DEF BuffersOK, KeysAccounted
  <2>8. \A j \in newKeys : j \in Stored(c) \cup Asked
    BY <1>1, <1>6, <1>7 DEF Overflowing
  <2>9. \A j \in Stored(c) \cup Asked : CmRead(c, j) = closed'[j]
    <3> SUFFICES ASSUME NEW j \in newKeys PROVE CmRead(c, j) = closed'[j]
      BY <2>7
    <3>1. j \in Keys
      BY <1>5
    <3>2. closed'[j] = CmRead(ActiveCopy, j)
      BY <2>6, <3>1
    <3> QED
      BY <1>1, <1>7, <3>2
  <2>10. \A j \in Keys : epochData[j] = closed'[j] \/ j \in Stored(c) \cup Asked \cup Told
    BY <2>5, <2>6, <2>8 DEF NoCounts
  <2>11. KeysAccounted'
    <3>1. Overflowing' = {}
      BY <2>6 DEF Overflowing
    <3>2. ToAsk' = ToAsk
      BY DEF ToAsk
    <3>3. NoOverflow => ToAsk = {} /\ Asked = {}
      BY DEF KeysAccounted
    <3> QED
      BY <1>1, <3>1, <3>2, <3>3 DEF KeysAccounted
  <2> QED
    BY <1>3, <1>4, <2>4, <2>9, <2>10, <2>11
<1>8. CASE op # "START"
  <2>1. closed' = closed /\ newKeys' = newKeys /\ c = ColCopy /\ ActiveCopy' = ActiveCopy
    BY <1>1, <1>8 DEF CloseSubWindow
  <2>2. keyIdx[ColCopy] # 0
    BY <1>8 DEF op
  <2>3. "START" \notin Ops(hostQ)
    <3>1. ~Calm
      BY <2>2 DEF Calm
    <3> QED
      BY <1>1, <2>2, <3>1, CollectMeans DEF Collecting, IsClean
  <2>4. Overflowing = {}
    BY <1>6, <2>3
  <2>5. keyIdx'[ActiveCopy] = keyIdx[ActiveCopy]
    BY <1>5, <2>1
  <2>6. Overflowing' = {}
    BY <2>1, <2>4, <2>5 DEF Overflowing, Stored
  <2>7. KeysAccounted'
    <3>1. ToAsk' = ToAsk
      BY DEF ToAsk
    <3>2. NoOverflow => ToAsk = {} /\ Asked = {}
      BY DEF KeysAccounted
    <3> QED
      BY <1>1, <2>6, <3>1, <3>2 DEF KeysAccounted
  <2> QED
    BY <1>1, <1>3, <1>4, <2>1, <2>7 DEF ValuesRight
<1> QED
  BY <1>7, <1>8

(* The next key of the buffer is sent with the counter that it had when    *)
(* the sub-window was closed.                                              *)
LEMMA CollectKeyAccounts ==
  ASSUME Fits, InStep, Accounts, NEW src \in Sources, CollectKey(src), CloseSubWindow,
         UNCHANGED <<controllerVars, window, switches>>
  PROVE  Accounts'
<1> USE DEF InStep, Accounts
<1>1. PICK c : c = CopyCollectedBy(src)
  OBVIOUS
<1>2. PICK i : i = keyIdx[c] - 1
  OBVIOUS
<1>3. PICK k : k = keyBuf[c][i]
  OBVIOUS
<1>4. PICK p : p = Again(src, NextCollectOp(i))
  OBVIOUS
<1>5. /\ Arrives(src, {"START", "COL"}) /\ keyIdx[c] # 0 /\ SwitchEpoch(src)
      /\ keyIdx' = [keyIdx EXCEPT ![c] = i]
      /\ IF k \in HotKeys
         THEN epochData' = [epochData EXCEPT ![k] = CmRead(c, k)] /\ SendNothing
         ELSE SendMsg("KEYVAL", k, CmRead(c, k)) /\ UNCHANGED epochData
      /\ Pass(src, << p >>)
      /\ UNCHANGED <<keyBuf, cmX, cmY>>
      /\ UNCHANGED <<pc, msgHead, msgTail, overflowKeys, inserted>>
  BY <1>1, <1>2, <1>3, <1>4 DEF CollectKey, sketchVars, controllerVars
<1>6. Arrived(src) # <<>> /\ Head(Arrived(src)).op \in {"START", "COL"}
  BY <1>5 DEF Arrives
<1>7. hostQ' = IF src = "host" THEN Tail(hostQ) ELSE hostQ
  BY <1>5 DEF Pass
<1>8. Head(Arrived(src)).op = "START" \/ keyIdx[ColCopy] # 0
  BY <1>1, <1>5, <1>6 DEF CopyCollectedBy
<1>9. /\ c \in Copies /\ ColCopy' = c /\ pc \in {"waitVals", "recvVals"}
      /\ Behind \in Nat /\ Behind + keyIdx[c] =< NKEYS /\ "START" \notin Ops(hostQ)'
  BY <1>1, <1>5, <1>7, <1>8, CollectReady
<1>10. keyIdx[c] \in 0 .. NKEYS /\ NKEYS \in Nat
  BY <1>9, DataPlaneAssumption DEF TypeOK, DataPlaneTypeOK
<1>11. i \in 0 .. keyIdx[c] - 1 /\ keyIdx'[c] = i /\ \A d \in Copies \ {c} : keyIdx'[d] = keyIdx[d]
  BY <1>2, <1>5, <1>9, <1>10 DEF TypeOK, DataPlaneTypeOK
<1>12. k \in Keys /\ k \in Stored(c)
  BY <1>3, <1>9, <1>11 DEF BuffersOK, Stored
<1>13. Asked' = Asked
  <2>2. p \in Mirrored
    BY <1>4, <1>6, AgainIs DEF NextCollectOp, KeylessOps
  <2>3. Head(Arrived(src)).op # "QRY_KEY"
    BY <1>6
  <2> QED
    BY <1>5, <1>6, <2>2, <2>3, PassedKeys
<1>14. /\ Stored(c) \cup Asked \subseteq Keys
       /\ \A j \in Stored(c) \cup Asked : CmRead(c, j) = closed'[j]
       /\ \A s \in UnreadSlots : msgBuf[s].op = "KEYVAL" => msgBuf[s].val = closed'[msgBuf[s].key]
       /\ \A j \in Keys : epochData[j] = closed'[j] \/ j \in Stored(c) \cup Asked \cup Told
       /\ KeysAccounted'
  <2>1. UNCHANGED <<keyBuf, overflowKeys, pc>>
    BY <1>5
  <2> QED
    BY <1>1, <1>5, <1>7, <1>8, <1>11, <1>13, <2>1, CollectClosed
<1>15. Stored(ColCopy)' \subseteq Stored(c) /\ Stored(c) \subseteq Stored(ColCopy)' \cup {k}
  <2>1. Stored(ColCopy)' = {keyBuf[c][x] : x \in 0 .. i - 1}
    BY <1>5, <1>9, <1>11 DEF Stored
  <2>2. \A x \in 0 .. i - 1 : x \in 0 .. keyIdx[c] - 1
    BY <1>10, <1>11
  <2>3. \A x \in 0 .. keyIdx[c] - 1 : x = i \/ x \in 0 .. i - 1
    BY <1>2, <1>10
  <2> QED
    BY <1>3, <2>1, <2>2, <2>3 DEF Stored
<1>16. \A j : CmRead(ColCopy, j)' = CmRead(c, j)
  BY <1>5, <1>9 DEF CmRead
<1>17. \A j \in Stored(ColCopy)' \cup Asked' : CmRead(ColCopy, j)' = closed'[j]
  BY <1>13, <1>14, <1>15, <1>16
<1>18. InputKeys \cup ToAsk' \cup Asked' \subseteq inserted'
  BY <1>5, <1>13 DEF SlotsKnown, ToAsk
<1>19. CASE k \in HotKeys
  <2>1. UNCHANGED <<msgBuf, msgAddr, msgHead>> /\ epochData' = [epochData EXCEPT ![k] = CmRead(c, k)]
    BY <1>5, <1>19 DEF SendNothing
  <2>2. /\ UnreadSlots' = UnreadSlots /\ Told' = Told
    BY <2>1, TextUntouched
  <2>3. epochData'[k] = closed'[k] /\ \A j \in Keys : j # k => epochData'[j] = epochData[j]
    BY <1>12, <1>14, <2>1 DEF TypeOK, WireTypeOK
  <2>4. \A j \in Keys : epochData'[j] = closed'[j] \/ j \in Stored(ColCopy)' \cup Asked' \cup Told'
    BY <1>13, <1>14, <1>15, <2>2, <2>3
  <2>5. ValuesRight'
    BY <1>5, <1>9, <1>14, <1>17, <2>1, <2>2, <2>4 DEF ValuesRight
  <2>6. k \in inserted
    BY <1>19, OmniWindowAssumption DEF SlotsKnown
  <2>7. SlotsKnown'
    BY <1>5, <1>18, <2>3, <2>6 DEF SlotsKnown
  <2> QED
    BY <1>14, <2>5, <2>7
<1>20. CASE k \notin HotKeys
  <2>1. PICK v \in Val : v = CmRead(c, k)
    BY <1>9, <1>12, CmReadIs
  <2>2. SendMsg("KEYVAL", k, v) /\ epochData' = epochData
    BY <1>5, <1>20, <2>1
  <2>3. Behind < MSGS - 1
    BY <1>5, <1>9, <1>10, WireAssumption DEF Fits
  <2>4. "KEYVAL" \in {"DONE", "KEY", "KEYVAL"} /\ k \in Keys \cup {NoKey}
    BY <1>12
  <2>5. /\ UnreadSlots' = UnreadSlots \cup {msgAddr} /\ msgAddr \notin UnreadSlots
        /\ msgBuf'[msgAddr] = [op |-> "KEYVAL", key |-> k, val |-> v]
        /\ \A s \in UnreadSlots : msgBuf'[s] = msgBuf[s]
    BY <1>5, <2>2, <2>3, <2>4, SendMsgKeepsRing
  <2>6. Told \subseteq Told' /\ k \in Told'
    BY <2>5 DEF Told
  <2>7. \A s \in UnreadSlots' : msgBuf'[s].op = "KEYVAL" => msgBuf'[s].val = closed'[msgBuf'[s].key]
    BY <1>12, <1>14, <2>1, <2>5
  <2>8. \A j \in Keys : epochData'[j] = closed'[j] \/ j \in Stored(ColCopy)' \cup Asked' \cup Told'
    BY <1>13, <1>14, <1>15, <2>2, <2>6
  <2>9. ValuesRight'
    BY <1>5, <1>9, <1>17, <2>7, <2>8 DEF ValuesRight
  <2>10. SlotsKnown'
    BY <1>5, <1>18, <2>2 DEF SlotsKnown
  <2> QED
    BY <1>14, <2>9, <2>10
<1> QED
  BY <1>19, <1>20

(* A collect packet that finds no key closes the sub-window, or does       *)
(* nothing to the accounts.                                                *)
LEMMA CollectNothingAccounts ==
  ASSUME InStep, Accounts, NEW src \in Sources, CollectNothing(src), CloseSubWindow,
         UNCHANGED <<controllerVars, window, switches>>
  PROVE  Accounts'
<1> USE DEF InStep, Accounts
<1>1. PICK c : c = CopyCollectedBy(src)
  OBVIOUS
<1>2. PICK p : p = Again(src, IF Head(Arrived(src)).op = "START" THEN "RST_START" ELSE "RST")
  OBVIOUS
<1>3. /\ Arrives(src, {"START", "COL"}) /\ keyIdx[c] = 0 /\ SwitchEpoch(src)
      /\ Pass(src, << p >>)
      /\ UNCHANGED <<msgBuf, msgAddr, cq>>
      /\ UNCHANGED <<cmX, cmY, keyIdx, keyBuf, epochData>>
      /\ UNCHANGED <<pc, msgHead, msgTail, overflowKeys, inserted>>
  BY <1>1, <1>2 DEF CollectNothing, SendNothing, sketchVars, controllerVars
<1>4. Arrived(src) # <<>> /\ Head(Arrived(src)).op \in {"START", "COL"}
  BY <1>3 DEF Arrives
<1>5. hostQ' = IF src = "host" THEN Tail(hostQ) ELSE hostQ
  BY <1>3 DEF Pass
<1>6. Asked' = Asked /\ KeysOf(mirrorQ, "KEY") \subseteq KeysOf(mirrorQ, "KEY")'
  <2>2. p \in Mirrored
    BY <1>2, <1>4, AgainIs DEF KeylessOps
  <2>3. Head(Arrived(src)).op \notin {"QRY_KEY", "KEY"}
    BY <1>4
  <2> QED
    BY <1>3, <1>4, <2>2, <2>3, PassedKeys
<1>7. SlotsKnown'
  BY <1>3, <1>6, SlotsKnownLast
<1>8. /\ UnreadSlots' = UnreadSlots /\ Told' = Told /\ Reported' = Reported
      /\ \A s \in UnreadSlots' :
           msgBuf'[s].op = "KEYVAL" => s \in UnreadSlots /\ msgBuf'[s] = msgBuf[s]
  BY <1>3, TextUntouched
<1>9. CASE Head(Arrived(src)).op = "START"
  <2>1. ColCopy' = c /\ pc \in {"waitVals", "recvVals"} /\ "START" \notin Ops(hostQ)'
    BY <1>1, <1>3, <1>5, <1>9, CollectReady
  <2>2. /\ \A j \in Stored(c) \cup Asked : CmRead(c, j) = closed'[j]
        /\ \A s \in UnreadSlots : msgBuf[s].op = "KEYVAL" => msgBuf[s].val = closed'[msgBuf[s].key]
        /\ \A j \in Keys : epochData[j] = closed'[j] \/ j \in Stored(c) \cup Asked \cup Told
        /\ KeysAccounted'
    <3>1. UNCHANGED <<keyBuf, overflowKeys, pc>> /\ \A d \in Copies \ {c} : keyIdx'[d] = keyIdx[d]
      BY <1>3
    <3> QED
      BY <1>1, <1>3, <1>5, <1>6, <1>9, <3>1, CollectClosed
  <2>3. Stored(ColCopy)' = Stored(c) /\ \A j : CmRead(ColCopy, j)' = CmRead(c, j)
    BY <1>3, <2>1 DEF Stored, CmRead
  <2>4. ValuesRight'
    BY <1>3, <1>6, <1>8, <2>1, <2>2, <2>3 DEF ValuesRight
  <2> QED
    BY <1>7, <2>2, <2>4
<1>10. CASE Head(Arrived(src)).op # "START"
  <2>1. epoch' = epoch /\ Head(Arrived(src)).op = "COL"
    BY <1>3, <1>4, <1>10 DEF SwitchEpoch
  <2>2. UNCHANGED <<closed, seen, newKeys>>
    BY <2>1 DEF CloseSubWindow
  <2>3. /\ ColCopy' = ColCopy /\ Stored(ColCopy)' = Stored(ColCopy) /\ Overflowing' = Overflowing
        /\ \A j : CmRead(ColCopy, j)' = CmRead(ColCopy, j)
    BY <1>3, <2>1, <2>2 DEF ColCopy, ActiveCopy, Stored, Overflowing, CmRead
  <2>4. "START" \in Ops(hostQ)' <=> "START" \in Ops(hostQ)
    <3>1. CASE src = "host"
      <4>1. hostQ # <<>> /\ hostQ' = Tail(hostQ) /\ Head(hostQ).op # "START"
        BY <1>4, <1>5, <1>10, <3>1 DEF Arrived
      <4>2. Ops(hostQ) = Ops(Tail(hostQ)) \cup {Head(hostQ).op}
        BY <4>1, OpsOfTail DEF TypeOK, WireTypeOK
      <4> QED
        BY <4>1, <4>2
    <3>2. CASE src # "host"
      BY <1>5, <3>2
    <3> QED
      BY <3>1, <3>2
  <2>5. \A j : Known(j) => Known(j)'
    BY <1>3, <1>6, <1>8, <2>4 DEF Known, ToAsk
  <2>6. KeysAccounted'
    BY <1>3, <1>6, <2>2, <2>3, <2>4, <2>5, KeysAccountedLast
  <2>7. ValuesRight'
    BY <1>3, <1>6, <1>8, <2>2, <2>3, <2>4, ValuesLast
  <2> QED
    BY <1>7, <2>6, <2>7
<1> QED
  BY <1>9, <1>10

-----------------------------------------------------------------------------
(***************************************************************************)
(* The controller.                                                         *)
(***************************************************************************)

(* With no unread message but DONE no key is told of.                      *)
LEMMA OnlyDones ==
  ASSUME TypeOK, NEW d \in Nat, Dones(d), Behind = d
  PROVE  Told = {} /\ Reported = {} /\ \A s \in UnreadSlots : msgBuf[s].op = "DONE"
<1>1. \A s \in UnreadSlots : Off(s) \in 0 .. MSGS - 1
  BY DistIs DEF TypeOK, ControllerTypeOK, UnreadSlots, Off
<1>2. \A s \in UnreadSlots : msgBuf[s].op = "DONE"
  BY <1>1, WireAssumption DEF Dones
<1> QED
  BY <1>2 DEF Told, Reported

(* A step of the controller that notes no key and forgets none.            *)
LEMMA KeysRest ==
  ASSUME KeysAccounted,
         UNCHANGED <<hostQ, mirrorQ, msgBuf, epoch, keyIdx, keyBuf, newKeys, overflowKeys>>,
         pc # "recvKeys", pc' # "recvKeys", Reported \subseteq Reported'
  PROVE  KeysAccounted'
<1>1. Asked' = Asked /\ Overflowing' = Overflowing /\ ToAsk' = ToAsk
  BY DEF Asked, Overflowing, Stored, ActiveCopy, ToAsk
<1>2. \A k : Known(k) => Known(k)'
  BY <1>1 DEF Known
<1> QED
  BY <1>1, <1>2 DEF KeysAccounted

(* switchWin begins with no key to query and with every slot zero.         *)
LEMMA StartSwitchAccounts ==
  ASSUME InStep, Accounts, NEW m \in Request, m.op = "PUSH", StartSwitchSending(m)
  PROVE  Accounts'
<1> USE DEF InStep, Accounts
<1>1. /\ pc = "idle" /\ pc' = "recvKeys" /\ hostQ' = Append(hostQ, m) /\ overflowKeys' = <<>>
      /\ UNCHANGED <<msgBuf, epochData, msgHead, inserted>>
      /\ UNCHANGED <<epoch, keyIdx, keyBuf, msgAddr, mirrorQ, newKeys, closed>>
  BY DEF StartSwitchSending, SwitchWinSending, Goto, switchVars
<1>2. hostQ \in Seq(Packet) /\ hostQ \in Seq(Request)
  BY PacketsOf DEF TypeOK, WireTypeOK
<1>3. m \in Packet /\ m \in Request /\ m.op = "PUSH"
  BY DEF Packet
<1>4. Asked = {} /\ "START" \notin Ops(hostQ)
  BY <1>1, CalmMeans DEF PhaseOK, Cleared
<1>5. hostQ' = hostQ \o << m >>
  BY <1>1, <1>2
<1>6. Asked' = {}
  <2>1. PICK t : t = hostQ \o << m >>
    OBVIOUS
  <2>a. Joined(t, hostQ, << m >>)
    BY <1>2, <1>3, <2>1 DEF Joined
  <2>2. KeysOf(t, "QRY_KEY") = KeysOf(hostQ, "QRY_KEY") \cup KeysOf(<< m >>, "QRY_KEY")
    BY <2>a, KeysOfConcat
  <2>3. KeysOf(<< m >>, "QRY_KEY") = {}
    BY <1>3, KeysOfOne
  <2> QED
    BY <1>4, <1>5, <2>1, <2>2, <2>3 DEF Asked
<1>7. "START" \notin Ops(hostQ)'
  <2>1. Ops(hostQ)' = Ops(hostQ) \cup {"PUSH"}
    BY <1>1, <1>2, <1>3, AppendIs, OpsOfAppend
  <2> QED
    BY <1>4, <2>1
<1>8. ToAsk' = {} /\ Overflowing' = Overflowing
  BY <1>1 DEF ToAsk, Overflowing, Stored, ActiveCopy
<1>9. Reported' = Reported
  BY <1>1, TextUntouched
<1>10. KeysAccounted'
  <2>1. \A k : Known(k) => Known(k)'
    BY <1>1, <1>4, <1>9 DEF Known
  <2> QED
    BY <1>1, <1>6, <1>7, <1>8, <2>1 DEF KeysAccounted
<1>11. SlotsKnown'
  BY <1>1, <1>6, <1>8 DEF SlotsKnown
<1>12. ValuesRight'
  BY <1>1, <1>7 DEF ValuesRight
<1> QED
  BY <1>10, <1>11, <1>12

(* recvKeys notes the key of a report.                                     *)
LEMMA RecvKeyAccounts ==
  ASSUME InStep, Accounts, RecvKey, UNCHANGED <<switchVars, historyVars>>
  PROVE  Accounts'
<1> USE DEF InStep, Accounts
<1>1. PICK k : k = FirstMsg.key
  OBVIOUS
<1>2. /\ pc = "recvKeys" /\ pc' = pc /\ FirstMsg.op # "DONE" /\ NextMsg
      /\ inserted' = inserted \cup {k} /\ overflowKeys' = Append(overflowKeys, k)
      /\ UNCHANGED <<hostQ, msgBuf, epochData>>
      /\ UNCHANGED <<epoch, keyIdx, keyBuf, msgAddr, mirrorQ, newKeys, closed>>
  BY <1>1 DEF RecvKey, switchVars, historyVars
<1>3. UnreadSlots' = UnreadSlots \ {msgHead} /\ msgHead \in UnreadSlots
  BY <1>2, NextMsgKeepsRing
<1>4. Cleared /\ Kind("KEY")
  BY <1>2 DEF PhaseOK
<1>5. msgHead \in Reported /\ k \in Keys /\ k \in Overflowing
  BY <1>1, <1>2, <1>3, <1>4 DEF FirstMsg, Kind, Reported, ReportsOK
<1>6. Asked' = Asked /\ Overflowing' = Overflowing /\ Ops(hostQ)' = Ops(hostQ)
  BY <1>2 DEF Asked, Overflowing, Stored, ActiveCopy
<1>7. "START" \notin Ops(hostQ)
  BY <1>4, CalmMeans DEF Cleared
<1>8. ToAsk' = ToAsk \cup {k}
  <2>1. overflowKeys \in Seq(Keys)
    BY DEF TypeOK, ControllerTypeOK
  <2>2. PICK n \in Nat : n = Len(overflowKeys)
    BY <2>1
  <2>3. /\ Len(overflowKeys') = n + 1 /\ overflowKeys'[n + 1] = k
        /\ \A i \in 1 .. n : overflowKeys'[i] = overflowKeys[i]
    BY <1>2, <1>5, <2>1, <2>2
  <2>4. \A i \in 1 .. n + 1 : i \in 1 .. n \/ i = n + 1
    BY <2>2
  <2>5. n + 1 \in 1 .. n + 1 /\ \A i \in 1 .. n : i \in 1 .. n + 1
    BY <2>2
  <2> QED
    BY <2>2, <2>3, <2>4, <2>5 DEF ToAsk
<1>9. \A j : Known(j) => Known(j)'
  <2>1. \A s \in Reported : s = msgHead \/ s \in Reported'
    BY <1>2, <1>3 DEF Reported
  <2>2. msgBuf[msgHead].key = k
    BY <1>1 DEF FirstMsg
  <2> QED
    BY <1>2, <1>6, <1>8, <2>1, <2>2 DEF Known
<1>10. KeysAccounted'
  <2>1. ~NoOverflow /\ k \in newKeys
    BY <1>5 DEF KeysAccounted, Overflowing
  <2> QED
    BY <1>2, <1>6, <1>7, <1>8, <1>9, <2>1 DEF KeysAccounted
<1>11. SlotsKnown'
  BY <1>2, <1>6, <1>8 DEF SlotsKnown
<1>12. ValuesRight'
  BY <1>2, <1>6 DEF ValuesRight
<1> QED
  BY <1>10, <1>11, <1>12

(* The requests ask for every key that found the buffer full: their        *)
(* reports have all been read before the DONE of the PUSH.                 *)
LEMMA SendRequestsAccounts ==
  ASSUME InStep, Accounts, NEW b, SameRequests(b), SendRequestsLike(b)
  PROVE  Accounts'
<1> USE DEF InStep, Accounts
<1>1. /\ pc = "recvKeys" /\ pc' = "waitVals" /\ FirstMsg.op = "DONE" /\ NextMsg
      /\ hostQ' = hostQ \o b
      /\ UNCHANGED <<msgBuf, epochData, overflowKeys, inserted>>
      /\ UNCHANGED <<epoch, bfX, bfY, keyIdx, keyBuf, cmX, cmY, msgAddr, mirrorQ, newKeys, closed>>
  BY DEF SendRequestsLike, SendRequestsOf, Goto, switchVars, historyVars
<1>2. UnreadSlots' = UnreadSlots \ {msgHead} /\ Behind > 0
  BY <1>1, NextMsgKeepsRing
<1>3. Cleared
  BY <1>1 DEF PhaseOK
<1>4. PICK d \in {0, 1} : Dones(d)
  BY <1>1 DEF PhaseOK
<1>5. Behind = d
  BY <1>1, <1>4, NextMsgCounts
<1>6. Reported = {} /\ \A s \in UnreadSlots : msgBuf[s].op = "DONE"
  BY <1>4, <1>5, OnlyDones
<1>7. Asked = {} /\ Stored(ColCopy) = {} /\ IsClean(ColCopy) /\ "START" \notin Ops(hostQ)
  BY <1>3, CalmMeans DEF Cleared
<1>8. overflowKeys \in Seq(Keys) /\ hostQ \in Seq(Packet) /\ hostQ \in Seq(Request)
  BY PacketsOf DEF TypeOK, ControllerTypeOK, WireTypeOK
<1>9. b \in Seq(Packet) /\ KeysOf(b, "QRY_KEY") = ToAsk
  BY <1>8, KeysOfSame
<1>10. Asked' = ToAsk
  <2>1. PICK t : t = hostQ \o b
    OBVIOUS
  <2>2. KeysOf(t, "QRY_KEY") = KeysOf(hostQ, "QRY_KEY") \cup KeysOf(b, "QRY_KEY")
    <3>1. Joined(t, hostQ, b)
      BY <1>8, <1>9, <2>1 DEF Joined
    <3> QED
      BY <3>1, KeysOfConcat
  <2> QED
    BY <1>1, <1>7, <1>9, <2>1, <2>2 DEF Asked
<1>11. "START" \in Ops(hostQ)'
  <2>1. Len(b) \in Nat /\ Len(b) > 0 /\ b[1].op = "START"
    BY <1>8, <1>9, BatchIsOps
  <2>2. PICK n \in Nat : n = Len(hostQ)
    BY <1>8
  <2>3. Len(hostQ') = n + Len(b) /\ \A i \in n + 1 .. n + Len(b) : hostQ'[i] = b[i - n]
    BY <1>1, <1>8, <1>9, <2>2, ConcatIs
  <2>4. n + 1 \in n + 1 .. n + Len(b) /\ (n + 1) - n = 1 /\ n + 1 \in 1 .. n + Len(b)
    BY <2>1, <2>2
  <2>5. hostQ'[n + 1].op = "START" /\ n + 1 \in 1 .. Len(hostQ')
    BY <2>1, <2>3, <2>4
  <2> QED
    BY <2>5 DEF Ops
<1>12. KeysOf(mirrorQ, "KEY") = {}
  BY <1>1 DEF ReportsOK, Reporting, KeysOf
<1>13. Overflowing' = Overflowing /\ ToAsk' = ToAsk /\ ColCopy' = ColCopy
  BY <1>1 DEF Overflowing, Stored, ActiveCopy, ColCopy, ToAsk
<1>14. KeysAccounted'
  <2>1. \A k \in Overflowing : k \in ToAsk
    BY <1>1, <1>6, <1>7, <1>12 DEF KeysAccounted, Known
  <2>2. \A k \in Overflowing' : Known(k)'
    BY <1>10, <1>11, <1>13, <2>1 DEF Known
  <2> QED
    BY <1>1, <1>10, <1>13, <2>2 DEF KeysAccounted
<1>15. SlotsKnown'
  BY <1>1, <1>10, <1>13 DEF SlotsKnown
<1>16. ValuesRight'
  <2>1. closed' = NoCounts /\ epochData' = NoCounts
    BY <1>1 DEF ValuesRight
  <2>2. Stored(ColCopy)' = {}
    BY <1>1, <1>7, <1>13 DEF Stored
  <2>3. Asked' \subseteq Keys
    BY <1>8, <1>10 DEF ToAsk
  <2>4. \A k \in Keys : CmRead(ColCopy, k)' = 0
    <3>1. \A k \in Keys : CmRead(ColCopy, k) = 0
      BY <1>7, TheCopies, CmReadClean
    <3>2. \A k : CmRead(ColCopy, k)' = CmRead(ColCopy, k)
      BY <1>1, <1>13 DEF CmRead
    <3> QED
      BY <3>1, <3>2
  <2>5. \A k \in Stored(ColCopy)' \cup Asked' : CmRead(ColCopy, k)' = closed'[k]
    BY <2>1, <2>2, <2>3, <2>4 DEF NoCounts
  <2>6. \A s \in UnreadSlots' : msgBuf'[s].op # "KEYVAL"
    BY <1>1, <1>2, <1>6
  <2> QED
    BY <1>1, <2>1, <2>5, <2>6 DEF ValuesRight
<1> QED
  BY <1>14, <1>15, <1>16

(* The first completion has come.                                          *)
LEMMA AwaitValuesAccounts ==
  ASSUME InStep, Accounts, AwaitValues, UNCHANGED <<switchVars, historyVars>>
  PROVE  Accounts'
<1> USE DEF InStep, Accounts
<1>1. /\ pc = "waitVals" /\ pc' = "recvVals"
      /\ UNCHANGED <<hostQ, msgBuf, epochData, msgHead, overflowKeys, inserted>>
      /\ UNCHANGED <<epoch, keyIdx, keyBuf, cmX, cmY, msgAddr, mirrorQ, newKeys, closed>>
  BY DEF AwaitValues, Goto, switchVars, historyVars
<1>2. /\ Asked' = Asked /\ Stored(ColCopy)' = Stored(ColCopy)
      /\ \A k : CmRead(ColCopy, k)' = CmRead(ColCopy, k)
  BY <1>1 DEF Asked, Stored, ColCopy, CmRead
<1>3. UnreadSlots' = UnreadSlots /\ Told' = Told /\ Reported' = Reported
  BY <1>1, TextUntouched
<1>4. KeysAccounted'
  BY <1>1, <1>3, KeysRest
<1>5. SlotsKnown'
  BY <1>1, <1>2, SlotsKnownLast
<1>6. ValuesRight'
  BY <1>1, <1>2, <1>3 DEF ValuesRight
<1> QED
  BY <1>4, <1>5, <1>6

(* recvKeyVals stores the value of a key.                                  *)
LEMMA RecvKeyValAccounts ==
  ASSUME InStep, Accounts, RecvKeyVal, UNCHANGED <<switchVars, historyVars>>
  PROVE  Accounts'
<1> USE DEF InStep, Accounts
<1>1. PICK k : k = FirstMsg.key
  OBVIOUS
<1>2. /\ pc = "recvVals" /\ pc' = pc /\ FirstMsg.op # "DONE" /\ NextMsg
      /\ inserted' = inserted \cup {k}
      /\ epochData' = [epochData EXCEPT ![k] = FirstMsg.val]
      /\ UNCHANGED <<hostQ, msgBuf, overflowKeys>>
      /\ UNCHANGED <<epoch, keyIdx, keyBuf, cmX, cmY, msgAddr, mirrorQ, newKeys, closed>>
  BY <1>1 DEF RecvKeyVal, switchVars, historyVars
<1>3. UnreadSlots' = UnreadSlots \ {msgHead} /\ msgHead \in UnreadSlots /\ Behind > 0
  BY <1>2, NextMsgKeepsRing
<1>4. Kind("KEYVAL")
  BY <1>2 DEF PhaseOK
<1>5. msgBuf[msgHead].op = "KEYVAL" /\ msgBuf[msgHead].key = k /\ k \in Keys
  BY <1>1, <1>2, <1>3, <1>4 DEF FirstMsg, Kind
<1>6. epochData'[k] = closed[k] /\ \A j \in Keys : j # k => epochData'[j] = epochData[j]
  <2>1. FirstMsg.val = closed[k]
    BY <1>2, <1>3, <1>5 DEF ValuesRight, FirstMsg
  <2> QED
    BY <1>2, <1>5, <2>1 DEF TypeOK, WireTypeOK
<1>7. /\ Asked' = Asked /\ Stored(ColCopy)' = Stored(ColCopy) /\ ToAsk' = ToAsk
      /\ \A j : CmRead(ColCopy, j)' = CmRead(ColCopy, j)
  BY <1>2 DEF Asked, Stored, ColCopy, CmRead, ToAsk
<1>8. "START" \notin Ops(hostQ)
  <2> SUFFICES ASSUME "START" \in Ops(hostQ) PROVE FALSE
    OBVIOUS
  <2>1. ~Calm
    BY DEF Calm
  <2>2. Behind = 0
    BY <1>2, <2>1, CollectMeans DEF Collecting
  <2> QED
    BY <1>3, <2>2
<1>9. Reported \subseteq Reported'
  BY <1>2, <1>3, <1>5 DEF Reported
<1>10. Told \subseteq Told' \cup {k}
  BY <1>2, <1>3, <1>5 DEF Told
<1>11. KeysAccounted'
  BY <1>2, <1>9, KeysRest
<1>12. SlotsKnown'
  BY <1>2, <1>6, <1>7 DEF SlotsKnown
<1>13. ValuesRight'
  <2>1. \A j \in Keys : epochData'[j] = closed'[j] \/ j \in Stored(ColCopy)' \cup Asked' \cup Told'
    BY <1>2, <1>6, <1>7, <1>10 DEF ValuesRight
  <2>2. \A s \in UnreadSlots' : msgBuf'[s].op = "KEYVAL" => msgBuf'[s].val = closed'[msgBuf'[s].key]
    BY <1>2, <1>3 DEF ValuesRight
  <2> QED
    BY <1>2, <1>7, <1>8, <2>1, <2>2 DEF ValuesRight
<1> QED
  BY <1>11, <1>12, <1>13

(* With the first DONE of the reset nothing is left to collect or to read: *)
(* every slot holds what was closed.                                       *)
LEMMA RecvKeyValsDoneAccounts ==
  ASSUME InStep, Accounts, RecvKeyValsDone, UNCHANGED <<switchVars, historyVars>>
  PROVE  Accounts'
<1> USE DEF InStep, Accounts
<1>1. /\ pc = "recvVals" /\ pc' = "merge" /\ FirstMsg.op = "DONE" /\ NextMsg
      /\ UNCHANGED <<hostQ, msgBuf, epochData, overflowKeys, inserted>>
      /\ UNCHANGED <<epoch, keyIdx, keyBuf, cmX, cmY, msgAddr, mirrorQ, newKeys, closed>>
  BY DEF RecvKeyValsDone, Goto, switchVars, historyVars
<1>2. PICK d \in {0, 1, 2} : Stage(d) /\ Dones(d)
  BY <1>1 DEF PhaseOK
<1>3. Behind = d /\ d > 0
  BY <1>1, <1>2, NextMsgCounts
<1>4. Told = {} /\ Reported = {}
  BY <1>2, <1>3, OnlyDones
<1>5. Calm
  BY <1>2, <1>3 DEF Stage, Resetting, Cleared
<1>6. Asked = {} /\ Stored(ColCopy) = {} /\ "START" \notin Ops(hostQ)
  BY <1>5, CalmMeans
<1>7. epochData = closed
  <2>1. \A j \in Keys : epochData[j] = closed[j]
    BY <1>1, <1>4, <1>6 DEF ValuesRight
  <2>2. epochData \in [Keys -> Val] /\ closed \in [Keys -> Nat]
    BY DEF TypeOK, WireTypeOK
  <2> QED
    BY <2>1, <2>2
<1>8. KeysAccounted'
  BY <1>1, <1>4, KeysRest
<1>9. SlotsKnown'
  <2>1. Asked' = Asked
    BY <1>1 DEF Asked
  <2> QED
    BY <1>1, <2>1, SlotsKnownLast
<1>10. ValuesRight'
  BY <1>1, <1>6, <1>7 DEF ValuesRight
<1> QED
  BY <1>8, <1>9, <1>10

(* The values have been merged.                                            *)
LEMMA MergeAccounts ==
  ASSUME InStep, Accounts, MergeSubWindow
  PROVE  Accounts'
<1> USE DEF InStep, Accounts
<1>1. /\ pc = "merge" /\ pc' = "recvDone" /\ closed' = NoCounts
      /\ UNCHANGED <<hostQ, msgBuf, epochData, msgHead, overflowKeys, inserted>>
      /\ UNCHANGED <<epoch, keyIdx, keyBuf, msgAddr, mirrorQ, newKeys>>
  BY DEF MergeSubWindow, Merge, Goto, wireVars, switchVars
<1>2. "START" \notin Ops(hostQ)
  <2>1. Calm
    BY <1>1 DEF PhaseOK, Stage, Resetting, Cleared
  <2> QED
    BY <2>1, CalmMeans
<1>3. Reported' = Reported
  BY <1>1, TextUntouched
<1>4. KeysAccounted'
  BY <1>1, <1>3, KeysRest
<1>5. SlotsKnown'
  <2>1. Asked' = Asked
    BY <1>1 DEF Asked
  <2> QED
    BY <1>1, <2>1, SlotsKnownLast
<1>6. ValuesRight'
  BY <1>1, <1>2 DEF ValuesRight
<1> QED
  BY <1>4, <1>5, <1>6

(* recvDone clears every slot that may hold a value.                       *)
LEMMA RecvDoneAccounts ==
  ASSUME InStep, Accounts, RecvDone, UNCHANGED <<switchVars, historyVars>>
  PROVE  Accounts'
<1> USE DEF InStep, Accounts
<1>1. /\ pc = "recvDone" /\ pc' = "idle" /\ NextMsg /\ epochData' = ClearedSlots
      /\ UNCHANGED <<hostQ, msgBuf, overflowKeys, inserted>>
      /\ UNCHANGED <<epoch, keyIdx, keyBuf, msgAddr, mirrorQ, newKeys, closed>>
  BY DEF RecvDone, Goto, switchVars, historyVars
<1>2. PICK d \in {1, 2} : Stage(d) /\ Dones(d - 1) /\ Behind = d - 1
  BY <1>1 DEF PhaseOK
<1>3. Reported = {}
  <2>1. d - 1 \in Nat
    BY <1>2
  <2> QED
    BY <1>2, <2>1, OnlyDones
<1>4. epochData' = NoCounts
  <2>1. \A k \in Keys : ClearedSlots[k] = 0
    BY DEF ClearedSlots, SlotsKnown
  <2> QED
    BY <1>1, <2>1 DEF ClearedSlots, NoCounts
<1>5. KeysAccounted'
  BY <1>1, <1>3, KeysRest
<1>6. SlotsKnown'
  <2>1. Asked' = Asked /\ ToAsk' = ToAsk
    BY <1>1 DEF Asked, ToAsk
  <2> QED
    BY <1>1, <1>4, <2>1 DEF SlotsKnown, NoCounts
<1>7. ValuesRight'
  BY <1>1, <1>4 DEF ValuesRight
<1> QED
  BY <1>5, <1>6, <1>7

(* The controller leaves its loop with nothing owed.                       *)
LEMMA QuitAccounts ==
  ASSUME InStep, Accounts, Quit
  PROVE  Accounts'
<1> USE DEF InStep, Accounts
<1>1. /\ pc = "idle" /\ pc' = "exit"
      /\ UNCHANGED <<hostQ, msgBuf, epochData, msgHead, overflowKeys, inserted>>
      /\ UNCHANGED <<epoch, keyIdx, keyBuf, msgAddr, mirrorQ, newKeys, closed>>
  BY DEF Quit, Exit, Goto, wireVars, switchVars, historyVars
<1>2. Reported' = Reported
  BY <1>1, TextUntouched
<1>3. KeysAccounted'
  BY <1>1, <1>2, KeysRest
<1>4. SlotsKnown'
  <2>1. Asked' = Asked
    BY <1>1 DEF Asked
  <2> QED
    BY <1>1, <2>1, SlotsKnownLast
<1>5. ValuesRight'
  BY <1>1 DEF ValuesRight
<1> QED
  BY <1>3, <1>4, <1>5

-----------------------------------------------------------------------------
(***************************************************************************)
(* The theorems.                                                           *)
(***************************************************************************)

(* At the start nothing is counted, stored or asked for.                   *)
LEMMA InitAccounts ==
  ASSUME Init
  PROVE  Accounts
<1>1. /\ hostQ = <<>> /\ epochData = [k \in Keys |-> 0] /\ pc = "idle" /\ overflowKeys = <<>>
      /\ inserted = InputKeys /\ newKeys = {} /\ closed = NoCounts
  BY DEF Init, WireInit, DataPlaneInit, ControllerInit
<1>2. Asked = {} /\ ToAsk = {} /\ Overflowing = {} /\ "START" \notin Ops(hostQ)
  BY <1>1 DEF Asked, KeysOf, ToAsk, Overflowing, Ops
<1>3. KeysAccounted
  BY <1>1, <1>2 DEF KeysAccounted
<1>4. SlotsKnown
  BY <1>1, <1>2 DEF SlotsKnown
<1>5. ValuesRight
  BY <1>1 DEF ValuesRight, NoCounts
<1> QED
  BY <1>3, <1>4, <1>5 DEF Accounts

(* Every step that loses nothing keeps the accounts.                       *)
LEMMA KeptAccounts ==
  ASSUME Fits, InStep, InStep', Accounts, [KeptNext]_vars
  PROVE  Accounts'
<1>1. CASE \E k \in Keys : Traffic(k)
  BY <1>1, TrafficAccounts
<1>2. ASSUME NEW src \in Sources, Collect(src) PROVE Accounts'
  BY <1>2, CollectKeyAccounts, CollectNothingAccounts DEF Collect
<1>3. ASSUME NEW src \in Sources, Reset(src) PROVE Accounts'
  BY <1>3, ResetAccounts
<1>4. CASE FromHost
  BY <1>2, <1>3, <1>4, QueryAccounts DEF FromHost, Sources
<1>5. CASE FromMirror
  BY <1>2, <1>3, <1>5, ReportAccounts DEF FromMirror, Sources
<1>6. CASE AnyStart
  BY <1>6, StartSwitchAccounts DEF AnyStart
<1>7. CASE AnySend
  BY <1>7, SendRequestsAccounts DEF AnySend
<1>a. CASE Receive
  <2>1. UNCHANGED <<switchVars, historyVars>>
    BY <1>a DEF Receive
  <2>2. CASE SendRequests
    BY <1>7, <2>1, <2>2, PlainSend
  <2> QED
    BY <1>a, <2>1, <2>2, AwaitValuesAccounts, RecvKeyAccounts, RecvKeyValAccounts,
       RecvKeyValsDoneAccounts, RecvDoneAccounts DEF Receive
<1>8. CASE MergeSubWindow
  BY <1>8, MergeAccounts
<1>9. CASE Quit
  BY <1>9, QuitAccounts
<1>11. CASE Stopped \/ UNCHANGED vars
  BY <1>11, StutterAccounts DEF Stopped
<1> QED
  BY <1>1, <1>4, <1>5, <1>6, <1>7, <1>8, <1>9, <1>11, <1>a DEF KeptNext

(* Every step keeps them, if what is lost is not needed.                   *)
LEMMA NextAccounts ==
  ASSUME Fits, Delivered, InStep, InStep', Accounts, [Next]_vars
  PROVE  Accounts'
<1>1. CASE [KeptNext]_vars
  BY <1>1, KeptAccounts
<1>2. CASE Lose
  BY <1>2, LossAccounts
<1> QED
  BY <1>1, <1>2, PlainStart DEF Next, KeptNext

(* The accounts are right throughout: a new key of the open sub-window is  *)
(* stored, reported or noted; a key of the closed one is stored, asked for *)
(* or already in its slot; and no slot is left out of the clearing.        *)
THEOREM AlwaysAccounted == Fits /\ Delivered => (Spec => []Accounts)
<1> SUFFICES ASSUME Fits, Delivered PROVE Spec => []Accounts
  OBVIOUS
<1>1. Init => Accounts
  BY InitAccounts
<1>2. InStep /\ InStep' /\ Accounts /\ [Next]_vars => Accounts'
  BY NextAccounts
<1>3. Spec => []InStep
  BY AlwaysInStep
<1> QED
  BY <1>1, <1>2, <1>3, PTL DEF Spec

(* Switch and controller stay in step and nothing is unaccounted for.      *)
THEOREM Invariant == Fits /\ Delivered => (Spec => []IInv)
  BY AlwaysInStep, AlwaysAccounted, PTL DEF IInv

(* What mergeData adds is what the sketch held for every new key at the    *)
(* instant of the switch, in whatever order values, queries, resets and    *)
(* the traffic of the next sub-window followed.                            *)
THEOREM MergesExactly == Fits /\ Delivered => (Spec => []MergeExact)
<1>1. Accounts => MergeExact
  BY DEF Accounts, ValuesRight, MergeExact
<1> QED
  BY <1>1, AlwaysAccounted, PTL

-----------------------------------------------------------------------------
(***************************************************************************)
(* The sketch of the open sub-window.                                      *)
(***************************************************************************)

(* What leaves the active copy alone leaves it right.                      *)
LEMMA SketchKept ==
  ASSUME SketchRight, FilterRight, UNCHANGED <<seen, newKeys>>, ActiveCopy' = ActiveCopy,
         cmX'[ActiveCopy] = cmX[ActiveCopy], cmY'[ActiveCopy] = cmY[ActiveCopy],
         bfX'[ActiveCopy] = bfX[ActiveCopy], bfY'[ActiveCopy] = bfY[ActiveCopy]
  PROVE  SketchRight' /\ FilterRight'
  BY DEF SketchRight, FilterRight

(* A packet counts in the two cells of its key, and marks them.            *)
LEMMA PacketCountsRound ==
  ASSUME TypeOK, NEW k \in Keys, NormalPacket(k)
  PROVE  /\ ActiveCopy' = ActiveCopy /\ CmMod \in Nat \ {0}
         /\ \A i \in Cell :
              /\ cmX[ActiveCopy][i] \in Val /\ cmY[ActiveCopy][i] \in Val
              /\ cmX'[ActiveCopy][i] = IF i = CmX[k] THEN (cmX[ActiveCopy][i] + 1) % CmMod
                                                    ELSE cmX[ActiveCopy][i]
              /\ cmY'[ActiveCopy][i] = IF i = CmY[k] THEN (cmY[ActiveCopy][i] + 1) % CmMod
                                                    ELSE cmY[ActiveCopy][i]
              /\ bfX'[ActiveCopy][i] = IF i = BfX[k] THEN 1 ELSE bfX[ActiveCopy][i]
              /\ bfY'[ActiveCopy][i] = IF i = BfY[k] THEN 1 ELSE bfY[ActiveCopy][i]
<1>1. ActiveCopy \in Copies
  BY TheCopies
<1>2. /\ BfX[k] \in Cell /\ BfY[k] \in Cell /\ CmX[k] \in Cell /\ CmY[k] \in Cell
      /\ CmMod \in Nat \ {0}
  BY DataPlaneAssumption, WireAssumption
<1>3. /\ bfX \in [Copies -> [Cell -> {0, 1}]] /\ bfY \in [Copies -> [Cell -> {0, 1}]]
      /\ cmX \in [Copies -> [Cell -> Val]] /\ cmY \in [Copies -> [Cell -> Val]]
  BY DEF TypeOK, DataPlaneTypeOK
<1>4. PICK c \in Copies : c = ActiveCopy
  BY <1>1
<1>5. /\ bfX' = [bfX EXCEPT ![c][BfX[k]] = 1] /\ bfY' = [bfY EXCEPT ![c][BfY[k]] = 1]
      /\ cmX' = [cmX EXCEPT ![c][CmX[k]] = (@ + 1) % CmMod]
      /\ cmY' = [cmY EXCEPT ![c][CmY[k]] = (@ + 1) % CmMod]
      /\ epoch' = epoch
  BY <1>4 DEF NormalPacket, MarkCell, CountCell
<1>6. ActiveCopy' = ActiveCopy
  BY <1>5 DEF ActiveCopy
<1>7. \A i \in Cell : cmX[c][i] \in Val /\ cmY[c][i] \in Val
  BY <1>3
<1>8. \A i \in Cell :
         /\ cmX'[c][i] = IF i = CmX[k] THEN (cmX[c][i] + 1) % CmMod ELSE cmX[c][i]
         /\ cmY'[c][i] = IF i = CmY[k] THEN (cmY[c][i] + 1) % CmMod ELSE cmY[c][i]
         /\ bfX'[c][i] = IF i = BfX[k] THEN 1 ELSE bfX[c][i]
         /\ bfY'[c][i] = IF i = BfY[k] THEN 1 ELSE bfY[c][i]
  BY <1>2, <1>3, <1>5
<1> QED
  BY <1>2, <1>4, <1>6, <1>7, <1>8

(* The same in a counter that does not wrap.                               *)
LEMMA PacketCounts ==
  ASSUME TypeOK, RoomToCount, NEW k \in Keys, NormalPacket(k)
  PROVE  /\ ActiveCopy' = ActiveCopy
         /\ \A i \in Cell :
              /\ cmX[ActiveCopy][i] \in Nat /\ cmY[ActiveCopy][i] \in Nat
              /\ cmX'[ActiveCopy][i] = cmX[ActiveCopy][i] + IF i = CmX[k] THEN 1 ELSE 0
              /\ cmY'[ActiveCopy][i] = cmY[ActiveCopy][i] + IF i = CmY[k] THEN 1 ELSE 0
              /\ bfX'[ActiveCopy][i] = IF i = BfX[k] THEN 1 ELSE bfX[ActiveCopy][i]
              /\ bfY'[ActiveCopy][i] = IF i = BfY[k] THEN 1 ELSE bfY[ActiveCopy][i]
<1>1. /\ ActiveCopy' = ActiveCopy /\ CmMod \in Nat \ {0}
      /\ \A i \in Cell :
           /\ cmX[ActiveCopy][i] \in Val /\ cmY[ActiveCopy][i] \in Val
           /\ cmX'[ActiveCopy][i] = IF i = CmX[k] THEN (cmX[ActiveCopy][i] + 1) % CmMod
                                                 ELSE cmX[ActiveCopy][i]
           /\ cmY'[ActiveCopy][i] = IF i = CmY[k] THEN (cmY[ActiveCopy][i] + 1) % CmMod
                                                 ELSE cmY[ActiveCopy][i]
           /\ bfX'[ActiveCopy][i] = IF i = BfX[k] THEN 1 ELSE bfX[ActiveCopy][i]
           /\ bfY'[ActiveCopy][i] = IF i = BfY[k] THEN 1 ELSE bfY[ActiveCopy][i]
  BY PacketCountsRound
<1>2. \A v \in Val : v \in Nat /\ (v < CmMod - 1 => (v + 1) % CmMod = v + 1)
  BY <1>1 DEF Val
<1>3. \A i \in Cell : cmX[ActiveCopy][i] < CmMod - 1 /\ cmY[ActiveCopy][i] < CmMod - 1
  BY DEF RoomToCount
<1>4. ASSUME NEW i \in Cell
      PROVE  /\ cmX[ActiveCopy][i] \in Nat /\ cmY[ActiveCopy][i] \in Nat
             /\ cmX'[ActiveCopy][i] = cmX[ActiveCopy][i] + IF i = CmX[k] THEN 1 ELSE 0
             /\ cmY'[ActiveCopy][i] = cmY[ActiveCopy][i] + IF i = CmY[k] THEN 1 ELSE 0
  BY <1>1, <1>2, <1>3
<1> QED
  BY <1>1, <1>4

(* A packet of the traffic is counted, and its key becomes known.          *)
LEMMA TrafficSketch ==
  ASSUME TypeOK, RoomToCount, SketchRight, FilterRight, NEW k \in Keys, Traffic(k)
  PROVE  SketchRight' /\ FilterRight'
<1>1. /\ NormalPacket(k) /\ seen' = [seen EXCEPT ![k] = @ + 1]
      /\ newKeys' = IF LooksNew(ActiveCopy, k) THEN newKeys \cup {k} ELSE newKeys
  BY DEF Traffic
<1>2. PICK c : c = ActiveCopy
  OBVIOUS
<1>3. /\ ActiveCopy' = c
      /\ \A i \in Cell :
           /\ cmX[c][i] \in Nat /\ cmY[c][i] \in Nat
           /\ cmX'[c][i] = cmX[c][i] + IF i = CmX[k] THEN 1 ELSE 0
           /\ cmY'[c][i] = cmY[c][i] + IF i = CmY[k] THEN 1 ELSE 0
           /\ bfX'[c][i] = IF i = BfX[k] THEN 1 ELSE bfX[c][i]
           /\ bfY'[c][i] = IF i = BfY[k] THEN 1 ELSE bfY[c][i]
  BY <1>1, <1>2, PacketCounts
<1>4. \A j \in Keys : BfX[j] \in Cell /\ BfY[j] \in Cell /\ CmX[j] \in Cell /\ CmY[j] \in Cell
  BY DataPlaneAssumption
<1>5. \A j \in Keys : seen[j] \in Nat /\ seen'[j] = seen[j] + IF j = k THEN 1 ELSE 0
  BY <1>1 DEF TypeOK
<1>6. ASSUME NEW j \in Keys
      PROVE  /\ seen'[j] =< cmX'[c][CmX[j]] /\ seen'[j] =< cmY'[c][CmY[j]]
             /\ Alone(CmX, j) => cmX'[c][CmX[j]] = seen'[j]
             /\ Alone(CmY, j) => cmY'[c][CmY[j]] = seen'[j]
  <2>1. /\ seen[j] =< cmX[c][CmX[j]] /\ seen[j] =< cmY[c][CmY[j]]
        /\ Alone(CmX, j) => cmX[c][CmX[j]] = seen[j]
        /\ Alone(CmY, j) => cmY[c][CmY[j]] = seen[j]
    BY <1>2 DEF SketchRight
  <2>2. /\ Alone(CmX, j) /\ j # k => CmX[j] # CmX[k]
        /\ Alone(CmY, j) /\ j # k => CmY[j] # CmY[k]
    BY DEF Alone
  <2>3. /\ cmX[c][CmX[j]] \in Nat /\ cmY[c][CmY[j]] \in Nat
        /\ cmX'[c][CmX[j]] = cmX[c][CmX[j]] + IF CmX[j] = CmX[k] THEN 1 ELSE 0
        /\ cmY'[c][CmY[j]] = cmY[c][CmY[j]] + IF CmY[j] = CmY[k] THEN 1 ELSE 0
    BY <1>3, <1>4
  <2>4. CASE j = k
    BY <1>5, <2>1, <2>3, <2>4
  <2>5. CASE j # k
    BY <1>5, <2>1, <2>2, <2>3, <2>5
  <2> QED
    BY <2>4, <2>5
<1>7. SketchRight'
  BY <1>3, <1>6 DEF SketchRight
<1>8. ASSUME NEW j \in Keys
      PROVE  /\ Alone(BfX, j) /\ bfX'[c][BfX[j]] # 0 => j \in newKeys'
             /\ Alone(BfY, j) /\ bfY'[c][BfY[j]] # 0 => j \in newKeys'
             /\ seen'[j] > 0 /\ (Alone(BfX, j) \/ Alone(BfY, j)) => j \in newKeys'
  <2>1. /\ Alone(BfX, j) /\ bfX[c][BfX[j]] # 0 => j \in newKeys
        /\ Alone(BfY, j) /\ bfY[c][BfY[j]] # 0 => j \in newKeys
        /\ seen[j] > 0 /\ (Alone(BfX, j) \/ Alone(BfY, j)) => j \in newKeys
    BY <1>2 DEF FilterRight
  <2>2. newKeys \subseteq newKeys'
    BY <1>1
  <2>3. CASE j = k
    <3>1. LooksNew(ActiveCopy, k) => k \in newKeys'
      BY <1>1
    <3>2. ~LooksNew(ActiveCopy, k) => bfX[c][BfX[k]] # 0 /\ bfY[c][BfY[k]] # 0
      BY <1>2 DEF LooksNew
    <3> QED
      BY <2>1, <2>2, <2>3, <3>1, <3>2
  <2>4. CASE j # k
    <3>1. /\ Alone(BfX, j) => BfX[j] # BfX[k]
          /\ Alone(BfY, j) => BfY[j] # BfY[k]
      BY <2>4 DEF Alone
    <3>2. /\ Alone(BfX, j) => bfX'[c][BfX[j]] = bfX[c][BfX[j]]
          /\ Alone(BfY, j) => bfY'[c][BfY[j]] = bfY[c][BfY[j]]
      BY <1>3, <1>4, <3>1
    <3>3. seen'[j] = seen[j]
      BY <1>5, <2>4
    <3> QED
      BY <2>1, <2>2, <3>2, <3>3
  <2> QED
    BY <2>3, <2>4
<1>9. FilterRight'
  BY <1>3, <1>8 DEF FilterRight
<1> QED
  BY <1>7, <1>9

(* A START opens the next sub-window on a copy that is clear.              *)
LEMMA CollectOpens ==
  ASSUME InStep, NEW src \in Sources, Collect(src)
  PROVE  \/ /\ UNCHANGED <<seen, newKeys, closed, bfX, bfY, cmX, cmY>>
            /\ ActiveCopy' = ActiveCopy
         \/ /\ "START" \in Ops(hostQ) /\ seen' = NoCounts
            /\ closed' = [k \in Keys |-> IF k \in newKeys THEN CmRead(ActiveCopy, k) ELSE 0]
            /\ \A i \in Cell : /\ cmX'[ActiveCopy'][i] = 0 /\ cmY'[ActiveCopy'][i] = 0
                              /\ bfX'[ActiveCopy'][i] = 0 /\ bfY'[ActiveCopy'][i] = 0
<1>1. /\ Arrives(src, {"START", "COL"}) /\ SwitchEpoch(src) /\ CloseSubWindow
      /\ hostQ' = IF src = "host" THEN Tail(hostQ) ELSE hostQ
      /\ UNCHANGED <<bfX, bfY, cmX, cmY>>
  BY DEF Collect, CollectKey, CollectNothing, Pass, sketchVars
<1>2. CASE Head(Arrived(src)).op = "START"
  <2>1. PICK c : c = CopyCollectedBy(src)
    OBVIOUS
  <2>2. /\ src = "host" /\ epoch' # epoch /\ ActiveCopy' = ColCopy /\ ColCopy \in Copies
        /\ IsClean(ColCopy)
    BY <1>1, <1>2, <2>1, CollectReady
  <2>3. /\ newKeys' = {} /\ seen' = NoCounts
        /\ closed' = [k \in Keys |-> IF k \in newKeys THEN CmRead(ActiveCopy, k) ELSE 0]
    BY <1>1, <2>2 DEF CloseSubWindow
  <2>4. "START" \in Ops(hostQ)
    <3>1. hostQ # <<>> /\ Head(hostQ).op = "START" /\ hostQ \in Seq(Request)
      BY <1>1, <1>2, <2>2 DEF Arrives, Arrived, InStep, TypeOK, WireTypeOK
    <3>2. Head(hostQ) = hostQ[1] /\ 1 \in 1 .. Len(hostQ)
      BY <3>1, TailIs
    <3> QED
      BY <3>1, <3>2 DEF Ops
  <2>5. \A i \in Cell : /\ cmX'[ActiveCopy'][i] = 0 /\ cmY'[ActiveCopy'][i] = 0
                        /\ bfX'[ActiveCopy'][i] = 0 /\ bfY'[ActiveCopy'][i] = 0
    BY <1>1, <2>2 DEF IsClean
  <2> QED
    BY <2>3, <2>4, <2>5
<1>3. CASE Head(Arrived(src)).op # "START"
  <2>1. epoch' = epoch
    BY <1>1, <1>3 DEF SwitchEpoch
  <2>2. UNCHANGED <<seen, newKeys, closed>> /\ ActiveCopy' = ActiveCopy
    BY <1>1, <2>1 DEF CloseSubWindow, ActiveCopy
  <2> QED
    BY <1>1, <2>2
<1> QED
  BY <1>2, <1>3

LEMMA CollectSketch ==
  ASSUME InStep, SketchRight, FilterRight, NEW src \in Sources, Collect(src)
  PROVE  SketchRight' /\ FilterRight'
<1>1. CASE UNCHANGED <<seen, newKeys, bfX, bfY, cmX, cmY>> /\ ActiveCopy' = ActiveCopy
  BY <1>1, SketchKept
<1>2. CASE /\ seen' = NoCounts
           /\ \A i \in Cell : /\ cmX'[ActiveCopy'][i] = 0 /\ cmY'[ActiveCopy'][i] = 0
                             /\ bfX'[ActiveCopy'][i] = 0 /\ bfY'[ActiveCopy'][i] = 0
  <2>1. \A j \in Keys : /\ cmX'[ActiveCopy'][CmX[j]] = 0 /\ cmY'[ActiveCopy'][CmY[j]] = 0
                        /\ bfX'[ActiveCopy'][BfX[j]] = 0 /\ bfY'[ActiveCopy'][BfY[j]] = 0
                        /\ seen'[j] = 0
    BY <1>2, DataPlaneAssumption DEF NoCounts
  <2> QED
    BY <2>1 DEF SketchRight, FilterRight
<1> QED
  BY <1>1, <1>2, CollectOpens

(* What is neither traffic nor a collect packet leaves the open sub-window *)
(* alone.                                                                  *)
LEMMA OtherKeeps ==
  ASSUME InStep, [AnyNext]_vars, \A k \in Keys : ~Traffic(k), \A src \in Sources : ~Collect(src)
  PROVE  /\ UNCHANGED <<seen, newKeys>> /\ ActiveCopy' = ActiveCopy
         /\ cmX'[ActiveCopy] = cmX[ActiveCopy] /\ cmY'[ActiveCopy] = cmY[ActiveCopy]
         /\ bfX'[ActiveCopy] = bfX[ActiveCopy] /\ bfY'[ActiveCopy] = bfY[ActiveCopy]
<1>1. ASSUME NEW src \in Sources, Reset(src)
      PROVE  /\ UNCHANGED <<seen, newKeys>> /\ ActiveCopy' = ActiveCopy
             /\ cmX'[ActiveCopy] = cmX[ActiveCopy] /\ cmY'[ActiveCopy] = cmY[ActiveCopy]
             /\ bfX'[ActiveCopy] = bfX[ActiveCopy] /\ bfY'[ActiveCopy] = bfY[ActiveCopy]
  <2>1. ResetPacket(src) /\ UNCHANGED <<seen, newKeys>>
    BY <1>1 DEF Reset, historyVars
  <2>2. /\ bfX'[ActiveCopy] = bfX[ActiveCopy] /\ bfY'[ActiveCopy] = bfY[ActiveCopy]
        /\ ActiveCopy' = ActiveCopy
    BY <2>1, ResetClears DEF InStep
  <2>3. cmX'[ActiveCopy] = cmX[ActiveCopy] /\ cmY'[ActiveCopy] = cmY[ActiveCopy]
    <3>1. PICK c \in Copies : c = ColCopy /\ c # ActiveCopy /\ ActiveCopy \in Copies
      BY TheCopies DEF InStep
    <3>2. PICK x : x = ResetIdxGot(Head(Arrived(src)).op)
      OBVIOUS
    <3>3. /\ cmX' = IF x # NDATA THEN [cmX EXCEPT ![c][x] = 0] ELSE cmX
          /\ cmY' = IF x # NDATA THEN [cmY EXCEPT ![c][x] = 0] ELSE cmY
      BY <2>1, <3>1, <3>2 DEF ResetPacket, ClearCell
    <3> QED
      BY <3>1, <3>3 DEF InStep, TypeOK, DataPlaneTypeOK
  <2> QED
    BY <2>1, <2>2, <2>3
<1>2. ASSUME UNCHANGED <<epoch, bfX, bfY, cmX, cmY, seen, newKeys>>
      PROVE  /\ UNCHANGED <<seen, newKeys>> /\ ActiveCopy' = ActiveCopy
             /\ cmX'[ActiveCopy] = cmX[ActiveCopy] /\ cmY'[ActiveCopy] = cmY[ActiveCopy]
             /\ bfX'[ActiveCopy] = bfX[ActiveCopy] /\ bfY'[ActiveCopy] = bfY[ActiveCopy]
  BY <1>2 DEF ActiveCopy
<1>3. CASE \E src \in Sources : Reset(src)
  BY <1>1, <1>3
<1>4. CASE Query \/ ReportOverflow
  BY <1>2, <1>4 DEF Query, QueryKey, ReportOverflow, ReportKey, sketchVars, historyVars
<1>5. CASE StartSwitch \/ Receive \/ MergeSubWindow \/ Quit
  BY <1>2, <1>5 DEF StartSwitch, Receive, MergeSubWindow, Quit, switchVars, historyVars
<1>a. CASE AnyStart \/ AnySend
  BY <1>2, <1>a DEF AnyStart, StartSwitchSending, AnySend, SendRequestsLike, switchVars, historyVars
<1>6. CASE Lose
  BY <1>2, <1>6 DEF Lose, LoseMirrored, switchVars, sketchVars, historyVars
<1>7. CASE Stopped \/ UNCHANGED vars
  BY <1>2, <1>7 DEF Stopped, vars, switchVars, historyVars
<1> QED
  BY <1>3, <1>4, <1>5, <1>6, <1>7, <1>a DEF AnyNext, Next, FromHost, FromMirror, Sources

LEMMA OtherSketch ==
  ASSUME InStep, SketchRight, FilterRight, [AnyNext]_vars,
         \A k \in Keys : ~Traffic(k), \A src \in Sources : ~Collect(src)
  PROVE  SketchRight' /\ FilterRight' /\ UNCHANGED <<seen, newKeys>>
  BY OtherKeeps, SketchKept

(* Where no key collides with all others, the sketch answers with the      *)
(* packets of each key, and every key with a packet is known to be new.    *)
LEMMA SketchIsSeen ==
  ASSUME TypeOK, NoCollision, SketchRight, FilterRight
  PROVE  /\ [k \in Keys |-> CmRead(ActiveCopy, k)] = seen
         /\ [k \in Keys |-> IF k \in newKeys THEN CmRead(ActiveCopy, k) ELSE 0] = seen
<1>1. seen \in [Keys -> Nat]
  BY DEF TypeOK
<1>2. ASSUME NEW k \in Keys PROVE CmRead(ActiveCopy, k) = seen[k] /\ (k \notin newKeys => seen[k] = 0)
  <2>1. /\ cmX[ActiveCopy][CmX[k]] \in Nat /\ cmY[ActiveCopy][CmY[k]] \in Nat /\ seen[k] \in Nat
    BY <1>1, TheCopies, DataPlaneAssumption, WireAssumption DEF TypeOK, DataPlaneTypeOK, Val
  <2>2. CmRead(ActiveCopy, k) = seen[k]
    BY <2>1 DEF NoCollision, SketchRight, CmRead
  <2>3. k \notin newKeys => seen[k] = 0
    BY <2>1 DEF NoCollision, FilterRight
  <2> QED
    BY <2>2, <2>3
<1> QED
  BY <1>1, <1>2

(* A step of the system is a step of the counter that is cut atomically,   *)
(* or none.                                                                *)
LEMMA StepIsAtomic ==
  ASSUME NoCollision, InStep, InStep', Accounts, SketchRight, SketchRight', FilterRight,
         FilterRight', [Next]_vars
  PROVE  Abstract!Next \/ UNCHANGED <<[k \in Keys |-> CmRead(ActiveCopy, k)], closed, mergedData>>
<1>1. PICK s : s = seen
  OBVIOUS
<1>2. /\ [k \in Keys |-> CmRead(ActiveCopy, k)] = seen
      /\ [k \in Keys |-> IF k \in newKeys THEN CmRead(ActiveCopy, k) ELSE 0] = seen
  BY SketchIsSeen DEF InStep
<1>3. ([k \in Keys |-> CmRead(ActiveCopy, k)])' = seen'
  <2>1. (TypeOK /\ NoCollision /\ SketchRight /\ FilterRight)'
          => ([k \in Keys |-> CmRead(ActiveCopy, k)] = seen)'
    BY SketchIsSeen, PTL
  <2>2. NoCollision'
    BY DEF NoCollision, Alone
  <2> QED
    BY <2>1, <2>2 DEF InStep
<1>4. ASSUME UNCHANGED <<seen, closed, mergedData>> PROVE UNCHANGED <<[k \in Keys |-> CmRead(ActiveCopy, k)], closed, mergedData>>
  BY <1>2, <1>3, <1>4
<1>5. ASSUME NEW k \in Keys, Traffic(k) PROVE Abstract!Next
  <2>1. seen' = [seen EXCEPT ![k] = @ + 1] /\ UNCHANGED <<closed, mergedData>>
    BY <1>5 DEF Traffic, controllerVars
  <2>2. Abstract!Count(k)
    BY <1>2, <1>3, <2>1 DEF Abstract!Count
  <2> QED
    BY <2>2 DEF Abstract!Next
<1>6. ASSUME NEW src \in Sources, Collect(src)
      PROVE  Abstract!Next \/ UNCHANGED <<[k \in Keys |-> CmRead(ActiveCopy, k)], closed, mergedData>>
  <2>1. mergedData' = mergedData
    BY <1>6 DEF Collect, controllerVars
  <2>2. \/ UNCHANGED <<seen, newKeys, closed>>
        \/ /\ "START" \in Ops(hostQ) /\ seen' = NoCounts
           /\ closed' = [k \in Keys |-> IF k \in newKeys THEN CmRead(ActiveCopy, k) ELSE 0]
    BY <1>6, CollectOpens
  <2>3. CASE UNCHANGED <<seen, newKeys, closed>>
    BY <1>4, <2>1, <2>3
  <2>4. ASSUME "START" \in Ops(hostQ), seen' = NoCounts,
               closed' = [k \in Keys |-> IF k \in newKeys THEN CmRead(ActiveCopy, k) ELSE 0]
        PROVE  Abstract!Close
    <3>1. closed = NoCounts
      BY <2>4 DEF Accounts, ValuesRight
    <3> QED
      BY <1>2, <1>3, <2>1, <2>4, <3>1 DEF Abstract!Close, Abstract!NoCounts, NoCounts
  <2> QED
    BY <2>2, <2>3, <2>4 DEF Abstract!Next
<1>7. CASE MergeSubWindow
  <2>1. /\ pc = "merge" /\ closed' = NoCounts /\ seen' = seen
        /\ mergedData' = [k \in Keys |-> IF k \in inserted THEN mergedData[k] + epochData[k]
                                                           ELSE mergedData[k]]
    BY <1>7 DEF MergeSubWindow, Merge, Goto
  <2>2. epochData = closed
    BY <2>1 DEF Accounts, ValuesRight
  <2>3. \A k \in Keys : mergedData[k] \in Nat /\ (k \notin inserted => closed[k] = 0)
    BY <2>2 DEF Accounts, SlotsKnown, InStep, TypeOK, ControllerTypeOK
  <2>4. mergedData' = [k \in Keys |-> mergedData[k] + closed[k]]
    BY <2>1, <2>2, <2>3
  <2>5. Abstract!AddClosed
    BY <1>2, <1>3, <2>1, <2>4 DEF Abstract!AddClosed, Abstract!NoCounts, NoCounts
  <2> QED
    BY <2>5 DEF Abstract!Next
<1>8. ASSUME \A k \in Keys : ~Traffic(k), \A src \in Sources : ~Collect(src), ~MergeSubWindow
      PROVE  UNCHANGED <<[k \in Keys |-> CmRead(ActiveCopy, k)], closed, mergedData>>
  <2>1. seen' = seen
    BY <1>8, OtherSketch DEF AnyNext
  <2>2. UNCHANGED <<closed, mergedData>>
    <3>1. CASE \E src \in Sources : Reset(src)
      BY <3>1 DEF Reset, controllerVars, historyVars
    <3>2. CASE Query \/ ReportOverflow \/ Quit \/ Lose
      BY <3>2 DEF Query, ReportOverflow, Quit, Exit, Lose, controllerVars, historyVars
    <3>3. CASE StartSwitch \/ Receive
      BY <3>3 DEF StartSwitch, SwitchWin, SwitchWinSending, Receive, AwaitValues, RecvKey,
                  SendRequests, SendRequestsOf, RecvKeyVal, RecvKeyValsDone, RecvDone, historyVars
    <3>4. CASE Stopped \/ UNCHANGED vars
      BY <3>4 DEF Stopped, vars, controllerVars, historyVars
    <3> QED
      BY <1>8, <3>1, <3>2, <3>3, <3>4 DEF Next, FromHost, FromMirror, Sources
  <2> QED
    BY <1>4, <2>1, <2>2
<1> QED
  BY <1>5, <1>6, <1>7, <1>8

LEMMA NextSketch ==
  ASSUME InStep, RoomToCount, SketchRight, FilterRight, [AnyNext]_vars
  PROVE  SketchRight' /\ FilterRight'
  BY TrafficSketch, CollectSketch, OtherSketch DEF InStep

(* Nothing is counted or marked before the first packet.                   *)
LEMMA InitSketch == Init => SketchRight /\ FilterRight
<1> SUFFICES ASSUME Init PROVE SketchRight /\ FilterRight
  OBVIOUS
<1>1. /\ bfX = Zeros /\ bfY = Zeros /\ cmX = Zeros /\ cmY = Zeros /\ seen = NoCounts
      /\ epoch = 0
  BY DEF Init, DataPlaneInit
<1>2. ActiveCopy \in Copies
  BY <1>1 DEF ActiveCopy, Copy, Copies
<1>3. \A j \in Keys : /\ cmX[ActiveCopy][CmX[j]] = 0 /\ cmY[ActiveCopy][CmY[j]] = 0
                      /\ bfX[ActiveCopy][BfX[j]] = 0 /\ bfY[ActiveCopy][BfY[j]] = 0
                      /\ seen[j] = 0
  BY <1>1, <1>2, DataPlaneAssumption DEF Zeros, NoCounts
<1> QED
  BY <1>3 DEF SketchRight, FilterRight

(* While no counter wraps the sketch of the open sub-window never counts   *)
(* less than a key has sent, and exactly that where the key has a cell of  *)
(* its own: nothing of the reset of the other copy, nor of an earlier      *)
(* sub-window, reaches it.                                                 *)
THEOREM NeverUnderestimates == Fits => (Spec /\ []RoomToCount => [](SketchRight /\ FilterRight))
<1> SUFFICES ASSUME Fits PROVE Spec /\ []RoomToCount => [](SketchRight /\ FilterRight)
  OBVIOUS
<1>1. Init => SketchRight /\ FilterRight
  BY InitSketch
<1>2. InStep /\ RoomToCount /\ (SketchRight /\ FilterRight) /\ [Next]_vars
        => (SketchRight /\ FilterRight)'
  BY NextSketch DEF AnyNext
<1>3. Spec => []InStep
  BY AlwaysInStep
<1> QED
  BY <1>1, <1>2, <1>3, PTL DEF Spec

(* The system is a counter that is cut into sub-windows atomically: while  *)
(* packets keep arriving, none is lost between two sub-windows and none is *)
(* counted in both.                                                        *)
THEOREM SubWindowsAreAtomic ==
  Fits /\ Delivered /\ NoCollision => (Spec /\ []RoomToCount => CutsAtomically)
<1> SUFFICES ASSUME Fits, Delivered, NoCollision PROVE Spec /\ []RoomToCount => CutsAtomically
  OBVIOUS
<1>1. Init => Abstract!Init
  <2> SUFFICES ASSUME Init PROVE Abstract!Init
    OBVIOUS
  <2>1. /\ cmX = Zeros /\ cmY = Zeros /\ closed = NoCounts /\ mergedData = [k \in Keys |-> 0]
    BY DEF Init, DataPlaneInit, ControllerInit
  <2>2. ActiveCopy \in Copies
    BY InitInStep, TheCopies DEF InStep
  <2>3. \A k \in Keys : CmRead(ActiveCopy, k) = 0
    BY <2>1, <2>2, DataPlaneAssumption DEF CmRead, Zeros
  <2> QED
    BY <2>1, <2>3 DEF Abstract!Init, Abstract!NoCounts, NoCounts
<1>2. InStep /\ InStep' /\ Accounts
        /\ (SketchRight /\ FilterRight) /\ (SketchRight /\ FilterRight)' /\ [Next]_vars
        => [Abstract!Next]_<<[k \in Keys |-> CmRead(ActiveCopy, k)], closed, mergedData>>
  <2> SUFFICES ASSUME InStep, InStep', Accounts, SketchRight, FilterRight,
                      SketchRight', FilterRight', [Next]_vars
               PROVE  \/ Abstract!Next
                      \/ UNCHANGED <<[k \in Keys |-> CmRead(ActiveCopy, k)], closed, mergedData>>
    OBVIOUS
  <2> QED
    BY StepIsAtomic
<1>3. Spec => []InStep
  BY AlwaysInStep
<1>4. Spec => []Accounts
  BY AlwaysAccounted
<1>5. Spec /\ []RoomToCount => [](SketchRight /\ FilterRight)
  BY NeverUnderestimates
<1> QED
  BY <1>1, <1>2, <1>3, <1>4, <1>5, PTL DEF Spec, CutsAtomically, Abstract!Safety, Abstract!abstractVars

-----------------------------------------------------------------------------
(***************************************************************************)
(* What a counter counts when keys share it, and when it wraps.            *)
(***************************************************************************)

LEMMA RemainderIs ==
  ASSUME NEW m \in Nat \ {0}, NEW q \in Nat, NEW r \in 0 .. m - 1
  PROVE  (m * q + r) % m = r
  OBVIOUS

(* A counter that wraps counts on as the remainder.                        *)
LEMMA NextRemainder ==
  ASSUME NEW m \in Nat \ {0}, NEW t \in Nat
  PROVE  ((t % m) + 1) % m = (t + 1) % m
<1>1. PICK q \in Nat, r \in 0 .. m - 1 : r = t % m /\ t = m * q + r
  <2>1. t \div m \in Nat /\ t % m \in 0 .. m - 1 /\ t = m * (t \div m) + (t % m)
    OBVIOUS
  <2> QED
    BY <2>1
<1>2. PICK u : u = t + 1
  OBVIOUS
<1>3. CASE r < m - 1
  <2>1. r + 1 \in 0 .. m - 1 /\ u = m * q + (r + 1)
    BY <1>1, <1>2, <1>3
  <2>2. u % m = r + 1 /\ (r + 1) % m = r + 1
    BY <2>1, RemainderIs
  <2> QED
    BY <1>1, <1>2, <2>2
<1>4. CASE r = m - 1
  <2>1. q + 1 \in Nat /\ 0 \in 0 .. m - 1 /\ u = m * (q + 1) + 0
    BY <1>1, <1>2, <1>4
  <2>2. u % m = 0
    BY <2>1, RemainderIs
  <2>3. r + 1 = m /\ m % m = 0
    BY <1>4
  <2>4. (r + 1) % m = 0
    BY <2>3
  <2> QED
    BY <1>1, <1>2, <2>2, <2>4
<1> QED
  BY <1>1, <1>3, <1>4

(* One more of key k is one more of each set of keys that k is in.         *)
LEMMA OneMoreOf ==
  ASSUME IsFiniteSet(Keys), NEW s \in [Keys -> Nat], NEW t \in [Keys -> Nat],
         NEW k \in Keys, \A j \in Keys : t[j] = s[j] + IF j = k THEN 1 ELSE 0,
         NEW S \in SUBSET Keys
  PROVE  /\ Total(Restrict(s, S)) \in Nat
         /\ Total(Restrict(t, S)) = Total(Restrict(s, S)) + IF k \in S THEN 1 ELSE 0
<1>1. PICK g : g = Restrict(s, S)
  OBVIOUS
<1>2. PICK h : h = Restrict(t, S)
  OBVIOUS
<1>3. g = [j \in S |-> s[j]] /\ h = [j \in S |-> t[j]]
  BY <1>1, <1>2 DEF Restrict
<1>4. ASSUME NEW j \in Keys
      PROVE  s[j] \in Nat /\ t[j] \in Nat /\ t[j] = IF j = k THEN s[j] + 1 ELSE s[j]
  <2>1. s[j] \in Nat /\ t[j] \in Nat /\ t[j] = s[j] + IF j = k THEN 1 ELSE 0
    OBVIOUS
  <2> QED
    BY <2>1
<1>5. g \in [S -> Nat] /\ g \in [S -> Int] /\ h \in [S -> Int]
  BY <1>3, <1>4
<1>6. IsFiniteSet(S)
  BY FS_Subset
<1>7. Total(g) \in Nat
  BY <1>5, <1>6, TermsBelowTotal
<1>8. CASE k \in S
  <2>1. g[k] \in Nat /\ h[k] = g[k] + 1 /\ \A j \in S : j # k => h[j] = g[j]
    BY <1>3, <1>4, <1>8
  <2>2. Total(h) = Total(g) - g[k] + h[k]
    BY <1>5, <1>6, <1>8, <2>1, ReplaceOne
  <2> QED
    BY <1>1, <1>2, <1>7, <1>8, <2>1, <2>2
<1>9. CASE k \notin S
  <2>1. h = g
    BY <1>3, <1>4, <1>9
  <2> QED
    BY <1>1, <1>2, <1>7, <1>9, <2>1
<1> QED
  BY <1>8, <1>9

(* Before the first packet of a sub-window every sum is 0.                 *)
LEMMA NoneOf ==
  ASSUME IsFiniteSet(Keys), NEW S \in SUBSET Keys
  PROVE  Total(Restrict(NoCounts, S)) = 0
<1>1. PICK g : g = Restrict(NoCounts, S)
  OBVIOUS
<1>2. g = [j \in S |-> NoCounts[j]]
  BY <1>1 DEF Restrict
<1>3. \A j \in Keys : NoCounts[j] = 0
  BY DEF NoCounts
<1>4. g \in [S -> Int] /\ \A j \in S : g[j] = 0
  BY <1>2, <1>3
<1>5. IsFiniteSet(S)
  BY FS_Subset
<1> QED
  BY <1>1, <1>4, <1>5, TotalOfZeros

LEMMA ZeroRemainder == 0 % CmMod = 0
  BY WireAssumption

LEMMA NextExact ==
  ASSUME InStep, IsFiniteSet(Keys), ActiveSketchExact, [AnyNext]_vars
  PROVE  ActiveSketchExact'
<1>1. ASSUME UNCHANGED seen, ActiveCopy' = ActiveCopy,
             cmX'[ActiveCopy] = cmX[ActiveCopy], cmY'[ActiveCopy] = cmY[ActiveCopy]
      PROVE  ActiveSketchExact'
  BY <1>1 DEF ActiveSketchExact, SeenAt
<1>2. ASSUME NEW k \in Keys, Traffic(k) PROVE ActiveSketchExact'
  <2>1. NormalPacket(k) /\ seen' = [seen EXCEPT ![k] = @ + 1]
    BY <1>2 DEF Traffic
  <2>2. PICK c : c = ActiveCopy
    OBVIOUS
  <2>3. /\ ActiveCopy' = c /\ CmMod \in Nat \ {0}
        /\ \A i \in Cell :
             /\ cmX'[c][i] = IF i = CmX[k] THEN (cmX[c][i] + 1) % CmMod ELSE cmX[c][i]
             /\ cmY'[c][i] = IF i = CmY[k] THEN (cmY[c][i] + 1) % CmMod ELSE cmY[c][i]
    BY <2>1, <2>2, PacketCountsRound DEF InStep
  <2>4. ASSUME NEW i \in Cell
        PROVE  (cmX[c][i] = SeenAt(CmX, i) % CmMod)' /\ (cmY[c][i] = SeenAt(CmY, i) % CmMod)'
    <3>1. cmX[c][i] = SeenAt(CmX, i) % CmMod /\ cmY[c][i] = SeenAt(CmY, i) % CmMod
      BY <2>2 DEF ActiveSketchExact
    <3>2. /\ SeenAt(CmX, i) \in Nat /\ SeenAt(CmY, i) \in Nat
          /\ SeenAt(CmX, i)' = SeenAt(CmX, i) + IF i = CmX[k] THEN 1 ELSE 0
          /\ SeenAt(CmY, i)' = SeenAt(CmY, i) + IF i = CmY[k] THEN 1 ELSE 0
      <4>1. seen \in [Keys -> Nat]
        BY DEF InStep, TypeOK
      <4>2. \A row : {j \in Keys : row[j] = i} \in SUBSET Keys
        OBVIOUS
      <4>3. ASSUME NEW row
            PROVE  /\ SeenAt(row, i) \in Nat
                   /\ SeenAt(row, i)' = SeenAt(row, i) + IF i = row[k] THEN 1 ELSE 0
        <5>1. PICK S \in SUBSET Keys : S = {j \in Keys : row[j] = i}
          BY <4>2
        <5>2. SeenAt(row, i) = Total(Restrict(seen, S)) /\ SeenAt(row, i)' = Total(Restrict(seen', S))
          BY <5>1 DEF SeenAt
        <5>3. k \in S <=> i = row[k]
          BY <5>1
        <5>4. /\ Total(Restrict(seen, S)) \in Nat
              /\ Total(Restrict(seen', S)) = Total(Restrict(seen, S)) + IF k \in S THEN 1 ELSE 0
          <6>1. PICK s, t : s = seen /\ t = seen'
            OBVIOUS
          <6>2. /\ s \in [Keys -> Nat] /\ t \in [Keys -> Nat]
                /\ \A j \in Keys : t[j] = s[j] + IF j = k THEN 1 ELSE 0
            BY <2>1, <4>1, <6>1
          <6>3. /\ Total(Restrict(s, S)) \in Nat
                /\ Total(Restrict(t, S)) = Total(Restrict(s, S)) + IF k \in S THEN 1 ELSE 0
            BY <6>2, OneMoreOf
          <6> QED
            BY <6>1, <6>3
        <5> QED
          BY <5>2, <5>3, <5>4
      <4> QED
        BY <4>3
    <3>3. /\ ((SeenAt(CmX, i) % CmMod) + 1) % CmMod = (SeenAt(CmX, i) + 1) % CmMod
          /\ ((SeenAt(CmY, i) % CmMod) + 1) % CmMod = (SeenAt(CmY, i) + 1) % CmMod
      BY <2>3, <3>2, NextRemainder
    <3> QED
      BY <2>3, <3>1, <3>2, <3>3
  <2> QED
    BY <2>3, <2>4 DEF ActiveSketchExact
<1>3. ASSUME NEW src \in Sources, Collect(src) PROVE ActiveSketchExact'
  <2>1. CASE UNCHANGED <<seen, cmX, cmY>> /\ ActiveCopy' = ActiveCopy
    BY <1>1, <2>1
  <2>2. ASSUME seen' = NoCounts,
               \A i \in Cell : cmX'[ActiveCopy'][i] = 0 /\ cmY'[ActiveCopy'][i] = 0
        PROVE  ActiveSketchExact'
    <3>1. ASSUME NEW row, NEW i PROVE SeenAt(row, i)' = 0
      <4>1. SeenAt(row, i)' = Total(Restrict(NoCounts, {j \in Keys : row[j] = i}))
        BY <2>2 DEF SeenAt
      <4> QED
        BY <4>1, NoneOf
    <3> QED
      BY <2>2, <3>1, ZeroRemainder DEF ActiveSketchExact
  <2> QED
    BY <1>3, <2>1, <2>2, CollectOpens
<1>4. CASE (\A k \in Keys : ~Traffic(k)) /\ (\A src \in Sources : ~Collect(src))
  <2>1. /\ UNCHANGED <<seen, newKeys>> /\ ActiveCopy' = ActiveCopy
        /\ cmX'[ActiveCopy] = cmX[ActiveCopy] /\ cmY'[ActiveCopy] = cmY[ActiveCopy]
    BY <1>4, OtherKeeps
  <2> QED
    BY <1>1, <2>1
<1> QED
  BY <1>2, <1>3, <1>4

(* Each counter that the traffic uses is the number of packets of the open *)
(* sub-window whose keys hash to it, whatever collisions there are and     *)
(* however often it wraps.                                                 *)
THEOREM CountsExactly == Fits => (Spec => []ActiveSketchExact)
<1> SUFFICES ASSUME Fits PROVE Spec => []ActiveSketchExact
  OBVIOUS
<1>1. IsFiniteSet(Keys)
  BY DEF Fits
<1>2. Init => ActiveSketchExact
  <2> SUFFICES ASSUME Init PROVE ActiveSketchExact
    OBVIOUS
  <2>1. cmX = Zeros /\ cmY = Zeros /\ seen = NoCounts
    BY DEF Init, DataPlaneInit
  <2>2. ActiveCopy \in Copies
    BY InitInStep, TheCopies DEF InStep
  <2>3. \A i \in Cell : cmX[ActiveCopy][i] = 0 /\ cmY[ActiveCopy][i] = 0
    BY <2>1, <2>2 DEF Zeros
  <2>4. \A row, i : SeenAt(row, i) = 0
    BY <1>1, <2>1, NoneOf DEF SeenAt
  <2> QED
    BY <2>3, <2>4, ZeroRemainder DEF ActiveSketchExact
<1>3. InStep /\ ActiveSketchExact /\ [Next]_vars => ActiveSketchExact'
  BY <1>1, NextExact DEF AnyNext
<1>4. Spec => []InStep
  BY AlwaysInStep
<1> QED
  BY <1>2, <1>3, <1>4, PTL DEF Spec
=============================================================================

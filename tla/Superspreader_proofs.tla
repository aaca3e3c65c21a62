------------------------ MODULE Superspreader_proofs ------------------------
(***************************************************************************)
(* Proof that the distinct filter of Superspreader counts a pair once, and *)
(* misses none where its hash functions do not collide: whatever was left  *)
(* of an earlier sub-window, the packets that clear a cell of the filter   *)
(* carry the flag of the sub-window that is being reset.                   *)
(***************************************************************************)
EXTENDS SuperspreaderInvariant, OmniWindow_proofs

-----------------------------------------------------------------------------
(***************************************************************************)
(* The queues.                                                             *)
(***************************************************************************)

(* Without its head a queue keeps what followed what.                      *)
LEMMA FollowedTail ==
  ASSUME NEW P, NEW q \in Seq(P), q # <<>>, NEW S, NEW T, NEW t, t = Tail(q)
  PROVE  /\ Followed(q, S, T) => Followed(t, S, T)
         /\ OnlyResets(q) => OnlyResets(t)
<1>1. /\ Len(q) \in Nat /\ Len(t) = Len(q) - 1
      /\ \A i \in 1 .. Len(q) - 1 : t[i] = q[i + 1] /\ i + 1 \in 1 .. Len(q)
  BY TailIs
<1>2. ASSUME Followed(q, S, T), NEW i \in 1 .. Len(q) - 1, t[i] \in S
      PROVE  \E j \in i + 1 .. Len(q) - 1 : t[j] \in T
  <2>1. i + 1 \in 1 .. Len(q) /\ q[i + 1] \in S
    BY <1>1, <1>2
  <2>2. PICK j \in (i + 1) + 1 .. Len(q) : q[j] \in T
    BY <1>2, <2>1 DEF Followed
  <2>3. j - 1 \in i + 1 .. Len(q) - 1 /\ j - 1 \in 1 .. Len(q) - 1 /\ (j - 1) + 1 = j
    BY <1>1, <2>2
  <2> QED
    BY <1>1, <2>2, <2>3
<1>3. OnlyResets(q) => OnlyResets(t)
  BY <1>1 DEF OnlyResets
<1> QED
  BY <1>1, <1>2, <1>3 DEF Followed

(* So does a queue with one packet more that need not be followed.         *)
LEMMA FollowedAppend ==
  ASSUME NEW P, NEW q \in Seq(P), NEW m \in P, NEW S, NEW T, m \notin S, NEW t, Onto(t, q, m)
  PROVE  Followed(q, S, T) \/ m \in T => Followed(t, S, T)
<1>1. /\ Len(q) \in Nat /\ Len(t) = Len(q) + 1 /\ t[Len(q) + 1] = m
      /\ \A i \in 1 .. Len(q) : t[i] = q[i]
  BY AppendIs DEF Onto
<1>2. PICK n \in Nat : n = Len(q)
  BY <1>1
<1>3. \A i \in 1 .. n + 1 : i = n + 1 \/ i \in 1 .. n
  BY <1>2
<1>4. ASSUME NEW i \in 1 .. n PROVE n + 1 \in i + 1 .. n + 1 /\ i + 1 .. n \subseteq i + 1 .. n + 1
                                    /\ i + 1 .. n \subseteq 1 .. n
  BY <1>2
<1>5. ASSUME Followed(q, S, T) \/ m \in T, NEW i \in 1 .. n + 1, t[i] \in S
      PROVE  \E j \in i + 1 .. n + 1 : t[j] \in T
  <2>1. i \in 1 .. n /\ q[i] \in S
    BY <1>1, <1>2, <1>3, <1>5
  <2>2. CASE m \in T
    BY <1>1, <1>2, <1>4, <2>1, <2>2
  <2>3. CASE Followed(q, S, T)
    <3>1. PICK j \in i + 1 .. n : q[j] \in T
      BY <1>2, <2>1, <2>3 DEF Followed
    <3> QED
      BY <1>1, <1>2, <1>4, <2>1, <3>1
  <2> QED
    BY <1>5, <2>2, <2>3
<1> QED
  BY <1>1, <1>2, <1>5 DEF Followed

(* A reset packet, or one with the right flag, may be added.               *)
LEMMA OnlyResetsAppend ==
  ASSUME NEW P, NEW q \in Seq(P), NEW m \in P, m \in Stale => m.op = "RST", OnlyResets(q),
         NEW t, Onto(t, q, m)
  PROVE  OnlyResets(t)
<1>1. /\ Len(q) \in Nat /\ Len(t) = Len(q) + 1 /\ t[Len(q) + 1] = m
      /\ \A i \in 1 .. Len(q) : t[i] = q[i]
  BY AppendIs DEF Onto
<1>2. \A i \in 1 .. Len(q) + 1 : i = Len(q) + 1 \/ i \in 1 .. Len(q)
  BY <1>1
<1> QED
  BY <1>1, <1>2 DEF OnlyResets

(* The flag and what is stale change only with the sub-window.             *)
LEMMA FlagsLast ==
  ASSUME curEpoch' = curEpoch
  PROVE  Oph' = Oph /\ Stale' = Stale
  BY DEF Oph, Stale

(* A step that leaves the queues alone.                                    *)
LEMMA QueuesLast ==
  ASSUME FlagsInOrder, CollectsAhead, UNCHANGED <<hostQ, mirrorQ, keyIdx, epoch>>,
         \/ pc' \in {"idle", "recvKeys", "exit"}
         \/ curEpoch' = curEpoch /\ pc \in {"waitVals", "recvVals", "merge", "recvDone"}
  PROVE  FlagsInOrder' /\ CollectsAhead'
<1>1. CollectsAhead'
  BY DEF CollectsAhead, ColCopy, Followed, Collects, RstStarts
<1>2. CASE pc' \in {"idle", "recvKeys", "exit"}
  BY <1>1, <1>2 DEF FlagsInOrder, FlaggedRequest, FlaggedMirrored
<1>3. CASE curEpoch' = curEpoch /\ pc \in {"waitVals", "recvVals", "merge", "recvDone"}
  <2>1. Stale' = Stale
    BY <1>3, FlagsLast
  <2> QED
    BY <1>1, <1>3, <2>1 DEF FlagsInOrder, OnlyResets, Followed, Ops, FlaggedRequest, FlaggedMirrored
<1> QED
  BY <1>2, <1>3

(* The marks are known while no cell is marked and none becomes clear that *)
(* was not to be.                                                          *)
LEMMA MarksLast ==
  ASSUME MarksKnown, UNCHANGED <<dbfX, dbfY, known, epoch>>,
         \A i \in Cell : Pending(i) => Pending(i)'
  PROVE  MarksKnown'
  BY DEF MarksKnown, MarksIn, ColCopy

LEMMA PendingLasts ==
  ASSUME UNCHANGED <<curEpoch, hostQ, resetIdx>>, NEW i
  PROVE  Pending(i)' = Pending(i)
  BY DEF Pending, Oph, Ops

-----------------------------------------------------------------------------
(***************************************************************************)
(* The steps of the query are steps of OmniWindow, with flagged requests.  *)
(***************************************************************************)

(* The batch is that of every query, and none of it is stale.              *)
LEMMA FlaggedBatchIs ==
  ASSUME overflowKeys \in Seq(Keys)
  PROVE  /\ SameRequests(FlaggedBatch) /\ FlaggedBatch \in Seq(FlaggedRequest)
         /\ \A i \in 1 .. Len(FlaggedBatch) : FlaggedBatch[i] \notin Stale
<1>1. PICK a \in Seq(Request) : a = RequestBatch
  BY BatchIs
<1>a. \A i \in 1 .. Len(a) : a[i] \in Request
  BY <1>1
<1>2. \A r \in Request : /\ Flagged(r) \in Request /\ Flagged(r) \in FlaggedRequest
                         /\ Flagged(r).op = r.op /\ Flagged(r).key = r.key
                         /\ Flagged(r) \notin Stale
  <2> SUFFICES ASSUME NEW r \in Request
               PROVE  /\ Flagged(r) \in Request /\ Flagged(r) \in FlaggedRequest
                      /\ Flagged(r).op = r.op /\ Flagged(r).key = r.key
                      /\ Flagged(r) \notin Stale
    OBVIOUS
  <2>1. PICK f \in BOOLEAN : f = Oph
    BY DEF Oph
  <2>2. /\ r.op \in KeylessOps => r.key = NoKey
        /\ r.op \notin KeylessOps => r.op = "QRY_KEY" /\ r.key \in Keys
        /\ "QRY_KEY" \notin KeylessOps
    BY DEF Request, KeylessOps
  <2>3. PICK g \in BOOLEAN : g = (f /\ r.op # "QRY_KEY")
    OBVIOUS
  <2>4. Flagged(r) = [op |-> r.op, key |-> r.key, rstDistinct |-> g]
    BY <2>1, <2>3 DEF Flagged
  <2>5. CASE r.op \in KeylessOps
    <3>1. g = f
      BY <2>2, <2>3, <2>5
    <3>2. Flagged(r) \in [op : KeylessOps, key : {NoKey}, rstDistinct : BOOLEAN]
      BY <2>2, <2>4, <2>5
    <3>3. Flagged(r) \notin Stale
      BY <2>1, <2>4, <3>1 DEF Stale, WithFlag
    <3>4. Flagged(r) \in Request /\ Flagged(r) \in FlaggedRequest
      BY <3>2 DEF Request, FlaggedRequest, WithFlag
    <3> QED
      BY <2>4, <3>3, <3>4
  <2>6. CASE r.op \notin KeylessOps
    <3>1. r.op = "QRY_KEY" /\ r.key \in Keys /\ (g <=> FALSE)
      BY <2>2, <2>3, <2>6
    <3>2. Flagged(r) = [op |-> "QRY_KEY", key |-> r.key, rstDistinct |-> FALSE]
      BY <2>4, <3>1
    <3>3. [op |-> "QRY_KEY", key |-> r.key, rstDistinct |-> FALSE]
            \in [op : {"QRY_KEY"}, key : Keys, rstDistinct : {FALSE}]
      BY <3>1
    <3>4. Flagged(r) \notin Stale
      BY <3>2 DEF Stale, WithFlag
    <3>5. Flagged(r) \in Request /\ Flagged(r) \in FlaggedRequest
      BY <3>2, <3>3 DEF Request, FlaggedRequest
    <3> QED
      BY <2>4, <3>4, <3>5
  <2> QED
    BY <2>5, <2>6
<1>3. PICK b : b = FlaggedBatch
  OBVIOUS
<1>4. b = [i \in 1 .. Len(a) |-> Flagged(a[i])] /\ Len(a) \in Nat
  BY <1>1, <1>3 DEF FlaggedBatch
<1> HIDE DEF Flagged
<1>5. Len(b) = Len(a) /\ \A i \in 1 .. Len(a) : b[i] = Flagged(a[i])
  BY <1>4
<1>6. b \in Seq(Request) /\ b \in Seq(FlaggedRequest)
  <2>1. \A i \in 1 .. Len(a) : Flagged(a[i]) \in Request /\ Flagged(a[i]) \in FlaggedRequest
    BY <1>2, <1>a
  <2> QED
    BY <1>4, <2>1
<1>7. \A i \in 1 .. Len(b) : b[i].op = a[i].op /\ b[i].key = a[i].key /\ b[i] \notin Stale
  BY <1>2, <1>5, <1>a
<1> QED
  BY <1>1, <1>3, <1>5, <1>6, <1>7 DEF SameRequests

LEMMA PairStep ==
  ASSUME TypeOK, [PairNext]_allVars
  PROVE  [KeptNext]_vars
<1>1. ASSUME NEW p \in Pairs, PairPacket(p) PROVE [KeptNext]_vars
  <2>1. KeyOf[p] \in Keys
    BY SuperspreaderAssumption
  <2> QED
    BY <1>1, <2>1 DEF PairPacket, KeptNext
<1>2. ASSUME NEW src \in Sources, CollectPairs(src) \/ ResetPairs(src) PROVE [KeptNext]_vars
  BY <1>2 DEF CollectPairs, ResetPairs, KeptNext, FromHost, FromMirror, Sources
<1>3. CASE StartPairSwitch
  <2>1. PICK m : m = Flagged(Req("PUSH"))
    OBVIOUS
  <2>2. m \in Request /\ m.op = "PUSH"
    BY <2>1 DEF Flagged, Oph, Req, Request, KeylessOps
  <2> QED
    BY <1>3, <2>1, <2>2 DEF StartPairSwitch, KeptNext, AnyStart, StartSwitchSending
<1>4. CASE ReceivePairs
  <2>1. SameRequests(FlaggedBatch)
    BY FlaggedBatchIs DEF TypeOK, ControllerTypeOK
  <2> QED
    BY <1>4, <2>1 DEF ReceivePairs, KeptNext, AnySend, SendRequestsLike, Receive
<1>5. CASE MergePairs \/ Elsewhere
  BY <1>5 DEF MergePairs, Elsewhere, KeptNext, FromHost, FromMirror
<1>6. CASE UNCHANGED allVars
  BY <1>6 DEF allVars
<1> QED
  BY <1>1, <1>2, <1>3, <1>4, <1>5, <1>6 DEF PairNext

LEMMA KeptIsAny == TypeOK /\ [KeptNext]_vars => [AnyNext]_vars
  BY DEF KeptNext, AnyNext, Next

-----------------------------------------------------------------------------
(***************************************************************************)
(* The passes of the packets of the controller.                            *)
(***************************************************************************)

(* What is at the head of a queue.                                         *)
LEMMA HeadIs ==
  ASSUME FlagsInOrder, NEW src \in Sources, Arrived(src) # <<>>
  PROVE  /\ src = "host" => /\ Head(hostQ) \in FlaggedRequest /\ hostQ \in Seq(FlaggedRequest)
                            /\ hostQ # <<>> /\ Arrived(src) = hostQ
                            /\ Head(hostQ) = hostQ[1] /\ 1 \in 1 .. Len(hostQ)
         /\ src # "host" => /\ Head(mirrorQ) \in FlaggedMirrored /\ mirrorQ \in Seq(FlaggedMirrored)
                            /\ mirrorQ # <<>> /\ Arrived(src) = mirrorQ
                            /\ Head(mirrorQ) = mirrorQ[1] /\ 1 \in 1 .. Len(mirrorQ)
<1>1. hostQ \in Seq(FlaggedRequest) /\ mirrorQ \in Seq(FlaggedMirrored)
  BY DEF FlagsInOrder
<1>2. src = "host" => Arrived(src) = hostQ
  BY DEF Arrived
<1>3. src # "host" => Arrived(src) = mirrorQ
  BY DEF Arrived
<1> QED
  BY <1>1, <1>2, <1>3, TailIs

(* A packet goes round with the flag that it came with.                    *)
LEMMA AgainFlagged ==
  ASSUME FlagsInOrder, NEW src \in Sources, Arrived(src) # <<>>,
         Head(Arrived(src)).op \in KeylessOps
  PROVE  /\ Head(Arrived(src)) \in WithFlag(KeylessOps, BOOLEAN)
         /\ \A op \in KeylessOps :
              /\ Again(src, op) \in FlaggedMirrored /\ Again(src, op).op = op
              /\ Again(src, op) \in WithFlag({op}, BOOLEAN)
              /\ Again(src, op).rstDistinct = Head(Arrived(src)).rstDistinct
<1> DEFINE p == Head(Arrived(src))
<1>1. p \in FlaggedRequest \cup FlaggedMirrored
  BY HeadIs
<1> HIDE DEF p
<1>2. p.op \in KeylessOps
  BY DEF p
<1>3. p \in WithFlag(KeylessOps, BOOLEAN)
  BY <1>1, <1>2 DEF FlaggedRequest, FlaggedMirrored, WithFlag, KeylessOps
<1>4. PICK f \in BOOLEAN : p.rstDistinct = f /\ p.key = NoKey /\ p = [op |-> p.op, key |-> NoKey, rstDistinct |-> f]
  BY <1>3 DEF WithFlag
<1>5. \A op \in KeylessOps : [p EXCEPT !.op = op] = [op |-> op, key |-> NoKey, rstDistinct |-> f]
  BY <1>4
<1>6. \A op \in KeylessOps :
        /\ [op |-> op, key |-> NoKey, rstDistinct |-> f] \in WithFlag({op}, BOOLEAN)
        /\ [op |-> op, key |-> NoKey, rstDistinct |-> f] \in WithFlag(KeylessOps, BOOLEAN)
  BY <1>4 DEF WithFlag
<1>7. \A op \in KeylessOps : Again(src, op) = [op |-> op, key |-> NoKey, rstDistinct |-> f]
  BY <1>5 DEF Again, p
<1> QED
  BY <1>3, <1>4, <1>6, <1>7 DEF p, FlaggedMirrored

(* With the right flag a packet is not stale, whatever it becomes.         *)
LEMMA AgainFresh ==
  ASSUME NEW p \in WithFlag(KeylessOps, BOOLEAN), NEW m \in WithFlag(KeylessOps, BOOLEAN),
         m.rstDistinct = p.rstDistinct,
         p \notin Stale, p.op # "PUSH"
  PROVE  m \notin Stale
  BY DEF WithFlag, Stale, KeylessOps

(* What a stale packet is still about for.                                 *)
LEMMA StaleIsIdle ==
  ASSUME InStep, FlagsInOrder, CollectsAhead, NEW src \in Sources, Arrived(src) # <<>>,
         Head(Arrived(src)) \in Stale, pc \in {"waitVals", "recvVals", "merge", "recvDone"}
  PROVE  resetIdx \in {NDATA, RSTIDX_MID} /\ Head(Arrived(src)).op = "RST"
<1> USE DEF InStep
<1>0. CASE ~Calm
  <2>1. resetIdx \in {NDATA, RSTIDX_MID}
    BY <1>0, CollectMeans DEF Collecting
  <2>2. Head(Arrived(src)).op = "RST"
    BY HeadIs DEF FlagsInOrder, OnlyResets
  <2> QED
    BY <2>1, <2>2
<1>1. CASE src = "host"
  <2>1. PICK j \in 1 + 1 .. Len(hostQ) : hostQ[j] \in Starts
    BY <1>1, HeadIs DEF FlagsInOrder, Followed
  <2>2. j \in 1 .. Len(hostQ) /\ hostQ[j].op = "START"
    BY <2>1 DEF Starts, WithFlag
  <2>3. "START" \in Ops(hostQ)
    BY <2>2 DEF Ops
  <2> QED
    BY <1>0, <2>3 DEF Calm
<1>2. CASE src # "host" /\ "START" \in Ops(hostQ)
  BY <1>0, <1>2 DEF Calm
<1>3. CASE src # "host" /\ Followed(mirrorQ, Stale, Collects \cup RstStarts)
  <2>1. PICK j \in 1 + 1 .. Len(mirrorQ) : mirrorQ[j] \in Collects \cup RstStarts
    BY <1>3, HeadIs DEF Followed
  <2>2. j \in 1 .. Len(mirrorQ)
    BY <2>1
  <2>3. CASE mirrorQ[j] \in RstStarts
    <3>1. "RST_START" \in Ops(mirrorQ)
      BY <2>2, <2>3 DEF Ops, RstStarts, WithFlag
    <3> QED
      BY <1>0, <3>1 DEF Calm
  <2>4. CASE mirrorQ[j] \in Collects /\ keyIdx[ColCopy] # 0
    BY <1>0, <2>4 DEF Calm
  <2>5. CASE mirrorQ[j] \in Collects /\ Followed(mirrorQ, Collects, RstStarts)
    <3>1. PICK l \in j + 1 .. Len(mirrorQ) : mirrorQ[l] \in RstStarts
      BY <2>2, <2>5 DEF Followed
    <3>2. l \in 1 .. Len(mirrorQ)
      BY <2>2, <3>1
    <3>3. "RST_START" \in Ops(mirrorQ)
      BY <3>1, <3>2 DEF Ops, RstStarts, WithFlag
    <3> QED
      BY <1>0, <3>3 DEF Calm
  <2> QED
    BY <2>1, <2>3, <2>4, <2>5 DEF CollectsAhead
<1> QED
  BY <1>1, <1>2, <1>3 DEF FlagsInOrder

(* A START that is on the link stays while another request leaves it.      *)
LEMMA StartStays ==
  ASSUME InStep, NEW src \in Sources, Arrived(src) # <<>>, Head(Arrived(src)).op # "START",
         hostQ' = IF src = "host" THEN Tail(hostQ) ELSE hostQ
  PROVE  "START" \in Ops(hostQ) => "START" \in Ops(hostQ)'
<1>1. CASE src = "host"
  <2>1. hostQ # <<>> /\ hostQ' = Tail(hostQ) /\ Head(hostQ).op # "START"
    BY <1>1 DEF Arrived
  <2>2. Ops(hostQ) = Ops(hostQ') \cup {Head(hostQ).op}
    BY <2>1, RequestLeaves DEF InStep
  <2> QED
    BY <2>1, <2>2
<1>2. CASE src # "host"
  BY <1>2 DEF Ops
<1> QED
  BY <1>1, <1>2

(* A pass keeps the order of what is stale, unless a stale packet goes     *)
(* round.                                                                  *)
LEMMA PassInOrder ==
  ASSUME InStep, FlagsInOrder, NEW src \in Sources, Arrived(src) # <<>>,
         NEW m \in FlaggedMirrored, NEW out \in {<<>>, << m >>}, Pass(src, out),
         UNCHANGED <<pc, curEpoch>>,
         out = << m >> /\ pc \in {"waitVals", "recvVals", "merge", "recvDone"} => m \notin Stale,
         Head(Arrived(src)).op = "START" => out = << m >> /\ m \in Collects \cup RstStarts
  PROVE  /\ FlagsInOrder'
         /\ Followed(mirrorQ, Collects, RstStarts) /\ (out = << m >> => m \notin Collects) =>
              Followed(mirrorQ', Collects, RstStarts)
         /\ out = << m >> /\ m \in RstStarts => Followed(mirrorQ', Collects, RstStarts)
<1>1. hostQ \in Seq(FlaggedRequest) /\ mirrorQ \in Seq(FlaggedMirrored)
  BY DEF FlagsInOrder
<1>2. Stale' = Stale
  BY FlagsLast
<1>3. /\ hostQ' \in Seq(FlaggedRequest)
      /\ OnlyResets(hostQ) => OnlyResets(hostQ')
      /\ Followed(hostQ, Stale, Starts) => Followed(hostQ', Stale, Starts)
  <2>1. CASE src = "host"
    <3>1. hostQ # <<>> /\ hostQ' = Tail(hostQ)
      BY <2>1, HeadIs DEF Pass
    <3> QED
      BY <1>1, <3>1, FollowedTail, TailIs
  <2>2. CASE src # "host"
    BY <1>1, <2>2 DEF Pass
  <2> QED
    BY <2>1, <2>2
<1>4. PICK q : q = IF src = "mirror" THEN Tail(mirrorQ) ELSE mirrorQ
  OBVIOUS
<1>5. /\ q \in Seq(FlaggedMirrored)
      /\ OnlyResets(mirrorQ) => OnlyResets(q)
      /\ \A S, T : Followed(mirrorQ, S, T) => Followed(q, S, T)
  <2>1. CASE src = "mirror"
    <3>1. mirrorQ # <<>> /\ q = Tail(mirrorQ)
      BY <1>4, <2>1, HeadIs
    <3> QED
      BY <1>1, <3>1, FollowedTail, TailIs
  <2>2. CASE src # "mirror"
    BY <1>1, <1>4, <2>2
  <2> QED
    BY <2>1, <2>2
<1>6. mirrorQ' = q \o out
  BY <1>4 DEF Pass
<1>7. ASSUME out = << m >>
      PROVE  /\ mirrorQ' \in Seq(FlaggedMirrored)
             /\ (m \in Stale => m.op = "RST") /\ OnlyResets(q) => OnlyResets(mirrorQ')
             /\ \A S, T : m \notin S /\ (m \in T \/ Followed(q, S, T)) => Followed(mirrorQ', S, T)
  <2>1. PICK t : t = mirrorQ'
    OBVIOUS
  <2>2. Onto(t, q, m) /\ t \in Seq(FlaggedMirrored)
    <3>1. q \o << m >> = Append(q, m) /\ Append(q, m) \in Seq(FlaggedMirrored)
      BY <1>5, AppendIs
    <3>2. t = q \o << m >>
      BY <1>6, <1>7, <2>1
    <3> QED
      BY <3>1, <3>2 DEF Onto
  <2>3. \A S, T : m \notin S /\ (m \in T \/ Followed(q, S, T)) => Followed(t, S, T)
    BY <1>5, <2>2, FollowedAppend
  <2>4. (m \in Stale => m.op = "RST") /\ OnlyResets(q) => OnlyResets(t)
    BY <1>5, <2>2, OnlyResetsAppend
  <2> QED
    BY <2>1, <2>2, <2>3, <2>4
<1>8. out = <<>> => mirrorQ' = q
  BY <1>5, <1>6
<1>9. mirrorQ' \in Seq(FlaggedMirrored)
  BY <1>5, <1>7, <1>8
<1>10. ASSUME pc \in {"waitVals", "recvVals", "merge", "recvDone"}
       PROVE  /\ OnlyResets(hostQ') /\ Followed(hostQ', Stale, Starts)
              /\ OnlyResets(mirrorQ')
              /\ "START" \in Ops(hostQ)' \/ Followed(mirrorQ', Stale, Collects \cup RstStarts)
  <2>1. /\ OnlyResets(hostQ) /\ Followed(hostQ, Stale, Starts) /\ OnlyResets(mirrorQ)
        /\ "START" \in Ops(hostQ) \/ Followed(mirrorQ, Stale, Collects \cup RstStarts)
    BY <1>10 DEF FlagsInOrder
  <2>2. out = << m >> => m \notin Stale
    BY <1>10
  <2>3. OnlyResets(mirrorQ')
    BY <1>5, <1>7, <1>8, <2>1, <2>2
  <2>4. CASE Head(Arrived(src)).op = "START"
    BY <1>3, <1>7, <2>1, <2>2, <2>3, <2>4
  <2>5. CASE Head(Arrived(src)).op # "START" /\ "START" \in Ops(hostQ)
    <3>1. "START" \in Ops(hostQ)'
      BY <2>5, StartStays DEF Pass
    <3> QED
      BY <1>3, <2>1, <2>3, <3>1
  <2>6. CASE Followed(mirrorQ, Stale, Collects \cup RstStarts)
    BY <1>3, <1>5, <1>7, <1>8, <2>1, <2>2, <2>3, <2>6
  <2> QED
    BY <2>1, <2>4, <2>5, <2>6
<1>11. FlagsInOrder'
  <2>1. OnlyResets(hostQ)' = OnlyResets(hostQ') /\ OnlyResets(mirrorQ)' = OnlyResets(mirrorQ')
    BY <1>2 DEF OnlyResets
  <2> QED
    BY <1>2, <1>3, <1>9, <1>10, <2>1 DEF FlagsInOrder, FlaggedRequest, FlaggedMirrored, Followed,
       Collects, RstStarts, Starts, OnlyResets
<1>12. RstStarts \cap Collects = {}
  BY DEF RstStarts, Collects, WithFlag
<1> QED
  BY <1>5, <1>7, <1>8, <1>11, <1>12

-----------------------------------------------------------------------------
(***************************************************************************)
(* The steps of the switch.                                                *)
(***************************************************************************)

(* A row in which one cell has another value.                              *)
IsRow(row) == row \in [Copies -> [Cell -> {0, 1}]]

Sets(new, row, c, i, v) ==
  /\ IsRow(new)
  /\ \A d \in Copies \ {c} : new[d] = row[d]
  /\ new[c][i] = v /\ \A j \in Cell \ {i} : new[c][j] = row[c][j]

LEMMA MarkIs ==
  ASSUME NEW row, IsRow(row), NEW c \in Copies, NEW i \in Cell, NEW new, new = MarkCell(row, c, i)
  PROVE  Sets(new, row, c, i, 1)
  BY DEF MarkCell, IsRow, Sets

LEMMA ClearIs ==
  ASSUME NEW row, IsRow(row), NEW c \in Copies, NEW i \in Cell, NEW new, new = ClearCell(row, c, i)
  PROVE  Sets(new, row, c, i, 0)
  BY DEF ClearCell, IsRow, Sets

(* Every mark is known, in a row that is given by its value.               *)
Explained(row, hash, known1, col, pending) ==
  \A c \in Copies : \A i \in Cell :
    row[c][i] # 0 => \/ \E p \in known1[c] : hash[p] = i
                     \/ c = col /\ i \in pending

LEMMA MarksAreExplained ==
  MarksKnown <=> LET u == {i \in Cell : Pending(i)}
                 IN  Explained(dbfX, DbfX, known, ColCopy, u) /\ Explained(dbfY, DbfY, known, ColCopy, u)
  BY DEF MarksKnown, MarksIn, Explained

(* A packet marks its cell and is known.                                   *)
Learns(k1, k, a, p) ==
  /\ k \in [Copies -> SUBSET Pairs]
  /\ k1 = [k EXCEPT ![a] = @ \cup {p}]

LEMMA RowMarked ==
  ASSUME NEW p \in Pairs, NEW hash, NEW row, NEW new, NEW a \in Copies,
         Sets(new, row, a, hash[p], 1),
         NEW k, NEW k1, Learns(k1, k, a, p),
         NEW col, NEW u, NEW u1, u \subseteq u1, Explained(row, hash, k, col, u)
  PROVE  Explained(new, hash, k1, col, u1)
<1>1. \A c \in Copies : k[c] \subseteq k1[c]
  BY DEF Learns
<1>2. p \in k1[a]
  BY DEF Learns
<1>3. ASSUME NEW c \in Copies, NEW i \in Cell, new[c][i] # 0
      PROVE  (\E q \in k1[c] : hash[q] = i) \/ (c = col /\ i \in u1)
  <2>1. CASE c = a /\ i = hash[p]
    BY <1>2, <2>1
  <2>2. CASE ~(c = a /\ i = hash[p])
    <3>1. row[c][i] # 0
      BY <1>3, <2>2 DEF Sets
    <3>2. (\E q \in k[c] : hash[q] = i) \/ (c = col /\ i \in u)
      BY <3>1 DEF Explained
    <3> QED
      BY <1>1, <3>2
  <2> QED
    BY <2>1, <2>2
<1> QED
  BY <1>3 DEF Explained

(* A packet of the traffic, counted or not, disturbs neither the queues of *)
(* requests nor what is known of the marks.                                *)
LEMMA PairPacketInStep ==
  ASSUME InStep, InStep', PairsInStep, NEW p \in Pairs, PairPacket(p)
  PROVE  PairsInStep'
<1>0. TypeOK /\ PairTypeOK /\ FlagsInOrder /\ CollectsAhead /\ MarksKnown /\ NoPairTwice
  BY DEF InStep, PairsInStep
<1> DEFINE a == ActiveCopy
<1>1. a \in Copies /\ ColCopy \in Copies /\ ColCopy # a
  BY <1>0, TheCopies
<1>2. DbfX[p] \in Cell /\ DbfY[p] \in Cell /\ DbfX \in [Pairs -> Cell] /\ DbfY \in [Pairs -> Cell]
      /\ KeyOf[p] \in Keys
  BY SuperspreaderAssumption
<1>3. /\ dbfX' = MarkCell(dbfX, a, DbfX[p]) /\ dbfY' = MarkCell(dbfY, a, DbfY[p])
      /\ pairs' = [seen |-> pairs.seen \cup {p},
                   new  |-> IF p \in known[a] THEN pairs.new ELSE pairs.new \cup {p}]
      /\ known' = [known EXCEPT ![a] = @ \cup {p}]
      /\ closedPairs' = closedPairs
      /\ UNCHANGED vars \/ Traffic(KeyOf[p])
  BY DEF PairPacket
<1>4. /\ UNCHANGED <<epoch, hostQ, resetIdx, pc, curEpoch>>
      /\ mirrorQ' = mirrorQ \/ \E k \in Keys : mirrorQ' = Append(mirrorQ, Report(k))
      /\ keyIdx'[ColCopy] = keyIdx[ColCopy]
  <2>1. CASE UNCHANGED vars
    BY <2>1 DEF vars, wireVars, switchVars, controllerVars
  <2>2. CASE Traffic(KeyOf[p])
    <3>1. NormalPacket(KeyOf[p]) /\ UNCHANGED controllerVars
      BY <2>2 DEF Traffic
    <3>2. UNCHANGED <<epoch, hostQ, resetIdx, pc, curEpoch>>
      BY <3>1 DEF NormalPacket, controllerVars, wireVars
    <3>3. keyIdx' = keyIdx \/ keyIdx' = [keyIdx EXCEPT ![a] = @ + 1]
      BY <3>1 DEF NormalPacket
    <3>4. keyIdx'[ColCopy] = keyIdx[ColCopy]
      BY <1>0, <1>1, <3>3 DEF TypeOK, DataPlaneTypeOK
    <3>5. PICK out \in {<<>>, << Report(KeyOf[p]) >>} : mirrorQ' = mirrorQ \o out
      BY <3>1 DEF NormalPacket
    <3>6. mirrorQ \in Seq(Mirrored)
      BY <1>0 DEF TypeOK, DataPlaneTypeOK
    <3>7. mirrorQ' = mirrorQ \/ mirrorQ' = Append(mirrorQ, Report(KeyOf[p]))
      BY <3>5, <3>6
    <3> QED
      BY <1>2, <3>2, <3>4, <3>7
  <2> QED
    BY <1>3, <2>1, <2>2
<1>5. ActiveCopy' = a /\ ColCopy' = ColCopy
  BY <1>4 DEF ActiveCopy, ColCopy
<1> HIDE DEF a
<1>a. Sets(dbfX', dbfX, a, DbfX[p], 1) /\ Sets(dbfY', dbfY, a, DbfY[p], 1)
  <2>1. IsRow(dbfX) /\ IsRow(dbfY)
    BY <1>0 DEF PairTypeOK, IsRow
  <2> QED
    BY <1>1, <1>2, <1>3, <2>1, MarkIs
<1>6. PairTypeOK'
  <2>1. dbfX' \in [Copies -> [Cell -> {0, 1}]] /\ dbfY' \in [Copies -> [Cell -> {0, 1}]]
    BY <1>a DEF Sets, IsRow
  <2>2. known' \in [Copies -> SUBSET Pairs]
    BY <1>0, <1>1, <1>3 DEF PairTypeOK
  <2>3. IsFiniteSet(pairs.seen \cup {p})
    BY <1>0, FS_AddElement DEF PairTypeOK
  <2> QED
    BY <1>0, <1>3, <2>1, <2>2, <2>3 DEF PairTypeOK
<1>7. \A i \in Cell : Pending(i) => Pending(i)'
  BY <1>4, PendingLasts
<1>8. MarksKnown'
  <2>1. PICK u, u1 : u = {i \in Cell : Pending(i)} /\ u1 = {i \in Cell : Pending(i)'}
    OBVIOUS
  <2>2. u \subseteq u1
    BY <1>7, <2>1
  <2>3. /\ Explained(dbfX, DbfX, known, ColCopy, u)
        /\ Explained(dbfY, DbfY, known, ColCopy, u)
    BY <1>0, <2>1, MarksAreExplained
  <2>4. PICK x, y, k1 : x = dbfX' /\ y = dbfY' /\ k1 = known'
    OBVIOUS
  <2>a. Learns(k1, known, a, p) /\ Sets(x, dbfX, a, DbfX[p], 1) /\ Sets(y, dbfY, a, DbfY[p], 1)
    BY <1>0, <1>3, <1>a, <2>4 DEF PairTypeOK, Learns
  <2>b. a \in Copies
    BY <1>1
  <2>5. Explained(x, DbfX, k1, ColCopy, u1)
    BY <2>2, <2>3, <2>a, <2>b, RowMarked
  <2>6. Explained(y, DbfY, k1, ColCopy, u1)
    BY <2>2, <2>3, <2>a, <2>b, RowMarked
  <2> QED
    BY <1>5, <2>1, <2>4, <2>5, <2>6 DEF MarksKnown, MarksIn, Explained
<1>9. NoPairTwice'
  <2>1. /\ dbfX'[a][DbfX[p]] = 1 /\ \A j \in Cell \ {DbfX[p]} : dbfX'[a][j] = dbfX[a][j]
        /\ dbfY'[a][DbfY[p]] = 1 /\ \A j \in Cell \ {DbfY[p]} : dbfY'[a][j] = dbfY[a][j]
    BY <1>a DEF Sets
  <2>2. \A q \in pairs.seen : dbfX[a][DbfX[q]] = 1 /\ dbfY[a][DbfY[q]] = 1
    BY <1>0 DEF NoPairTwice, PairMarked, a
  <2>3. \A q \in pairs.seen \cup {p} : DbfX[q] \in Cell /\ DbfY[q] \in Cell
    BY <1>0, <1>2 DEF PairTypeOK
  <2>4. \A q \in pairs.seen \cup {p} : dbfX'[a][DbfX[q]] = 1 /\ dbfY'[a][DbfY[q]] = 1
    BY <2>1, <2>2, <2>3
  <2>5. pairs'.seen = pairs.seen \cup {p}
    BY <1>3
  <2> QED
    BY <1>5, <2>4, <2>5 DEF NoPairTwice, PairMarked
<1>10. FlagsInOrder' /\ CollectsAhead'
  <2>1. CASE mirrorQ' = mirrorQ
    <3>1. Stale' = Stale
      BY <1>4, FlagsLast
    <3> QED
      BY <1>0, <1>4, <1>5, <2>1, <3>1 DEF FlagsInOrder, CollectsAhead, OnlyResets, Followed, Ops,
         FlaggedRequest, FlaggedMirrored, Collects, RstStarts
  <2>2. ASSUME NEW k \in Keys, mirrorQ' = Append(mirrorQ, Report(k))
        PROVE  FlagsInOrder' /\ CollectsAhead'
    <3>1. PICK m \in FlaggedMirrored : m = Report(k) /\ m.op = "KEY"
      <4>1. Report(k) \in [op : {"KEY"}, key : Keys] /\ Report(k).op = "KEY"
        BY DEF Report
      <4> QED
        BY <4>1 DEF FlaggedMirrored
    <3>2. m \notin Stale /\ m \notin Collects
      BY <3>1 DEF Stale, Collects, WithFlag
    <3>3. mirrorQ \in Seq(FlaggedMirrored)
      BY <1>0 DEF FlagsInOrder
    <3>4. PICK t : t = mirrorQ'
      OBVIOUS
    <3>5. Onto(t, mirrorQ, m) /\ t \in Seq(FlaggedMirrored)
      BY <2>2, <3>1, <3>3, <3>4 DEF Onto
    <3>6. /\ OnlyResets(mirrorQ) => OnlyResets(t)
          /\ \A S, T : m \notin S /\ Followed(mirrorQ, S, T) => Followed(t, S, T)
      BY <3>2, <3>3, <3>5, FollowedAppend, OnlyResetsAppend
    <3>7. Stale' = Stale
      BY <1>4, FlagsLast
    <3>8. CollectsAhead'
      <4>1. Followed(mirrorQ, Collects, RstStarts) => Followed(t, Collects, RstStarts)
        BY <3>2, <3>6
      <4>2. Followed(mirrorQ, Collects, RstStarts)' = Followed(t, Collects, RstStarts)
        BY <3>4 DEF Followed, Collects, RstStarts
      <4>3. keyIdx'[ColCopy'] = keyIdx[ColCopy]
        BY <1>4, <1>5
      <4> QED
        BY <1>0, <4>1, <4>2, <4>3 DEF CollectsAhead
    <3>9. FlagsInOrder'
      <4>1. OnlyResets(mirrorQ)' = OnlyResets(mirrorQ') /\ OnlyResets(hostQ)' = OnlyResets(hostQ)
            /\ Ops(hostQ)' = Ops(hostQ) /\ Followed(hostQ, Stale, Starts)' = Followed(hostQ, Stale, Starts)
            /\ Followed(mirrorQ, Stale, Collects \cup RstStarts)'
                 = Followed(mirrorQ', Stale, Collects \cup RstStarts)
        BY <1>4, <3>7 DEF OnlyResets, Ops, Followed, Starts, Collects, RstStarts
      <4> QED
        BY <1>0, <1>4, <3>2, <3>4, <3>5, <3>6, <4>1 DEF FlagsInOrder, FlaggedRequest, FlaggedMirrored
    <3> QED
      BY <3>8, <3>9
  <2> QED
    BY <1>4, <2>1, <2>2
<1> QED
  BY <1>6, <1>8, <1>9, <1>10 DEF PairsInStep


(* A collect packet goes round with its flag: as RST_START once the last   *)
(* key is taken, as RST after that.                                        *)
LEMMA CollectGoesRound ==
  ASSUME TypeOK, NEW src \in Sources, Collect(src)
  PROVE  /\ Arrived(src) # <<>> /\ Head(Arrived(src)).op \in {"START", "COL"} /\ SwitchEpoch(src)
         /\ hostQ' = IF src = "host" THEN Tail(hostQ) ELSE hostQ
         /\ UNCHANGED <<resetIdx, pc, curEpoch>>
         /\ \E op \in {"COL", "RST_START", "RST"} :
              /\ Pass(src, << Again(src, op) >>)
              /\ op = "RST" => Head(Arrived(src)).op = "COL" /\ keyIdx[ColCopy] = 0 /\ keyIdx' = keyIdx
              /\ op = "COL" => keyIdx'[CopyCollectedBy(src)] # 0
<1>1. /\ Arrives(src, {"START", "COL"}) /\ SwitchEpoch(src) /\ UNCHANGED <<resetIdx, pc, curEpoch>>
      /\ \E op : Pass(src, << Again(src, op) >>)
  BY DEF Collect, CollectKey, CollectNothing, controllerVars
<1>2. Arrived(src) # <<>> /\ Head(Arrived(src)).op \in {"START", "COL"}
  BY <1>1 DEF Arrives
<1>3. hostQ' = IF src = "host" THEN Tail(hostQ) ELSE hostQ
  BY <1>1 DEF Pass
<1> DEFINE c == CopyCollectedBy(src)
<1>4. c \in Copies /\ keyIdx \in [Copies -> 0 .. NKEYS]
  BY TheCopies DEF CopyCollectedBy, TypeOK, DataPlaneTypeOK
<1>5. CASE CollectKey(src)
  <2>1. keyIdx' = [keyIdx EXCEPT ![c] = keyIdx[c] - 1]
        /\ Pass(src, << Again(src, NextCollectOp(keyIdx[c] - 1)) >>)
    BY <1>5 DEF CollectKey
  <2>2. keyIdx'[c] = keyIdx[c] - 1
    BY <1>4, <2>1
  <2>3. CASE keyIdx[c] - 1 = 0
    BY <1>1, <1>2, <1>3, <2>1, <2>3 DEF NextCollectOp
  <2>4. CASE keyIdx[c] - 1 # 0
    BY <1>1, <1>2, <1>3, <2>1, <2>2, <2>4 DEF NextCollectOp
  <2> QED
    BY <2>3, <2>4
<1>6. CASE CollectNothing(src)
  <2>1. keyIdx' = keyIdx /\ keyIdx[c] = 0
    BY <1>6 DEF CollectNothing
  <2>2. CASE Head(Arrived(src)).op = "START"
    <3>1. Pass(src, << Again(src, "RST_START") >>)
      BY <1>6, <2>2 DEF CollectNothing
    <3> QED
      BY <1>1, <1>2, <1>3, <3>1
  <2>3. CASE Head(Arrived(src)).op # "START"
    <3>1. Pass(src, << Again(src, "RST") >>)
      BY <1>6, <2>3 DEF CollectNothing
    <3>2. keyIdx[ColCopy] = 0
      BY <2>1, <2>3 DEF CopyCollectedBy
    <3> QED
      BY <1>1, <1>2, <1>3, <2>1, <2>3, <3>1, <3>2
  <2> QED
    BY <2>2, <2>3
<1> QED
  BY <1>5, <1>6 DEF Collect

(* It leaves the queues in order.                                          *)
LEMMA CollectQueues ==
  ASSUME InStep, PairsInStep, NEW src \in Sources, Collect(src)
  PROVE  /\ FlagsInOrder' /\ CollectsAhead'
         /\ Head(Arrived(src)).op = "START" => Head(Arrived(src)).rstDistinct = Oph
<1> USE DEF InStep
<1>0. FlagsInOrder /\ CollectsAhead
  BY DEF PairsInStep
<1>1. /\ Arrived(src) # <<>> /\ Head(Arrived(src)).op \in {"START", "COL"} /\ SwitchEpoch(src)
      /\ hostQ' = IF src = "host" THEN Tail(hostQ) ELSE hostQ
      /\ UNCHANGED <<resetIdx, pc, curEpoch>>
  BY CollectGoesRound
<1>2. PICK op \in {"COL", "RST_START", "RST"} :
        /\ Pass(src, << Again(src, op) >>)
        /\ op = "RST" => Head(Arrived(src)).op = "COL" /\ keyIdx[ColCopy] = 0 /\ keyIdx' = keyIdx
        /\ op = "COL" => keyIdx'[CopyCollectedBy(src)] # 0
  BY CollectGoesRound
<1>3. PICK m : m = Again(src, op)
  OBVIOUS
<1>4. PICK p : p = Head(Arrived(src))
  OBVIOUS
<1>5. /\ p \in WithFlag(KeylessOps, BOOLEAN)
      /\ m \in FlaggedMirrored /\ m.op = op /\ m \in WithFlag({op}, BOOLEAN)
      /\ m.rstDistinct = p.rstDistinct
  BY <1>0, <1>1, <1>2, <1>3, <1>4, AgainFlagged DEF KeylessOps
<1>6. pc \in {"waitVals", "recvVals", "merge", "recvDone"} => p \notin Stale
  BY <1>0, <1>1, <1>4, HeadIs DEF FlagsInOrder, OnlyResets
<1>7. pc \in {"waitVals", "recvVals", "merge", "recvDone"} => m \notin Stale
  <2>1. m \in WithFlag(KeylessOps, BOOLEAN)
    BY <1>2, <1>5 DEF WithFlag, KeylessOps
  <2>2. p.op # "PUSH"
    BY <1>1, <1>4
  <2> QED
    BY <1>5, <1>6, <2>1, <2>2, AgainFresh
<1>8. p.op = "START" => m \in Collects \cup RstStarts
  <2>1. p.op = "START" => op \in {"COL", "RST_START"}
    BY <1>2, <1>4
  <2> QED
    BY <1>5, <2>1 DEF Collects, RstStarts
<1>9. /\ op = "RST" => m \notin Collects
      /\ op = "RST_START" => m \in RstStarts
  BY <1>5 DEF Collects, RstStarts, WithFlag
<1>10. PICK out : out = << m >>
  OBVIOUS
<1>11. /\ FlagsInOrder'
       /\ Followed(mirrorQ, Collects, RstStarts) /\ (out = << m >> => m \notin Collects) =>
              Followed(mirrorQ', Collects, RstStarts)
       /\ out = << m >> /\ m \in RstStarts => Followed(mirrorQ', Collects, RstStarts)
  BY <1>0, <1>1, <1>2, <1>3, <1>4, <1>5, <1>7, <1>8, <1>10, PassInOrder
<1>12. CASE p.op = "START"
  <2>1. CopyCollectedBy(src) = ActiveCopy /\ ColCopy' = ActiveCopy
    <3>1. epoch' = (epoch + 1) % EpochMod
      BY <1>1, <1>4, <1>12 DEF SwitchEpoch
    <3> QED
      BY <1>4, <1>12, <3>1, TheCopies DEF CopyCollectedBy
  <2>2. pc \in {"waitVals", "recvVals", "merge", "recvDone"}
    <3>1. Arrives(src, {"START", "COL"})
      BY <1>1 DEF Arrives
    <3> QED
      BY <1>1, <1>4, <1>12, <3>1, CollectReady
  <2>3. p.rstDistinct = Oph
    BY <1>5, <1>6, <1>12, <2>2 DEF Stale, WithFlag, Oph
  <2>4. CollectsAhead'
    <3>1. op = "COL" => keyIdx'[ColCopy'] # 0
      BY <1>2, <2>1
    <3>2. op = "RST_START" => Followed(mirrorQ', Collects, RstStarts)
      BY <1>9, <1>10, <1>11
    <3>3. op # "RST"
      BY <1>2, <1>4, <1>12
    <3> QED
      BY <1>2, <3>1, <3>2, <3>3 DEF CollectsAhead, Collects, RstStarts, Followed
  <2> QED
    BY <1>4, <1>11, <2>3, <2>4
<1>13. CASE p.op # "START"
  <2>1. CopyCollectedBy(src) = ColCopy /\ ColCopy' = ColCopy
    BY <1>1, <1>4, <1>13 DEF CopyCollectedBy, SwitchEpoch, ColCopy
  <2>2. CollectsAhead'
    <3>1. op = "COL" => keyIdx'[ColCopy'] # 0
      BY <1>2, <2>1
    <3>2. op = "RST_START" => Followed(mirrorQ', Collects, RstStarts)
      BY <1>9, <1>10, <1>11
    <3>3. op = "RST" => Followed(mirrorQ', Collects, RstStarts)
      BY <1>0, <1>2, <1>9, <1>11 DEF CollectsAhead
    <3> QED
      BY <1>2, <3>1, <3>2, <3>3 DEF CollectsAhead, Collects, RstStarts, Followed
  <2> QED
    BY <1>4, <1>11, <1>13, <2>2
<1> QED
  BY <1>12, <1>13

(* START hands the marks of the closed sub-window to the reset.            *)
LEMMA CollectPairsInStep ==
  ASSUME InStep, PairsInStep, NEW src \in Sources, CollectPairs(src)
  PROVE  PairsInStep'
<1> USE DEF InStep
<1>0. TypeOK /\ PairTypeOK /\ FlagsInOrder /\ CollectsAhead /\ MarksKnown /\ NoPairTwice
  BY DEF PairsInStep
<1>1. /\ Collect(src) /\ dbfX' = dbfX /\ dbfY' = dbfY
      /\ IF epoch' # epoch
         THEN /\ closedPairs' = pairs
              /\ pairs' = NoPairs
              /\ known' = IF Head(Arrived(src)).rstDistinct
                          THEN [known EXCEPT ![ActiveCopy] = {}] ELSE known
         ELSE pairs' = pairs /\ known' = known /\ closedPairs' = closedPairs
  BY DEF CollectPairs, dbfVars, pairVars
<1>2. /\ FlagsInOrder' /\ CollectsAhead'
      /\ Head(Arrived(src)).op = "START" => Head(Arrived(src)).rstDistinct = Oph
  BY <1>1, CollectQueues
<1>3. /\ Arrived(src) # <<>> /\ Head(Arrived(src)).op \in {"START", "COL"} /\ SwitchEpoch(src)
      /\ hostQ' = IF src = "host" THEN Tail(hostQ) ELSE hostQ
      /\ UNCHANGED <<resetIdx, pc, curEpoch>>
  BY <1>1, CollectGoesRound
<1>4. Oph' = Oph
  BY <1>3, FlagsLast
<1>5. PairTypeOK'
  <2>1. ActiveCopy \in Copies
    BY TheCopies
  <2>2. CASE epoch' # epoch
    <3>1. closedPairs' = pairs /\ pairs'.seen = {} /\ pairs'.new = {}
      BY <1>1, <2>2 DEF NoPairs
    <3>2. known' \in [Copies -> SUBSET Pairs]
      BY <1>0, <1>1, <2>1, <2>2 DEF PairTypeOK
    <3>3. IsFiniteSet({})
      BY FS_EmptySet
    <3> QED
      BY <1>0, <1>1, <3>1, <3>2, <3>3 DEF PairTypeOK
  <2>3. CASE epoch' = epoch
    BY <1>0, <1>1, <2>3 DEF PairTypeOK
  <2> QED
    BY <2>2, <2>3
<1>6. src # "host" => hostQ' = hostQ
  BY <1>3
<1>7. src = "host" => /\ hostQ # <<>> /\ hostQ' = Tail(hostQ)
                      /\ Head(hostQ).op = Head(Arrived(src)).op
                      /\ Ops(hostQ) = Ops(hostQ') \cup {Head(hostQ).op}
  <2> SUFFICES ASSUME src = "host"
               PROVE  /\ hostQ # <<>> /\ hostQ' = Tail(hostQ)
                      /\ Head(hostQ).op = Head(Arrived(src)).op
                      /\ Ops(hostQ) = Ops(hostQ') \cup {Head(hostQ).op}
    OBVIOUS
  <2>1. hostQ # <<>> /\ hostQ' = Tail(hostQ) /\ Head(hostQ).op = Head(Arrived(src)).op
    BY <1>3 DEF Arrived
  <2> QED
    BY <2>1, RequestLeaves
<1>8. CASE Head(Arrived(src)).op = "START"
  <2>1. /\ src = "host" /\ epoch' # epoch /\ ActiveCopy' = ColCopy /\ ColCopy' = ActiveCopy
        /\ "START" \notin Ops(hostQ)'
    <3>1. Arrives(src, {"START", "COL"})
      BY <1>3 DEF Arrives
    <3> QED
      BY <1>3, <1>8, <3>1, CollectReady
  <2>2. "START" \in Ops(hostQ) /\ "RST_START" \in Ops(hostQ)
    <3>1. hostQ \in Seq(Request)
      BY DEF TypeOK, WireTypeOK
    <3>2. Head(hostQ) = hostQ[1] /\ 1 \in 1 .. Len(hostQ) /\ hostQ[1].op = "START"
      BY <1>7, <1>8, <2>1, <3>1, TailIs
    <3>3. PICK j \in 1 + 1 .. Len(hostQ) : hostQ[j].op = "RST_START"
      BY <3>2 DEF RequestsInOrder
    <3>4. j \in 1 .. Len(hostQ)
      BY <3>3
    <3> QED
      BY <3>2, <3>3, <3>4 DEF Ops
  <2>3. "RST_START" \in Ops(hostQ)'
    BY <1>7, <1>8, <2>1, <2>2
  <2>4. Oph => \A i : Pending(i)'
    BY <1>4, <2>1, <2>3 DEF Pending
  <2>5. \A i : ~Pending(i)
    BY <2>2 DEF Pending
  <2>6. known' = IF Oph THEN [known EXCEPT ![ActiveCopy] = {}] ELSE known
    BY <1>1, <1>2, <1>8, <2>1
  <2>7. \A c \in Copies : (Oph /\ c = ActiveCopy) \/ known'[c] = known[c]
    BY <1>0, <2>6 DEF PairTypeOK
  <2>8. MarksKnown'
    <3>1. ASSUME NEW c \in Copies, NEW i \in Cell
          PROVE  /\ dbfX[c][i] # 0 => (\E p \in known'[c] : DbfX[p] = i) \/ (c = ColCopy' /\ Pending(i)')
                 /\ dbfY[c][i] # 0 => (\E p \in known'[c] : DbfY[p] = i) \/ (c = ColCopy' /\ Pending(i)')
      BY <1>0, <2>1, <2>4, <2>5, <2>7 DEF MarksKnown, MarksIn
    <3> QED
      BY <1>1, <3>1 DEF MarksKnown, MarksIn
  <2>9. NoPairTwice'
    BY <1>1, <2>1 DEF NoPairTwice, NoPairs
  <2> QED
    BY <1>2, <1>5, <2>8, <2>9 DEF PairsInStep
<1>9. CASE Head(Arrived(src)).op = "COL"
  <2>1. epoch' = epoch
    BY <1>3, <1>9 DEF SwitchEpoch
  <2>2. ("START" \in Ops(hostQ') => "START" \in Ops(hostQ))
        /\ ("RST_START" \in Ops(hostQ) => "RST_START" \in Ops(hostQ'))
    BY <1>6, <1>7, <1>9
  <2>3. \A i \in Cell : Pending(i) => Pending(i)'
    BY <1>3, <1>4, <2>2 DEF Pending
  <2>4. MarksKnown'
    BY <1>0, <1>1, <2>1, <2>3, MarksLast
  <2>5. NoPairTwice'
    BY <1>0, <1>1, <2>1 DEF NoPairTwice, PairMarked, ActiveCopy
  <2> QED
    BY <1>2, <1>5, <2>4, <2>5 DEF PairsInStep
<1> QED
  BY <1>3, <1>8, <1>9

(* In the phases that follow the batch a packet that resets carries the    *)
(* flag of the sub-window, but for one that has nothing to reset.          *)
LEMMA ResetFlag ==
  ASSUME InStep, FlagsInOrder, CollectsAhead, NEW src \in Sources, Reset(src),
         NEW p, p = Head(Arrived(src)), pc \in {"waitVals", "recvVals", "merge", "recvDone"}
  PROVE  /\ p.op \in {"RST_START", "RST"}
         /\ p.rstDistinct = Oph \/ (p.op = "RST" /\ resetIdx \in {NDATA, RSTIDX_MID})
         /\ p \in Stale => p.op = "RST" /\ resetIdx \in {NDATA, RSTIDX_MID}
<1>1. Arrived(src) # <<>> /\ p.op \in {"RST_START", "RST", "PUSH"}
  BY DEF Reset, ResetPacket, Arrives
<1>2. p.op # "PUSH"
  <2>1. p.op = "PUSH" => "PUSH" \in Ops(hostQ)
    BY ResetPasses
  <2> QED
    BY <2>1 DEF InStep, PushAwaited
<1>3. p \in WithFlag(KeylessOps, BOOLEAN)
  BY <1>1, AgainFlagged DEF KeylessOps
<1>4. p \in Stale => p.op = "RST" /\ resetIdx \in {NDATA, RSTIDX_MID}
  BY <1>1, StaleIsIdle
<1>5. p \notin Stale => p.rstDistinct = Oph
  BY <1>1, <1>2, <1>3 DEF Stale, WithFlag, Oph
<1> QED
  BY <1>1, <1>2, <1>4, <1>5

LEMMA ResetQueues ==
  ASSUME InStep, PairsInStep, NEW src \in Sources, Reset(src)
  PROVE  FlagsInOrder' /\ CollectsAhead'
<1>0. TypeOK /\ FlagsInOrder /\ CollectsAhead
  BY DEF InStep, PairsInStep
<1> DEFINE op == Head(Arrived(src)).op
           x == ResetIdxGot(op)
<1>1. PICK m : m = Again(src, "RST")
  OBVIOUS
<1>2. PICK out : out = IF x # NDATA THEN << m >> ELSE <<>>
  OBVIOUS
<1>3. /\ Arrived(src) # <<>> /\ op \in {"RST_START", "RST", "PUSH"}
      /\ Pass(src, out) /\ UNCHANGED <<pc, curEpoch, epoch, keyIdx>>
  BY <1>1, <1>2 DEF Reset, ResetPacket, Arrives, controllerVars
<1>4. PICK p : p = Head(Arrived(src))
  OBVIOUS
<1>5. /\ p \in WithFlag(KeylessOps, BOOLEAN)
      /\ m \in FlaggedMirrored /\ m.op = "RST" /\ m \in WithFlag({"RST"}, BOOLEAN)
      /\ m.rstDistinct = p.rstDistinct
  BY <1>0, <1>1, <1>3, <1>4, AgainFlagged DEF KeylessOps
<1>6. out = << m >> /\ pc \in {"waitVals", "recvVals", "merge", "recvDone"} => m \notin Stale
  <2> SUFFICES ASSUME out = << m >>, pc \in {"waitVals", "recvVals", "merge", "recvDone"}
               PROVE  m \notin Stale
    OBVIOUS
  <2>1. p.op \in {"RST_START", "RST"} /\ (p \in Stale => p.op = "RST" /\ resetIdx \in {NDATA, RSTIDX_MID})
    BY <1>0, <1>4, ResetFlag
  <2>2. x # NDATA
    BY <1>2
  <2>3. p \notin Stale
    BY <1>4, <2>1, <2>2 DEF ResetIdxGot
  <2>4. m \in WithFlag(KeylessOps, BOOLEAN) /\ p.op # "PUSH"
    BY <1>5, <2>1 DEF WithFlag, KeylessOps
  <2> QED
    BY <1>5, <2>3, <2>4, AgainFresh
<1>7. m \notin Collects
  BY <1>5 DEF Collects, WithFlag
<1>8. out \in {<<>>, << m >>} /\ op # "START"
  BY <1>2, <1>3
<1> HIDE DEF op, x
<1>9. op = Head(Arrived(src)).op
  BY DEF op
<1>10. /\ FlagsInOrder'
       /\ Followed(mirrorQ, Collects, RstStarts) => Followed(mirrorQ', Collects, RstStarts)
  BY <1>0, <1>3, <1>5, <1>6, <1>7, <1>8, <1>9, PassInOrder
<1>11. CollectsAhead'
  BY <1>0, <1>3, <1>10 DEF CollectsAhead, ColCopy, Collects, RstStarts, Followed
<1> QED
  BY <1>10, <1>11

(* A cell that is still to be cleared is cleared now or stays to be.       *)
LEMMA ResetPending ==
  ASSUME InStep, PairsInStep, NEW src \in Sources, Reset(src),
         NEW p, p = Head(Arrived(src)), NEW i \in Cell, Pending(i)
  PROVE  Pending(i)' \/ (p.rstDistinct /\ i = ResetIdxGot(p.op) % NDATA)
<1> USE DEF InStep
<1>0. TypeOK /\ FlagsInOrder /\ CollectsAhead
  BY DEF PairsInStep
<1>1. NDATA \in Nat \ {0, 1} /\ resetIdx \in 0 .. NDATA \cup {RSTIDX_MID} /\ RSTIDX_MID = NDATA * 3
      /\ i \in 0 .. NDATA - 1
  BY DataPlaneAssumption DEF TypeOK, DataPlaneTypeOK, RSTIDX_MID, Cell
<1>2. Oph /\ "START" \notin Ops(hostQ)
  BY DEF Pending
<1>3. pc \in {"waitVals", "recvVals", "merge", "recvDone"}
  <2>1. ~Cleared
    BY <1>1 DEF Pending, Cleared, Calm
  <2> QED
    BY <2>1 DEF PhaseOK, TypeOK, ControllerTypeOK, Phases
<1>4. /\ p.op \in {"RST_START", "RST"}
      /\ p.rstDistinct = Oph \/ (p.op = "RST" /\ resetIdx \in {NDATA, RSTIDX_MID})
  BY <1>0, <1>3, ResetFlag
<1>5. /\ Ops(hostQ)' \subseteq Ops(hostQ) /\ resetIdx' = ResetIdxLeft(p.op)
      /\ p.op = "RST_START" => "RST_START" \in Ops(hostQ) \cup Ops(mirrorQ)
      /\ curEpoch' = curEpoch
  BY ResetPasses
<1>6. Oph' /\ "START" \notin Ops(hostQ)'
  BY <1>2, <1>5, FlagsLast
<1>7. CASE p.op = "RST_START"
  <2>1. ~Calm
    BY <1>5, <1>7 DEF Calm
  <2>2. resetIdx \in {NDATA, RSTIDX_MID}
    BY <1>3, <2>1, CollectMeans DEF Collecting
  <2>3. CASE resetIdx = NDATA
    BY <1>5, <1>6, <1>7, <2>3 DEF ResetIdxLeft, Pending
  <2>4. CASE resetIdx # NDATA
    <3>1. resetIdx' = 1 /\ ResetIdxGot(p.op) = 0 /\ p.rstDistinct = Oph
      BY <1>4, <1>5, <1>7, <2>4 DEF ResetIdxLeft, ResetIdxGot
    <3>2. 0 % NDATA = 0
      BY <1>1
    <3>3. i = 0 \/ i >= 1
      BY <1>1
    <3>4. CASE i = 0
      BY <1>2, <3>1, <3>2, <3>4
    <3>5. CASE i >= 1
      BY <1>1, <1>6, <3>1, <3>5 DEF Pending
    <3> QED
      BY <3>3, <3>4, <3>5
  <2> QED
    BY <2>3, <2>4
<1>8. CASE p.op = "RST"
  <2>1. CASE "RST_START" \in Ops(hostQ)
    <3>1. "RST_START" \in Ops(hostQ)'
      <4>1. hostQ' = IF src = "host" THEN Tail(hostQ) ELSE hostQ
        BY DEF Reset, ResetPacket, Pass
      <4>2. CASE src = "host"
        <5>1. hostQ # <<>> /\ hostQ' = Tail(hostQ) /\ Head(hostQ).op = "RST"
          BY <1>8, <4>1, <4>2 DEF Reset, ResetPacket, Arrives, Arrived
        <5>2. Ops(hostQ) = Ops(hostQ') \cup {Head(hostQ).op}
          BY <5>1, RequestLeaves
        <5> QED
          BY <2>1, <5>1, <5>2
      <4>3. CASE src # "host"
        BY <2>1, <4>1, <4>3
      <4> QED
        BY <4>2, <4>3
    <3> QED
      BY <1>6, <3>1 DEF Pending
  <2>2. CASE resetIdx = RSTIDX_MID
    BY <1>5, <1>6, <1>8, <2>2 DEF ResetIdxLeft, Pending
  <2>3. CASE resetIdx < NDATA /\ i >= resetIdx
    <3>1. resetIdx' = resetIdx + 1 /\ ResetIdxGot(p.op) = resetIdx /\ p.rstDistinct = Oph
          /\ resetIdx \in 0 .. NDATA - 1
      BY <1>1, <1>4, <1>5, <1>8, <2>3 DEF ResetIdxLeft, ResetIdxGot
    <3>2. resetIdx % NDATA = resetIdx
      BY <1>1, <3>1
    <3>3. CASE i = resetIdx
      BY <1>2, <3>1, <3>2, <3>3
    <3>4. CASE i # resetIdx
      <4>1. resetIdx' < NDATA /\ i >= resetIdx'
        BY <1>1, <2>3, <3>1, <3>4
      <4> QED
        BY <1>6, <4>1 DEF Pending
    <3> QED
      BY <3>3, <3>4
  <2> QED
    BY <2>1, <2>2, <2>3 DEF Pending
<1> QED
  BY <1>4, <1>7, <1>8

(* A cell that is cleared needs no explanation.                            *)
LEMMA RowCleared ==
  ASSUME NEW hash, NEW row, NEW new, NEW c \in Copies, NEW i \in Cell, Sets(new, row, c, i, 0),
         NEW k, NEW u, NEW u1, u \subseteq u1 \cup {i}, Explained(row, hash, k, c, u)
  PROVE  Explained(new, hash, k, c, u1)
<1>1. ASSUME NEW d \in Copies, NEW j \in Cell, new[d][j] # 0
      PROVE  (\E q \in k[d] : hash[q] = j) \/ (d = c /\ j \in u1)
  <2>1. ~(d = c /\ j = i) /\ row[d][j] # 0
    BY <1>1 DEF Sets
  <2> QED
    BY <2>1 DEF Explained
<1> QED
  BY <1>1 DEF Explained

(* A reset packet clears marks of the copy that no traffic uses.           *)
LEMMA ResetPairsInStep ==
  ASSUME InStep, PairsInStep, NEW src \in Sources, ResetPairs(src)
  PROVE  PairsInStep'
<1>0. TypeOK /\ PairTypeOK /\ MarksKnown /\ NoPairTwice
  BY DEF InStep, PairsInStep
<1>1. PICK p : p = Head(Arrived(src))
  OBVIOUS
<1>2. PICK i : i = ResetIdxGot(p.op) % NDATA
  OBVIOUS
<1>3. /\ Reset(src)
      /\ IF p.rstDistinct
         THEN dbfX' = ClearCell(dbfX, ColCopy, i) /\ dbfY' = ClearCell(dbfY, ColCopy, i)
         ELSE dbfX' = dbfX /\ dbfY' = dbfY
      /\ pairs' = pairs /\ known' = known /\ closedPairs' = closedPairs
  BY <1>1, <1>2 DEF ResetPairs, ClearMarks, dbfVars, pairVars
<1>4. i \in Cell
  BY <1>0, <1>2, ResetIdxIs, DataPlaneAssumption DEF Cell
<1>5. ActiveCopy \in Copies /\ ColCopy \in Copies /\ ColCopy # ActiveCopy
  BY <1>0, TheCopies
<1>6. ActiveCopy' = ActiveCopy /\ ColCopy' = ColCopy
  BY <1>3, ResetPasses DEF ActiveCopy, ColCopy
<1>7. FlagsInOrder' /\ CollectsAhead'
  BY <1>3, ResetQueues
<1>8. PICK u, u1 : u = {j \in Cell : Pending(j)} /\ u1 = {j \in Cell : Pending(j)'}
  OBVIOUS
<1>9. u \subseteq u1 \cup {i} /\ (~p.rstDistinct => u \subseteq u1)
  BY <1>1, <1>2, <1>3, <1>8, ResetPending
<1>10. Explained(dbfX, DbfX, known, ColCopy, u) /\ Explained(dbfY, DbfY, known, ColCopy, u)
  BY <1>0, <1>8, MarksAreExplained
<1>11. PICK x, y : x = dbfX' /\ y = dbfY'
  OBVIOUS
<1>12. IsRow(dbfX) /\ IsRow(dbfY)
  BY <1>0 DEF PairTypeOK, IsRow
<1>13. /\ IsRow(x) /\ IsRow(y)
       /\ Explained(x, DbfX, known, ColCopy, u1) /\ Explained(y, DbfY, known, ColCopy, u1)
       /\ \A j \in Cell : x[ActiveCopy][j] = dbfX[ActiveCopy][j] /\ y[ActiveCopy][j] = dbfY[ActiveCopy][j]
  <2>1. CASE p.rstDistinct
    <3>1. x = ClearCell(dbfX, ColCopy, i) /\ y = ClearCell(dbfY, ColCopy, i)
      BY <1>3, <1>11, <2>1
    <3>2. Sets(x, dbfX, ColCopy, i, 0) /\ Sets(y, dbfY, ColCopy, i, 0)
      BY <1>4, <1>5, <1>12, <3>1, ClearIs
    <3>3. Explained(x, DbfX, known, ColCopy, u1) /\ Explained(y, DbfY, known, ColCopy, u1)
      BY <1>4, <1>5, <1>9, <1>10, <3>2, RowCleared
    <3> QED
      BY <1>5, <3>2, <3>3 DEF Sets
  <2>2. CASE ~p.rstDistinct
    <3>1. x = dbfX /\ y = dbfY
      BY <1>3, <1>11, <2>2
    <3>2. u \subseteq u1
      BY <1>9, <2>2
    <3>3. Explained(x, DbfX, known, ColCopy, u1) /\ Explained(y, DbfY, known, ColCopy, u1)
      BY <1>10, <3>1, <3>2 DEF Explained
    <3> QED
      BY <1>12, <3>1, <3>3
  <2> QED
    BY <2>1, <2>2
<1>14. MarksKnown'
  BY <1>3, <1>6, <1>8, <1>11, <1>13 DEF MarksKnown, MarksIn, Explained
<1>15. NoPairTwice'
  <2>1. \A q \in pairs.seen : DbfX[q] \in Cell /\ DbfY[q] \in Cell
    BY <1>0, SuperspreaderAssumption DEF PairTypeOK
  <2> QED
    BY <1>0, <1>3, <1>6, <1>11, <1>13, <2>1 DEF NoPairTwice, PairMarked
<1>16. PairTypeOK'
  BY <1>0, <1>3, <1>11, <1>13 DEF PairTypeOK, IsRow
<1> QED
  BY <1>7, <1>14, <1>15, <1>16 DEF PairsInStep

-----------------------------------------------------------------------------
(***************************************************************************)
(* The steps that leave the filter alone.                                  *)
(***************************************************************************)
LEMMA PairsRest ==
  ASSUME PairTypeOK, NoPairTwice, UNCHANGED <<dbfVars, pairs, known, epoch>>,
         closedPairs' \in {closedPairs, NoPairs}
  PROVE  PairTypeOK' /\ NoPairTwice'
<1>1. dbfX' = dbfX /\ dbfY' = dbfY
  BY DEF dbfVars
<1>2. NoPairTwice'
  BY <1>1 DEF NoPairTwice, PairMarked, ActiveCopy
<1>3. NoPairs.new = {} /\ NoPairs.seen = {} /\ IsFiniteSet({})
  BY FS_EmptySet DEF NoPairs
<1>4. closedPairs'.new \subseteq closedPairs'.seen /\ closedPairs'.seen \subseteq Pairs
      /\ IsFiniteSet(closedPairs'.seen)
  BY <1>3 DEF PairTypeOK
<1>5. PairTypeOK'
  BY <1>1, <1>4 DEF PairTypeOK
<1> QED
  BY <1>2, <1>5

(* Once the copy is cleared nothing is to be cleared.                      *)
LEMMA ClearedIsDone ==
  ASSUME TypeOK, Cleared, NEW i \in Cell
  PROVE  ~Pending(i)
<1>1. NDATA \in Nat \ {0, 1} /\ resetIdx = NDATA /\ RSTIDX_MID = NDATA * 3
  BY DataPlaneAssumption DEF Cleared, RSTIDX_MID
<1>2. "RST_START" \notin Ops(hostQ) /\ resetIdx # RSTIDX_MID /\ ~(resetIdx < NDATA)
  BY <1>1 DEF Cleared, Calm
<1> QED
  BY <1>2 DEF Pending

(* A query or a report ends at the switch.                                 *)
LEMMA EndsInStep ==
  ASSUME InStep, PairsInStep, NEW src \in Sources, Arrived(src) # <<>>, Pass(src, <<>>),
         Head(Arrived(src)).op \in {"QRY_KEY", "KEY"},
         UNCHANGED <<pc, curEpoch, keyIdx, epoch, resetIdx, dbfVars, pairVars>>
  PROVE  PairsInStep'
<1>0. TypeOK /\ PairTypeOK /\ FlagsInOrder /\ CollectsAhead /\ MarksKnown /\ NoPairTwice
      /\ RequestsInOrder
  BY DEF InStep, PairsInStep
<1>1. PairTypeOK' /\ NoPairTwice'
  BY <1>0, PairsRest DEF pairVars
<1>2. PICK m : m \in FlaggedMirrored /\ m \notin Collects
  <2>1. [op |-> "RST", key |-> NoKey, rstDistinct |-> TRUE] \in FlaggedMirrored \ Collects
    BY DEF FlaggedMirrored, Collects, WithFlag, KeylessOps
  <2> QED
    BY <2>1
<1>3. PICK out : out = <<>> /\ out # << m >>
  OBVIOUS
<1>4. FlagsInOrder' /\ (Followed(mirrorQ, Collects, RstStarts) => Followed(mirrorQ', Collects, RstStarts))
  <2>1. Pass(src, out) /\ out \in {<<>>, << m >>}
    BY <1>3
  <2> QED
    BY <1>0, <1>2, <1>3, <2>1, PassInOrder
<1>5. CollectsAhead'
  BY <1>0, <1>4 DEF CollectsAhead, ColCopy, Collects, RstStarts, Followed
<1>6. ("START" \in Ops(hostQ') => "START" \in Ops(hostQ))
      /\ ("RST_START" \in Ops(hostQ) => "RST_START" \in Ops(hostQ'))
  <2>1. CASE src = "host"
    <3>1. hostQ # <<>> /\ hostQ' = Tail(hostQ) /\ Head(hostQ).op \in {"QRY_KEY", "KEY"}
      BY <2>1 DEF Arrived, Pass
    <3>2. Ops(hostQ) = Ops(hostQ') \cup {Head(hostQ).op}
      BY <1>0, <3>1, RequestLeaves
    <3> QED
      BY <3>1, <3>2
  <2>2. CASE src # "host"
    BY <2>2 DEF Pass
  <2> QED
    BY <2>1, <2>2
<1>7. \A i \in Cell : Pending(i) => Pending(i)'
  BY <1>6, FlagsLast DEF Pending
<1>8. MarksKnown'
  BY <1>0, <1>7, MarksLast DEF dbfVars, pairVars
<1> QED
  BY <1>1, <1>4, <1>5, <1>8 DEF PairsInStep

(* A phase of the controller ends, or a message is read.                   *)
LEMMA PhaseInStep ==
  ASSUME InStep, PairsInStep, UNCHANGED <<hostQ, mirrorQ, keyIdx, epoch, resetIdx>>,
         UNCHANGED <<dbfVars, pairs, known>>, closedPairs' \in {closedPairs, NoPairs},
         \/ curEpoch' = curEpoch /\ (pc' = pc \/ pc' \in {"idle", "recvKeys", "exit"}
                                     \/ pc \in {"waitVals", "recvVals", "merge", "recvDone"})
         \/ Cleared /\ pc' = "idle"
  PROVE  PairsInStep'
<1>0. TypeOK /\ PairTypeOK /\ FlagsInOrder /\ CollectsAhead /\ MarksKnown /\ NoPairTwice
  BY DEF InStep, PairsInStep
<1>1. PairTypeOK' /\ NoPairTwice'
  BY <1>0, PairsRest
<1>2. FlagsInOrder' /\ CollectsAhead'
  <2>1. pc \in {"idle", "recvKeys", "exit"} \cup {"waitVals", "recvVals", "merge", "recvDone"}
    BY <1>0 DEF TypeOK, ControllerTypeOK, Phases
  <2> QED
    BY <1>0, <2>1, QueuesLast
<1>3. \A i \in Cell : Pending(i) => Pending(i)'
  <2>1. CASE curEpoch' = curEpoch
    BY <2>1, PendingLasts
  <2>2. CASE Cleared
    BY <1>0, <2>2, ClearedIsDone
  <2> QED
    BY <2>1, <2>2
<1>4. MarksKnown'
  BY <1>0, <1>3, MarksLast DEF dbfVars
<1> QED
  BY <1>1, <1>2, <1>4 DEF PairsInStep

(* The batch goes onto a link with nothing but resets of earlier           *)
(* sub-windows, and the switch mirrors nothing but those.                  *)
LEMMA SendPairsInStep ==
  ASSUME InStep, PairsInStep, SendRequestsOf(FlaggedBatch),
         UNCHANGED <<switchVars, historyVars, dbfVars, pairVars>>
  PROVE  PairsInStep'
<1>0. TypeOK /\ PairTypeOK /\ FlagsInOrder /\ CollectsAhead /\ MarksKnown /\ NoPairTwice
  BY DEF InStep, PairsInStep
<1>1. PICK b : b = FlaggedBatch
  OBVIOUS
<1>2. /\ pc = "recvKeys" /\ pc' = "waitVals" /\ hostQ' = hostQ \o b /\ curEpoch' = curEpoch
      /\ UNCHANGED <<mirrorQ, keyIdx, epoch, resetIdx>>
  BY <1>1 DEF SendRequestsOf, Goto, switchVars
<1>3. SameRequests(b) /\ b \in Seq(FlaggedRequest) /\ \A i \in 1 .. Len(b) : b[i] \notin Stale
  BY <1>0, <1>1, FlaggedBatchIs DEF TypeOK, ControllerTypeOK
<1>4. Len(b) \in Nat /\ Len(b) > 0 /\ b[1].op = "START"
  <2>1. PICK e \in Nat, r \in Nat : e > 1 /\ Len(b) = e + r /\ b[1].op = "START"
    BY <1>0, <1>3, BatchIsOps DEF TypeOK, ControllerTypeOK
  <2> QED
    BY <2>1
<1>5. Cleared
  BY <1>2 DEF InStep, PhaseOK
<1>6. hostQ \in Seq(FlaggedRequest) /\ mirrorQ \in Seq(FlaggedMirrored)
  BY <1>0 DEF FlagsInOrder
<1>7. PICK q, n, m : q = hostQ' /\ n = Len(hostQ) /\ m = Len(b)
  OBVIOUS
<1>8. /\ n \in Nat /\ m \in Nat /\ m > 0 /\ q \in Seq(FlaggedRequest) /\ Len(q) = n + m
      /\ \A i \in 1 .. n : q[i] = hostQ[i]
      /\ \A i \in n + 1 .. n + m : q[i] = b[i - n] /\ i - n \in 1 .. m
  BY <1>2, <1>3, <1>4, <1>6, <1>7, ConcatIs
<1>9. q[n + 1] \in Starts /\ q[n + 1].op = "START" /\ n + 1 \in 1 .. n + m
  <2>1. n + 1 \in n + 1 .. n + m /\ (n + 1) - n = 1 /\ n + 1 \in 1 .. n + m
    BY <1>8
  <2>2. q[n + 1] = b[1] /\ q[n + 1].op = "START"
    BY <1>4, <1>8, <2>1
  <2>3. q[n + 1] \in FlaggedRequest
    BY <1>8, <2>1
  <2> QED
    BY <2>1, <2>2, <2>3 DEF FlaggedRequest, Starts, WithFlag
<1>10. ASSUME NEW i \in 1 .. n + m, q[i] \in Stale
       PROVE  i \in 1 .. n /\ q[i].op = "RST"
  <2>1. CASE i \in n + 1 .. n + m
    BY <1>3, <1>7, <1>8, <1>10, <2>1
  <2>2. CASE i \in 1 .. n
    <3>1. q[i].op \in Ops(hostQ)
      BY <1>7, <1>8, <2>2 DEF Ops
    <3>2. q[i].op \in {"RST", "PUSH"}
      BY <1>5, <3>1 DEF Cleared, Calm
    <3>3. q[i].op # "PUSH"
      BY <1>10 DEF Stale, WithFlag
    <3> QED
      BY <2>2, <3>2, <3>3
  <2> QED
    BY <1>8, <2>1, <2>2
<1>11. Stale' = Stale
  BY <1>2, FlagsLast
<1>12. OnlyResets(hostQ)' /\ Followed(hostQ, Stale, Starts)'
  <2>1. \A i \in 1 .. n : n + 1 \in i + 1 .. n + m
    BY <1>8
  <2>2. OnlyResets(q) /\ Followed(q, Stale, Starts)
    BY <1>8, <1>9, <1>10, <2>1 DEF OnlyResets, Followed
  <2> QED
    BY <1>7, <1>11, <2>2 DEF OnlyResets, Followed, Starts
<1>13. "START" \in Ops(hostQ)'
  BY <1>7, <1>8, <1>9 DEF Ops
<1>14. OnlyResets(mirrorQ)'
  <2>1. Followed(mirrorQ, Collects, RstStarts) /\ "RST_START" \notin Ops(mirrorQ)
    BY <1>0, <1>5 DEF CollectsAhead, Cleared, Calm
  <2>2. ASSUME NEW i \in 1 .. Len(mirrorQ), mirrorQ[i] \in Stale
        PROVE  mirrorQ[i].op = "RST"
    <3>1. mirrorQ[i].op \in Ops(mirrorQ)
      BY DEF Ops
    <3>2. mirrorQ[i].op \in {"COL", "RST"}
      BY <2>1, <2>2, <3>1 DEF InStep, MirrorOK, Stale, WithFlag
    <3>3. mirrorQ[i].op # "COL"
      <4> SUFFICES ASSUME mirrorQ[i].op = "COL" PROVE FALSE
        OBVIOUS
      <4>1. mirrorQ[i] \in Collects
        BY <2>2 DEF Collects, Stale, WithFlag
      <4>2. PICK j \in i + 1 .. Len(mirrorQ) : mirrorQ[j] \in RstStarts
        BY <2>1, <4>1 DEF Followed
      <4>3. j \in 1 .. Len(mirrorQ)
        BY <4>2
      <4> QED
        BY <2>1, <4>2, <4>3 DEF Ops, RstStarts, WithFlag
    <3> QED
      BY <3>2, <3>3
  <2> QED
    BY <1>2, <1>11, <2>2 DEF OnlyResets
<1>15. FlagsInOrder'
  <2>1. hostQ' \in Seq(FlaggedRequest) /\ mirrorQ' \in Seq(FlaggedMirrored)
    BY <1>2, <1>6, <1>7, <1>8
  <2> QED
    BY <1>12, <1>13, <1>14, <2>1 DEF FlagsInOrder, FlaggedRequest, FlaggedMirrored
<1>16. CollectsAhead'
  BY <1>0, <1>2 DEF CollectsAhead, ColCopy, Collects, RstStarts, Followed
<1>17. MarksKnown'
  <2>1. \A i \in Cell : ~Pending(i)
    BY <1>0, <1>5, ClearedIsDone
  <2> QED
    BY <1>0, <1>2, <2>1, MarksLast DEF dbfVars, pairVars
<1>18. PairTypeOK' /\ NoPairTwice'
  BY <1>0, <1>2, PairsRest DEF pairVars
<1> QED
  BY <1>15, <1>16, <1>17, <1>18 DEF PairsInStep

(* switchWin begins with the PUSH.                                         *)
LEMMA StartPairInStep ==
  ASSUME InStep, PairsInStep, StartPairSwitch
  PROVE  PairsInStep'
<1>0. TypeOK /\ PairTypeOK /\ FlagsInOrder /\ CollectsAhead /\ MarksKnown /\ NoPairTwice
  BY DEF InStep, PairsInStep
<1>1. PICK m : m = Flagged(Req("PUSH"))
  OBVIOUS
<1>2. /\ pc = "idle" /\ pc' = "recvKeys" /\ hostQ' = Append(hostQ, m)
      /\ UNCHANGED <<mirrorQ, keyIdx, epoch, resetIdx, dbfVars, pairVars>>
  BY <1>1 DEF StartPairSwitch, SwitchWinSending, Goto, switchVars
<1>3. m \in FlaggedRequest
  BY <1>1 DEF Flagged, Oph, Req, FlaggedRequest, WithFlag, KeylessOps
<1>4. FlagsInOrder'
  BY <1>0, <1>2, <1>3, AppendIs DEF FlagsInOrder, FlaggedRequest, FlaggedMirrored
<1>5. CollectsAhead'
  BY <1>0, <1>2 DEF CollectsAhead, ColCopy, Collects, RstStarts, Followed
<1>6. MarksKnown'
  <2>1. Cleared
    BY <1>2 DEF InStep, PhaseOK
  <2>2. \A i \in Cell : ~Pending(i)
    BY <1>0, <2>1, ClearedIsDone
  <2> QED
    BY <1>0, <1>2, <2>2, MarksLast DEF dbfVars, pairVars
<1>7. PairTypeOK' /\ NoPairTwice'
  BY <1>0, <1>2, PairsRest DEF pairVars
<1> QED
  BY <1>4, <1>5, <1>6, <1>7 DEF PairsInStep

(* The other steps of the controller.                                      *)
LEMMA ReceivePairsInStep ==
  ASSUME InStep, InStep', PairsInStep, ReceivePairs
  PROVE  PairsInStep'
<1>1. UNCHANGED <<switchVars, historyVars, dbfVars, pairVars>>
  BY DEF ReceivePairs
<1>2. UNCHANGED <<mirrorQ, keyIdx, epoch, resetIdx, pairs, known, closedPairs>>
      /\ UNCHANGED <<bfX, bfY, cmX, cmY, dbfVars>>
  BY <1>1 DEF switchVars, pairVars
<1>3. CASE SendRequestsOf(FlaggedBatch)
  BY <1>1, <1>3, SendPairsInStep
<1>4. CASE AwaitValues \/ RecvKey \/ RecvKeyVal \/ RecvKeyValsDone
  <2>1. hostQ' = hostQ /\ curEpoch' = curEpoch
        /\ (pc' = pc \/ pc \in {"waitVals", "recvVals", "merge", "recvDone"})
    BY <1>4 DEF AwaitValues, RecvKey, RecvKeyVal, RecvKeyValsDone, NextMsg, WaitNewMsg, Goto
  <2> QED
    BY <1>2, <2>1, PhaseInStep
<1>5. CASE RecvDone
  <2>1. hostQ' = hostQ /\ pc' = "idle"
    BY <1>5 DEF RecvDone, Goto
  <2>2. Cleared'
    BY <2>1 DEF InStep, PhaseOK
  <2>3. Cleared
    BY <1>2, <2>1, <2>2 DEF Cleared, Calm, IsClean, ColCopy, Ops
  <2> QED
    BY <1>2, <2>1, <2>3, PhaseInStep
<1> QED
  BY <1>3, <1>4, <1>5 DEF ReceivePairs

LEMMA RestInStep ==
  ASSUME InStep, PairsInStep
  PROVE  /\ MergePairs => PairsInStep'
         /\ Elsewhere => PairsInStep'
         /\ UNCHANGED allVars => PairsInStep'
<1>1. CASE MergePairs
  <2>1. /\ pc = "merge" /\ UNCHANGED <<hostQ, mirrorQ, keyIdx, epoch, resetIdx, curEpoch>>
        /\ UNCHANGED <<dbfVars, pairs, known>> /\ closedPairs' = NoPairs
    BY <1>1 DEF MergePairs, MergeSubWindow, Merge, Goto, wireVars, switchVars
  <2> QED
    BY <2>1, PhaseInStep
<1>2. CASE Query /\ UNCHANGED <<dbfVars, pairVars>>
  <2>1. /\ Arrived("host") # <<>> /\ Head(Arrived("host")).op = "QRY_KEY" /\ Pass("host", <<>>)
        /\ UNCHANGED <<pc, curEpoch, keyIdx, epoch, resetIdx>> /\ "host" \in Sources
    BY <1>2 DEF Query, QueryKey, Arrives, controllerVars, Sources
  <2> QED
    BY <1>2, <2>1, EndsInStep
<1>3. CASE ReportOverflow /\ UNCHANGED <<dbfVars, pairVars>>
  <2>1. /\ Arrived("mirror") # <<>> /\ Head(Arrived("mirror")).op = "KEY" /\ Pass("mirror", <<>>)
        /\ UNCHANGED <<pc, curEpoch, keyIdx, epoch, resetIdx>> /\ "mirror" \in Sources
    BY <1>3 DEF ReportOverflow, ReportKey, Arrives, controllerVars, Sources
  <2> QED
    BY <1>3, <2>1, EndsInStep
<1>4. CASE Quit /\ UNCHANGED <<dbfVars, pairVars>>
  <2>1. /\ pc' = "exit" /\ UNCHANGED <<hostQ, mirrorQ, keyIdx, epoch, resetIdx, curEpoch>>
        /\ UNCHANGED <<dbfVars, pairs, known, closedPairs>>
    BY <1>4 DEF Quit, Exit, Goto, wireVars, switchVars, pairVars
  <2> QED
    BY <2>1, PhaseInStep
<1>5. CASE UNCHANGED vars /\ UNCHANGED <<dbfVars, pairVars>>
  <2>1. /\ UNCHANGED <<hostQ, mirrorQ, keyIdx, epoch, resetIdx, curEpoch, pc>>
        /\ UNCHANGED <<dbfVars, pairs, known, closedPairs>>
    BY <1>5 DEF vars, wireVars, switchVars, controllerVars, pairVars
  <2> QED
    BY <2>1, PhaseInStep
<1> QED
  BY <1>1, <1>2, <1>3, <1>4, <1>5 DEF Elsewhere, Stopped, allVars

LEMMA InitPairs ==
  ASSUME PairInit
  PROVE  PairsInStep
<1>1. /\ dbfX = Zeros /\ dbfY = Zeros /\ pairs = NoPairs /\ closedPairs = NoPairs
      /\ known = [c \in Copies |-> {}] /\ hostQ = <<>> /\ mirrorQ = <<>> /\ pc = "idle"
  BY DEF PairInit, Init, WireInit, DataPlaneInit, ControllerInit
<1>2. NoPairs.seen = {} /\ NoPairs.new = {} /\ IsFiniteSet({})
  BY FS_EmptySet DEF NoPairs
<1>3. PairTypeOK
  BY <1>1, <1>2 DEF PairTypeOK, Zeros
<1>4. FlagsInOrder
  BY <1>1 DEF FlagsInOrder
<1>5. CollectsAhead
  BY <1>1 DEF CollectsAhead, Followed
<1>6. MarksKnown
  BY <1>1 DEF MarksKnown, MarksIn, Zeros
<1>7. NoPairTwice
  BY <1>1, <1>2 DEF NoPairTwice
<1> QED
  BY <1>3, <1>4, <1>5, <1>6, <1>7 DEF PairsInStep

(* Every step of the query keeps switch and controller in step, and the    *)
(* filter with them.                                                       *)
LEMMA PairNextInStep ==
  ASSUME Fits, InStep, PairsInStep, [PairNext]_allVars
  PROVE  InStep' /\ PairsInStep'
<1>1. TypeOK
  BY DEF InStep
<1>2. [KeptNext]_vars
  BY <1>1, PairStep
<1>3. [AnyNext]_vars
  BY <1>1, <1>2, KeptIsAny
<1>4. InStep'
  BY <1>3, NextInStep
<1>5. ASSUME NEW p \in Pairs, PairPacket(p) PROVE PairsInStep'
  BY <1>4, <1>5, PairPacketInStep
<1>6. ASSUME NEW src \in Sources, CollectPairs(src) PROVE PairsInStep'
  BY <1>6, CollectPairsInStep
<1>7. ASSUME NEW src \in Sources, ResetPairs(src) PROVE PairsInStep'
  BY <1>7, ResetPairsInStep
<1>8. CASE StartPairSwitch
  BY <1>4, <1>8, StartPairInStep
<1>9. CASE ReceivePairs
  BY <1>4, <1>9, ReceivePairsInStep
<1>10. CASE MergePairs
  BY <1>4, <1>10, RestInStep
<1>11. CASE Elsewhere
  BY <1>4, <1>11, RestInStep
<1>12. CASE UNCHANGED allVars
  BY <1>4, <1>12, RestInStep
<1> QED
  BY <1>4, <1>5, <1>6, <1>7, <1>8, <1>9, <1>10, <1>11, <1>12 DEF PairNext

-----------------------------------------------------------------------------
(***************************************************************************)
(* What a sub-window has seen.                                             *)
(***************************************************************************)

(* Where hash functions do not collide, what is marked is known.           *)
LEMMA MarkedIsKnown ==
  ASSUME NoPairCollision, TypeOK, PairTypeOK, MarksKnown
  PROVE  NoPairMissed
<1> SUFFICES ASSUME NEW p \in Pairs, PairMarked(ActiveCopy, p)
             PROVE  p \in known[ActiveCopy]
  BY DEF NoPairMissed
<1>1. ActiveCopy \in Copies /\ ActiveCopy # ColCopy
  BY TheCopies
<1>2. DbfX[p] \in Cell /\ DbfY[p] \in Cell
  BY SuperspreaderAssumption
<1>3. known[ActiveCopy] \subseteq Pairs
  BY <1>1 DEF PairTypeOK
<1>4. dbfX[ActiveCopy][DbfX[p]] # 0 /\ dbfY[ActiveCopy][DbfY[p]] # 0
  BY DEF PairMarked
<1>5. \E q \in known[ActiveCopy] : DbfX[q] = DbfX[p]
  BY <1>1, <1>2, <1>4 DEF MarksKnown, MarksIn
<1>6. \E q \in known[ActiveCopy] : DbfY[q] = DbfY[p]
  BY <1>1, <1>2, <1>4 DEF MarksKnown, MarksIn
<1> QED
  BY <1>3, <1>5, <1>6 DEF NoPairCollision, AloneIn

(* One pair more is at most one more for its key.                          *)
LEMMA PairsOfMore ==
  ASSUME NEW s, s \subseteq Pairs, IsFiniteSet(s), NEW p \in Pairs, NEW k \in Keys
  PROVE  /\ Cardinality(PairsOf(k, s)) \in Nat
         /\ Cardinality(PairsOf(k, s \cup {p})) =
              Cardinality(PairsOf(k, s)) + IF KeyOf[p] = k /\ p \notin s THEN 1 ELSE 0
<1>1. IsFiniteSet(PairsOf(k, s))
  <2>1. PairsOf(k, s) \subseteq s
    BY DEF PairsOf
  <2> QED
    BY <2>1, FS_Subset
<1>2. Cardinality(PairsOf(k, s)) \in Nat
  BY <1>1, FS_CardinalityType
<1>3. CASE KeyOf[p] = k /\ p \notin s
  <2>1. PairsOf(k, s \cup {p}) = PairsOf(k, s) \cup {p} /\ p \notin PairsOf(k, s)
    BY <1>3 DEF PairsOf
  <2> QED
    BY <1>1, <1>2, <1>3, <2>1, FS_AddElement
<1>4. CASE ~(KeyOf[p] = k /\ p \notin s)
  <2>1. PairsOf(k, s \cup {p}) = PairsOf(k, s)
    BY <1>4 DEF PairsOf
  <2> QED
    BY <1>2, <1>4, <2>1
<1> QED
  BY <1>3, <1>4

LEMMA NothingBetween == Between(NoCounts, NoPairs)
<1>1. \A k \in Keys : PairsOf(k, NoPairs.new) = {} /\ PairsOf(k, NoPairs.seen) = {}
  BY DEF PairsOf, NoPairs
<1>2. Cardinality({}) = 0
  BY FS_EmptySet
<1>3. ASSUME NEW k \in Keys
      PROVE  /\ Cardinality(PairsOf(k, NoPairs.new)) =< NoCounts[k]
             /\ NoCounts[k] =< Cardinality(PairsOf(k, NoPairs.seen))
  <2>1. NoCounts[k] = 0
    BY DEF NoCounts
  <2>2. Cardinality(PairsOf(k, NoPairs.new)) = 0 /\ Cardinality(PairsOf(k, NoPairs.seen)) = 0
    BY <1>1, <1>2
  <2> QED
    BY <2>1, <2>2
<1> QED
  BY <1>3 DEF Between

(* A packet of a pair that its sub-window has not seen is counted; it is   *)
(* passed over only if its copy has seen it before.                        *)
LEMMA PairPacketCounted ==
  ASSUME TypeOK, PairTypeOK, NoPairTwice, NoPairMissed, PairsCounted, NEW p \in Pairs, PairPacket(p)
  PROVE  PairsCounted'
<1>1. /\ pairs' = [seen |-> pairs.seen \cup {p},
                   new  |-> IF p \in known[ActiveCopy] THEN pairs.new ELSE pairs.new \cup {p}]
      /\ closedPairs' = closedPairs
      /\ IF PairMarked(ActiveCopy, p) THEN UNCHANGED vars ELSE Traffic(KeyOf[p])
  BY DEF PairPacket
<1>2. PICK s, n : s = pairs.seen /\ n = pairs.new
  OBVIOUS
<1>3. s \subseteq Pairs /\ n \subseteq s /\ IsFiniteSet(s) /\ IsFiniteSet(n)
  <2>1. n \subseteq s /\ s \subseteq Pairs /\ IsFiniteSet(s)
    BY <1>2 DEF PairTypeOK
  <2> QED
    BY <2>1, FS_Subset
<1>4. \A k \in Keys :
        /\ Cardinality(PairsOf(k, s)) \in Nat /\ Cardinality(PairsOf(k, n)) \in Nat
        /\ Cardinality(PairsOf(k, n)) =< seen[k] /\ seen[k] =< Cardinality(PairsOf(k, s))
        /\ seen[k] \in Nat
        /\ Cardinality(PairsOf(k, s \cup {p})) =
             Cardinality(PairsOf(k, s)) + IF KeyOf[p] = k /\ p \notin s THEN 1 ELSE 0
        /\ Cardinality(PairsOf(k, n \cup {p})) =
             Cardinality(PairsOf(k, n)) + IF KeyOf[p] = k /\ p \notin n THEN 1 ELSE 0
  <2> TAKE k \in Keys
  <2>1. n \subseteq Pairs
    BY <1>3
  <2>2. /\ Cardinality(PairsOf(k, s)) \in Nat
        /\ Cardinality(PairsOf(k, s \cup {p})) =
             Cardinality(PairsOf(k, s)) + IF KeyOf[p] = k /\ p \notin s THEN 1 ELSE 0
    BY <1>3, PairsOfMore
  <2>3. /\ Cardinality(PairsOf(k, n)) \in Nat
        /\ Cardinality(PairsOf(k, n \cup {p})) =
             Cardinality(PairsOf(k, n)) + IF KeyOf[p] = k /\ p \notin n THEN 1 ELSE 0
    BY <1>3, <2>1, PairsOfMore
  <2>4. Cardinality(PairsOf(k, n)) =< seen[k] /\ seen[k] =< Cardinality(PairsOf(k, s))
    BY <1>2 DEF PairsCounted, Between
  <2>5. seen[k] \in Nat
    BY DEF TypeOK
  <2> QED
    BY <2>2, <2>3, <2>4, <2>5
<1>5. pairs'.seen = s \cup {p} /\ pairs'.new \in {n, n \cup {p}}
      /\ (p \in known[ActiveCopy] => pairs'.new = n)
  BY <1>1, <1>2
<1>6. closed' = closed
  BY <1>1 DEF Traffic, vars, historyVars
<1>7. CASE PairMarked(ActiveCopy, p)
  <2>1. seen' = seen
    BY <1>1, <1>7 DEF vars, historyVars
  <2>2. pairs'.new = n
    BY <1>5, <1>7 DEF NoPairMissed
  <2>3. ASSUME NEW k \in Keys PROVE seen[k] =< Cardinality(PairsOf(k, s \cup {p}))
    <3>1. PICK b, x \in Nat : b = Cardinality(PairsOf(k, s)) /\ x = seen[k]
      BY <1>4
    <3>2. x =< b /\ Cardinality(PairsOf(k, s \cup {p})) = b + IF KeyOf[p] = k /\ p \notin s THEN 1 ELSE 0
      BY <1>4, <3>1
    <3> QED
      BY <3>1, <3>2
  <2> QED
    BY <1>1, <1>4, <1>5, <1>6, <2>1, <2>2, <2>3 DEF PairsCounted, Between
<1>8. CASE ~PairMarked(ActiveCopy, p)
  <2>1. p \notin s
    BY <1>2, <1>8 DEF NoPairTwice
  <2>2. \A k \in Keys : seen'[k] = seen[k] + IF KeyOf[p] = k THEN 1 ELSE 0
    BY <1>1, <1>8, SuperspreaderAssumption DEF Traffic, TypeOK
  <2>3. ASSUME NEW k \in Keys, NEW m \in {n, n \cup {p}}
        PROVE  /\ Cardinality(PairsOf(k, m)) =< seen'[k]
               /\ seen'[k] =< Cardinality(PairsOf(k, s \cup {p}))
    <3>1. PICK a, b, x \in Nat : /\ a = Cardinality(PairsOf(k, n)) /\ b = Cardinality(PairsOf(k, s))
                                 /\ x = seen[k]
      BY <1>4
    <3>2. /\ a =< x /\ x =< b
          /\ Cardinality(PairsOf(k, s \cup {p})) = b + IF KeyOf[p] = k THEN 1 ELSE 0
          /\ \/ Cardinality(PairsOf(k, m)) = a
             \/ Cardinality(PairsOf(k, m)) = a + IF KeyOf[p] = k /\ p \notin n THEN 1 ELSE 0
          /\ seen'[k] = x + IF KeyOf[p] = k THEN 1 ELSE 0
      BY <1>4, <2>1, <2>2, <2>3, <3>1
    <3> QED
      BY <3>1, <3>2
  <2> QED
    BY <1>1, <1>5, <1>6, <2>3 DEF PairsCounted, Between
<1> QED
  BY <1>7, <1>8

(* START cuts pairs and counts at the same instant, and no other step      *)
(* changes either.                                                         *)
LEMMA PairsStayCounted ==
  ASSUME InStep, PairsInStep, NoCollision, NoPairCollision, SketchRight, FilterRight,
         PairsCounted, [PairNext]_allVars
  PROVE  PairsCounted'
<1>0. TypeOK /\ PairTypeOK /\ NoPairTwice /\ MarksKnown
  BY DEF InStep, PairsInStep
<1>1. ASSUME UNCHANGED <<seen, closed, pairs, closedPairs>> PROVE PairsCounted'
  BY <1>1 DEF PairsCounted, Between
<1>2. ASSUME NEW p \in Pairs, PairPacket(p) PROVE PairsCounted'
  BY <1>0, <1>2, MarkedIsKnown, PairPacketCounted
<1>3. ASSUME NEW src \in Sources, CollectPairs(src) PROVE PairsCounted'
  <2>1. CloseSubWindow
        /\ IF epoch' # epoch THEN closedPairs' = pairs /\ pairs' = NoPairs ELSE UNCHANGED pairVars
    BY <1>3 DEF CollectPairs, Collect
  <2>2. CASE epoch' # epoch
    <3>1. /\ closed' = [k \in Keys |-> IF k \in newKeys THEN CmRead(ActiveCopy, k) ELSE 0]
          /\ seen' = NoCounts
      BY <2>1, <2>2 DEF CloseSubWindow
    <3>2. closed' = seen
      BY <1>0, <3>1, SketchIsSeen
    <3>3. closedPairs' = pairs /\ pairs' = NoPairs
      BY <2>1, <2>2
    <3>4. Between(NoCounts, NoPairs) /\ Between(seen, pairs)
      BY NothingBetween DEF PairsCounted
    <3>5. PairsCounted' = (Between(seen', pairs') /\ Between(closed', closedPairs'))
      BY DEF PairsCounted, Between
    <3> QED
      BY <3>1, <3>2, <3>3, <3>4, <3>5
  <2>3. CASE epoch' = epoch
    BY <1>1, <2>1, <2>3 DEF CloseSubWindow, pairVars
  <2> QED
    BY <2>2, <2>3
<1>4. ASSUME NEW src \in Sources, ResetPairs(src) PROVE PairsCounted'
  BY <1>1, <1>4 DEF ResetPairs, Reset, historyVars, pairVars
<1>5. CASE StartPairSwitch \/ ReceivePairs
  BY <1>1, <1>5 DEF StartPairSwitch, ReceivePairs, historyVars, pairVars
<1>6. CASE MergePairs
  <2>1. UNCHANGED <<seen, pairs>> /\ closed' = NoCounts /\ closedPairs' = NoPairs
    BY <1>6 DEF MergePairs, MergeSubWindow
  <2>2. Between(NoCounts, NoPairs) /\ Between(seen, pairs)
    BY NothingBetween DEF PairsCounted
  <2>3. PairsCounted' = (Between(seen', pairs') /\ Between(closed', closedPairs'))
    BY DEF PairsCounted, Between
  <2> QED
    BY <2>1, <2>2, <2>3
<1>7. CASE Elsewhere
  BY <1>1, <1>7 DEF Elsewhere, Query, ReportOverflow, Quit, Stopped, vars, historyVars, pairVars
<1>8. CASE UNCHANGED allVars
  BY <1>1, <1>8 DEF allVars, vars, historyVars, pairVars
<1> QED
  BY <1>2, <1>3, <1>4, <1>5, <1>6, <1>7, <1>8 DEF PairNext

-----------------------------------------------------------------------------
(***************************************************************************)
(* The theorems.                                                           *)
(***************************************************************************)

(* Switch and controller stay in step with the distinct filter between     *)
(* them: a reset packet that clears a cell carries the flag of the         *)
(* sub-window that it was sent for.                                        *)
THEOREM PairsStayInStep == Fits => (PairSpec => [](InStep /\ PairsInStep))
<1> SUFFICES ASSUME Fits PROVE PairSpec => [](InStep /\ PairsInStep)
  OBVIOUS
<1>1. PairInit => InStep /\ PairsInStep
  BY InitPairs, InitInStep DEF PairInit
<1>2. (InStep /\ PairsInStep) /\ [PairNext]_allVars => (InStep /\ PairsInStep)'
  BY PairNextInStep
<1> QED
  BY <1>1, <1>2, PTL DEF PairSpec

(* The filter that stands before the pipeline changes nothing in the types *)
(* of its registers and queues, the cells of the filter included.          *)
THEOREM PairTypeCorrect == Fits => (PairSpec => [](TypeOK /\ PairTypeOK))
<1>1. InStep /\ PairsInStep => TypeOK /\ PairTypeOK
  BY DEF InStep, PairsInStep
<1> QED
  BY <1>1, PairsStayInStep, PTL

(* A source has one place of the key buffer or one report, though several  *)
(* of its pairs are new.                                                   *)
THEOREM SourcesReportedOnce == Fits => (PairSpec => []ReportedOnce)
<1>1. InStep /\ PairsInStep => ReportedOnce
  BY InStepReportsOnce
<1> QED
  BY <1>1, PairsStayInStep, PTL

(* Whatever is cleared while a sub-window is open, its marks stay: no pair *)
(* is counted twice in it.                                                 *)
THEOREM NoPairCountedTwice == Fits => (PairSpec => []NoPairTwice)
<1>1. InStep /\ PairsInStep => NoPairTwice
  BY DEF PairsInStep
<1> QED
  BY <1>1, PairsStayInStep, PTL

(* Every flagged reset clears its copy to the last cell before the traffic *)
(* returns to it, so nothing but what was seen since is marked there.      *)
THEOREM NoNewPairMissed == Fits /\ NoPairCollision => (PairSpec => []NoPairMissed)
<1> SUFFICES ASSUME Fits, NoPairCollision PROVE PairSpec => []NoPairMissed
  OBVIOUS
<1>1. InStep /\ PairsInStep => NoPairMissed
  BY MarkedIsKnown DEF InStep, PairsInStep
<1> QED
  BY <1>1, PairsStayInStep, PTL

(* mergeData adds for each source every pair that the copy of the          *)
(* sub-window had not seen, and none that the sub-window has not, whatever *)
(* the traffic did while its counters were collected.                      *)
THEOREM DistinctMerged ==
  Fits /\ NoCollision /\ NoPairCollision => (PairSpec /\ []RoomToCount => []MergedDistinct)
<1> SUFFICES ASSUME Fits, NoCollision, NoPairCollision
             PROVE  PairSpec /\ []RoomToCount => []MergedDistinct
  OBVIOUS
<1> DEFINE Counted == Accounts /\ (SketchRight /\ FilterRight) /\ PairsCounted
<1>1. PairInit => Counted
  <2> SUFFICES ASSUME PairInit PROVE Counted
    OBVIOUS
  <2>1. Init
    BY DEF PairInit
  <2>2. Between(NoCounts, NoPairs)
    BY NothingBetween
  <2>3. PairsCounted
    BY <2>1, <2>2 DEF PairInit, Init, PairsCounted
  <2> QED
    BY <2>1, <2>3, InitAccounts, InitSketch
<1>2. (InStep /\ PairsInStep) /\ (InStep /\ PairsInStep)' /\ RoomToCount /\ Counted
        /\ [PairNext]_allVars => Counted'
  <2> SUFFICES ASSUME InStep, PairsInStep, InStep', RoomToCount, Accounts, SketchRight, FilterRight,
                      PairsCounted, [PairNext]_allVars
               PROVE  Accounts' /\ SketchRight' /\ FilterRight' /\ PairsCounted'
    OBVIOUS
  <2>1. [KeptNext]_vars /\ TypeOK
    BY PairStep DEF InStep
  <2>2. [AnyNext]_vars
    BY <2>1, KeptIsAny
  <2>3. Accounts'
    BY <2>1, KeptAccounts
  <2>4. SketchRight' /\ FilterRight'
    BY <2>2, NextSketch
  <2>5. PairsCounted'
    BY PairsStayCounted
  <2> QED
    BY <2>3, <2>4, <2>5
<1>3. Counted => MergedDistinct
  BY DEF Accounts, ValuesRight, PairsCounted, Between, MergedDistinct
<1> HIDE DEF Counted
<1>4. PairSpec => [](InStep /\ PairsInStep)
  BY PairsStayInStep
<1> QED
  BY <1>1, <1>2, <1>3, <1>4, PTL DEF PairSpec
=============================================================================

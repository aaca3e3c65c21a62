--------------------------- MODULE TxQueue_proofs ---------------------------
(***************************************************************************)
(* No packet buffer is used twice, sendReq never meets nullptr and the     *)
(* requests leave in order, for any size of the batch and of the driver    *)
(* and any pool that covers both.                                          *)
(***************************************************************************)
EXTENDS TxQueue, FiniteSetTheorems, TLAPS

-----------------------------------------------------------------------------
(***************************************************************************)
(* Sequences.                                                              *)
(***************************************************************************)

(* A sequence followed by another holds the elements of both.              *)
LEMMA ConcatKeepsOnce ==
  ASSUME NEW S, NEW s \in Seq(S), NEW t \in Seq(S)
  PROVE  /\ s \o t \in Seq(S) /\ Len(s \o t) = Len(s) + Len(t)
         /\ Range(s \o t) = Range(s) \cup Range(t)
         /\ IsInjective(s) /\ IsInjective(t) /\ Range(s) \cap Range(t) = {}
              => IsInjective(s \o t)
<1>1. /\ s \o t \in Seq(S)
      /\ Len(s \o t) = Len(s) + Len(t)
      /\ \A i \in 1 .. Len(s) : (s \o t)[i] = s[i]
      /\ \A i \in 1 .. Len(t) : (s \o t)[Len(s) + i] = t[i]
      /\ \A i \in Len(s) + 1 .. Len(s) + Len(t) :
            i - Len(s) \in 1 .. Len(t) /\ (s \o t)[i] = t[i - Len(s)]
  OBVIOUS
<1>2. /\ DOMAIN s = 1 .. Len(s)
      /\ DOMAIN t = 1 .. Len(t)
      /\ DOMAIN (s \o t) = 1 .. Len(s) + Len(t)
      /\ Len(s) \in Nat /\ Len(t) \in Nat
  OBVIOUS
<1>3. Range(s \o t) = Range(s) \cup Range(t)
  <2>1. ASSUME NEW i \in 1 .. Len(s) + Len(t)
        PROVE  (s \o t)[i] \in Range(s) \cup Range(t)
    <3>1. CASE i =< Len(s)
      BY <1>1, <1>2, <3>1 DEF Range
    <3>2. CASE i > Len(s)
      BY <1>1, <1>2, <3>2 DEF Range
    <3> QED
      BY <1>2, <3>1, <3>2
  <2>2. ASSUME NEW i \in 1 .. Len(s)
        PROVE  s[i] \in Range(s \o t)
    BY <1>1, <1>2 DEF Range
  <2>3. ASSUME NEW i \in 1 .. Len(t)
        PROVE  t[i] \in Range(s \o t)
    <3>1. Len(s) + i \in 1 .. Len(s) + Len(t)
      BY <1>2
    <3> QED
      BY <1>1, <1>2, <3>1 DEF Range
  <2> QED
    BY <1>2, <2>1, <2>2, <2>3 DEF Range
<1>4. ASSUME IsInjective(s), IsInjective(t), Range(s) \cap Range(t) = {},
             NEW i \in 1 .. Len(s) + Len(t), NEW j \in 1 .. Len(s) + Len(t),
             (s \o t)[i] = (s \o t)[j]
      PROVE  i = j
  <2>1. CASE i =< Len(s) /\ j =< Len(s)
    BY <1>1, <1>2, <1>4, <2>1 DEF IsInjective
  <2>2. CASE i > Len(s) /\ j > Len(s)
    <3>1. t[i - Len(s)] = t[j - Len(s)] /\ i - Len(s) \in 1 .. Len(t) /\ j - Len(s) \in 1 .. Len(t)
      BY <1>1, <1>2, <1>4, <2>2
    <3>2. i - Len(s) = j - Len(s)
      BY <1>2, <1>4, <3>1 DEF IsInjective
    <3> QED
      BY <1>2, <3>2
  <2>3. CASE i =< Len(s) /\ j > Len(s)
    <3>1. t[j - Len(s)] = s[i] /\ j - Len(s) \in 1 .. Len(t) /\ i \in 1 .. Len(s)
      BY <1>1, <1>2, <1>4, <2>3
    <3>2. s[i] \in Range(s) /\ s[i] \in Range(t)
      BY <1>2, <3>1 DEF Range
    <3> QED
      BY <1>4, <3>2
  <2>4. CASE i > Len(s) /\ j =< Len(s)
    <3>1. t[i - Len(s)] = s[j] /\ i - Len(s) \in 1 .. Len(t) /\ j \in 1 .. Len(s)
      BY <1>1, <1>2, <1>4, <2>4
    <3>2. s[j] \in Range(s) /\ s[j] \in Range(t)
      BY <1>2, <3>1 DEF Range
    <3> QED
      BY <1>4, <3>2
  <2>5. i \in Int /\ j \in Int /\ Len(s) \in Int
    BY <1>2
  <2> QED
    BY <2>1, <2>2, <2>3, <2>4, <2>5
<1> QED
  BY <1>1, <1>2, <1>3, <1>4 DEF IsInjective

(* A sequence that holds nothing twice loses one element with its head.    *)
LEMMA TailLosesHead ==
  ASSUME NEW S, NEW s \in Seq(S), s # <<>>, IsInjective(s)
  PROVE  /\ Head(s) \in S /\ Tail(s) \in Seq(S)
         /\ Len(Tail(s)) = Len(s) - 1
         /\ IsInjective(Tail(s))
         /\ Range(s) = Range(Tail(s)) \cup {Head(s)}
         /\ Head(s) \notin Range(Tail(s))
<1>1. /\ DOMAIN s = 1 .. Len(s) /\ Len(s) \in Nat \ {0}
      /\ Head(s) = s[1] /\ Head(s) \in S
      /\ Tail(s) \in Seq(S)
      /\ Len(Tail(s)) = Len(s) - 1
      /\ DOMAIN Tail(s) = 1 .. Len(s) - 1
      /\ \A i \in 1 .. Len(s) - 1 : Tail(s)[i] = s[i + 1]
  OBVIOUS
<1>2. IsInjective(Tail(s))
  BY <1>1 DEF IsInjective
<1>3. Head(s) \notin Range(Tail(s))
  BY <1>1 DEF IsInjective, Range
<1>4. ASSUME NEW i \in 1 .. Len(s)
      PROVE  s[i] \in Range(Tail(s)) \cup {Head(s)}
  <2>1. CASE i = 1
    BY <1>1, <2>1
  <2>2. CASE i # 1
    <3>1. i - 1 \in 1 .. Len(s) - 1 /\ Tail(s)[i - 1] = s[i]
      BY <1>1, <2>2
    <3> QED
      BY <1>1, <3>1 DEF Range
  <2> QED
    BY <2>1, <2>2
<1>5. ASSUME NEW i \in 1 .. Len(s) - 1
      PROVE  Tail(s)[i] \in Range(s)
  BY <1>1 DEF Range
<1> QED
  BY <1>1, <1>2, <1>3, <1>4, <1>5 DEF Range

(* A sequence holds no more elements than it is long.                      *)
LEMMA RangeIsShort ==
  ASSUME NEW S, NEW s \in Seq(S)
  PROVE  IsFiniteSet(Range(s)) /\ Cardinality(Range(s)) =< Len(s)
<1>1. DOMAIN s = 1 .. Len(s) /\ Len(s) \in Nat
  OBVIOUS
<1>2. IsFiniteSet(1 .. Len(s)) /\ Cardinality(1 .. Len(s)) = Len(s)
  BY <1>1, FS_Interval
<1>3. Range(s) = {s[i] : i \in 1 .. Len(s)}
  BY <1>1 DEF Range
<1>4. s \in [1 .. Len(s) -> Range(s)]
  BY <1>1 DEF Range
<1>5. s \in Surjection(1 .. Len(s), Range(s))
  BY <1>1, <1>4 DEF Surjection, Range
<1> QED
  BY <1>2, <1>5, FS_Surjection

(* Two sets have together no more elements than they have apart.           *)
LEMMA UnionIsShort ==
  ASSUME NEW S, NEW T, IsFiniteSet(S), IsFiniteSet(T)
  PROVE  /\ IsFiniteSet(S \cup T)
         /\ Cardinality(S \cup T) =< Cardinality(S) + Cardinality(T)
<1>1. /\ IsFiniteSet(S \cup T)
      /\ Cardinality(S \cup T) = Cardinality(S) + Cardinality(T) - Cardinality(S \cap T)
  BY FS_Union
<1>2. Cardinality(S \cap T) \in Nat
  <2>1. S \cap T \in SUBSET S
    OBVIOUS
  <2> QED
    BY <2>1, FS_Subset, FS_CardinalityType
<1>3. Cardinality(S) \in Nat /\ Cardinality(T) \in Nat
  BY FS_CardinalityType
<1> QED
  BY <1>1, <1>2, <1>3

-----------------------------------------------------------------------------
(***************************************************************************)
(* The pool is never short of buffers.                                     *)
(***************************************************************************)

(* No place of the batch holds nullptr, so flush replaces what it sent.    *)
LEMMA RefillToIsSize ==
  ASSUME IInv, flushed = size
  PROVE  RefillTo = size
<1>1. size \in Nat /\ size =< Batch /\ Batch \in Nat
  BY TxQueueAssumption DEF IInv, TypeOK
<1>2. ASSUME size < Batch PROVE buffer[size] # Null
  BY <1>1, <1>2 DEF IInv, OwnedOnce, Own, Places, Index
<1> DEFINE Right(n) == /\ \A i \in size .. n - 1 : buffer[i] = Null
                       /\ n < Batch => buffer[n] # Null
<1>3. size \in size .. Batch /\ Right(size)
  BY <1>1, <1>2
<1>4. ASSUME NEW n \in size .. Batch, Right(n)
      PROVE  n = size
  <2>1. CASE n > size
    <3>1. size < Batch /\ size \in size .. n - 1
      BY <1>1, <2>1
    <3> QED
      BY <1>2, <1>4, <3>1
  <2> QED
    BY <1>1, <2>1
<1>5. RefillTo = CHOOSE n \in size .. Batch : Right(n)
  BY DEF RefillTo
<1> HIDE DEF Right
<1> QED
  BY <1>3, <1>4, <1>5

(* What is neither in the batch nor with the driver is in the pool.        *)
LEMMA EnoughInPool ==
  ASSUME IInv, flushed = size
  PROVE  IsFiniteSet(pool) /\ Cardinality(pool) \in Nat /\ size =< Cardinality(pool)
<1> DEFINE D == Range(driver)
<1>1. /\ size \in 0 .. Batch /\ Batch \in Nat /\ TxDesc \in Nat
      /\ buffer \in [Index -> Mbufs \cup {Null}]
      /\ driver \in Seq(Mbufs) /\ done \subseteq Mbufs /\ pool \subseteq Mbufs
      /\ Len(driver) + Cardinality(done) =< TxDesc
      /\ Mbufs = Own \cup pool \cup done \cup D
      /\ IsFiniteSet(Mbufs) /\ Cardinality(Mbufs) >= TxDesc + Batch
  BY TxQueueAssumption DEF IInv, TypeOK, OwnedOnce, DriverFits
<1>2. IsFiniteSet(pool) /\ IsFiniteSet(done)
  BY <1>1, FS_Subset
<1>3. IsFiniteSet(D) /\ Cardinality(D) =< Len(driver)
  BY <1>1, RangeIsShort
<1>4. IsFiniteSet(Own) /\ Cardinality(Own) =< Batch - size
  <2>1. Places = size .. Batch - 1
    BY <1>1 DEF Places, Index
  <2>2. IsFiniteSet(Places) /\ Cardinality(Places) = Batch - size
    <3>1. size \in Int /\ Batch - 1 \in Int
      BY <1>1
    <3>2. /\ IsFiniteSet(size .. Batch - 1)
          /\ Cardinality(size .. Batch - 1) =
               IF size > Batch - 1 THEN 0 ELSE Batch - 1 - size + 1
      BY <3>1, FS_Interval
    <3> QED
      BY <1>1, <2>1, <3>2
  <2> DEFINE f == [i \in Places |-> buffer[i]]
  <2>3. f \in Surjection(Places, Own)
    BY DEF Surjection, Own, Range
  <2> QED
    BY <2>2, <2>3, FS_Surjection
<1>5. /\ IsFiniteSet(Own \cup pool)
      /\ Cardinality(Own \cup pool) =< Cardinality(Own) + Cardinality(pool)
  BY <1>2, <1>4, UnionIsShort
<1>6. /\ IsFiniteSet(done \cup D)
      /\ Cardinality(done \cup D) =< Cardinality(done) + Cardinality(D)
  BY <1>2, <1>3, UnionIsShort
<1>7. Mbufs = (Own \cup pool) \cup (done \cup D)
  BY <1>1
<1>8. Cardinality(Mbufs) =< Cardinality(Own \cup pool) + Cardinality(done \cup D)
  BY <1>5, <1>6, <1>7, UnionIsShort
<1>9. /\ Cardinality(Mbufs) \in Nat /\ Cardinality(Own) \in Nat
      /\ Cardinality(pool) \in Nat /\ Cardinality(done) \in Nat /\ Cardinality(D) \in Nat
      /\ Cardinality(Own \cup pool) \in Nat /\ Cardinality(done \cup D) \in Nat
      /\ Len(driver) \in Nat
  BY <1>1, <1>2, <1>3, <1>4, <1>5, <1>6, FS_CardinalityType
<1> QED
  BY <1>1, <1>2, <1>3, <1>4, <1>5, <1>6, <1>8, <1>9

-----------------------------------------------------------------------------
(***************************************************************************)
(* The steps.                                                              *)
(***************************************************************************)

(* There are enough buffers for the constructor.                           *)
LEMMA InitEstablishes == ASSUME Init PROVE IInv
<1>1. Batch \in Nat \ {0} /\ TxDesc \in Nat \ {0} /\ IsFiniteSet(Mbufs) /\ MaxReqs \in Nat
      /\ Cardinality(Mbufs) \in Nat /\ Cardinality(Mbufs) >= TxDesc + Batch
  BY TxQueueAssumption, FS_CardinalityType
<1>2. \E f \in [Index -> Mbufs] : \A i, j \in Index : f[i] = f[j] => i = j
  <2>1. ExistsBijection(1 .. Cardinality(Mbufs), Mbufs)
    BY <1>1, FS_CardinalityType
  <2>2. PICK g \in [1 .. Cardinality(Mbufs) -> Mbufs] :
          \A i, j \in 1 .. Cardinality(Mbufs) : g[i] = g[j] => i = j
    BY <2>1 DEF ExistsBijection, Bijection, Injection, IsInjective
  <2>3. \A i \in Index : i + 1 \in 1 .. Cardinality(Mbufs)
    BY <1>1 DEF Index
  <2> DEFINE f == [i \in Index |-> g[i + 1]]
  <2>4. f \in [Index -> Mbufs]
    BY <2>2, <2>3
  <2>5. ASSUME NEW i \in Index, NEW j \in Index, f[i] = f[j]
        PROVE  i = j
    BY <2>2, <2>3, <2>5 DEF Index
  <2> QED
    BY <2>4, <2>5
<1>3. buffer \in [Index -> Mbufs] /\ \A i, j \in Index : buffer[i] = buffer[j] => i = j
  BY <1>2 DEF Init
<1>4. Places = Index
  BY DEF Init, Places, Index
<1>5. Range(driver) = {} /\ IsInjective(driver) /\ Len(driver) = 0 /\ driver \in Seq(Mbufs)
  BY DEF Init, Range, IsInjective
<1>6. Cardinality(done) = 0
  BY FS_EmptySet DEF Init
<1>7. TypeOK
  <2>1. content \in [Mbufs -> 0 .. MaxReqs] /\ wire \in Seq(0 .. MaxReqs)
    BY <1>1 DEF Init
  <2>2. size \in 0 .. Batch /\ flushed \in 0 .. size /\ sent \in 0 .. MaxReqs
    BY <1>1 DEF Init
  <2>3. buffer \in [Index -> Mbufs \cup {Null}]
    BY <1>3
  <2> QED
    BY <1>5, <2>1, <2>2, <2>3 DEF Init, TypeOK
<1>8. OwnedOnce
  <2>1. Own = {buffer[i] : i \in Index} /\ Own \subseteq Mbufs
    BY <1>3, <1>4 DEF Own
  <2>2. pool = Mbufs \ Own /\ done = {}
    BY <2>1 DEF Init
  <2> QED
    BY <1>3, <1>4, <1>5, <2>1, <2>2, TxQueueAssumption DEF OwnedOnce
<1>9. DriverFits
  BY <1>1, <1>5, <1>6 DEF DriverFits
<1> QED
  BY <1>7, <1>8, <1>9 DEF Init, IInv, FlushInFlush, NeverNull

(* Between two calls nothing is half flushed, so a batch that need not be  *)
(* flushed has a buffer for the next request.                              *)
LEMMA SendReqPreserves == ASSUME IInv, NEW f \in BOOLEAN, SendReq(f) PROVE IInv'
<1>1. /\ TypeOK /\ OwnedOnce /\ DriverFits /\ flushed = 0 /\ pc = "idle"
      /\ size \in 0 .. Batch /\ Batch \in Nat \ {0} /\ sent \in 0 .. MaxReqs /\ MaxReqs \in Nat
  BY TxQueueAssumption DEF IInv, SendReq, FlushInFlush, TypeOK
<1>2. UNCHANGED <<buffer, size, flushed, content, pool, driver, done, wire>>
  BY DEF SendReq, deviceVars
<1>3. TypeOK'
  BY <1>1, <1>2 DEF SendReq, TypeOK
<1>4. OwnedOnce' /\ DriverFits' /\ flushed' = 0
  BY <1>1, <1>2 DEF OwnedOnce, DriverFits, Own, Places
<1>5. ASSUME pc' = "write" PROVE size < Batch /\ buffer[size] # Null
  <2>1. CASE ~ MustFlush
    BY <1>1, <2>1 DEF MustFlush
  <2>2. CASE size = 0
    <3>1. 0 \in Places
      BY <1>1 DEF Places, Index
    <3> QED
      BY <1>1, <2>2, <3>1 DEF OwnedOnce, Own
  <2> QED
    BY <1>5, <2>1, <2>2 DEF SendReq
<1> QED
  BY <1>2, <1>3, <1>4, <1>5 DEF SendReq, IInv, FlushInFlush, NeverNull

LEMMA WriteRequestPreserves == ASSUME IInv, WriteRequest PROVE IInv'
<1>1. /\ TypeOK /\ OwnedOnce /\ DriverFits /\ flushed = 0 /\ pc = "write"
      /\ size \in 0 .. Batch /\ size < Batch /\ buffer[size] # Null /\ Batch \in Nat \ {0}
  BY TxQueueAssumption DEF IInv, WriteRequest, FlushInFlush, NeverNull, TypeOK
<1>2. UNCHANGED <<buffer, flushed, pool, driver, done, wire, sent, doFlush>>
  BY DEF WriteRequest, deviceVars
<1>3. /\ content' = [content EXCEPT ![buffer[size]] = sent]
      /\ size' = size + 1
      /\ pc' \in {"flushAfter", "idle"}
  BY <1>1 DEF WriteRequest, AfterWrite
<1>4. TypeOK'
  <2>1. size' \in 0 .. Batch /\ flushed' \in 0 .. size'
    BY <1>1, <1>2, <1>3
  <2>2. content' \in [Mbufs -> 0 .. MaxReqs]
    BY <1>1, <1>3 DEF TypeOK
  <2> QED
    BY <1>1, <1>2, <1>3, <2>1, <2>2 DEF TypeOK
<1>5. OwnedOnce' /\ DriverFits'
  BY <1>1, <1>2 DEF OwnedOnce, DriverFits, Own, Places
<1> QED
  BY <1>1, <1>2, <1>3, <1>4, <1>5 DEF IInv, FlushInFlush, NeverNull

(* What a burst hands over leaves the batch.                               *)
LEMMA TxBurstPreserves ==
  ASSUME IInv, NEW free \in SUBSET done, NEW n \in 0 .. Batch, TxBurst(free, n)
  PROVE  IInv'
<1>1. /\ TypeOK /\ OwnedOnce /\ pc \in {"flushFirst", "flushAfter"}
      /\ size \in 0 .. Batch /\ flushed \in 0 .. size /\ Batch \in Nat \ {0}
      /\ buffer \in [Index -> Mbufs \cup {Null}]
      /\ driver \in Seq(Mbufs) /\ done \subseteq Mbufs /\ pool \subseteq Mbufs
      /\ Null \notin Own
  BY TxQueueAssumption DEF IInv, TxBurst, TypeOK, OwnedOnce
<1>2. /\ UNCHANGED <<pc, doFlush, buffer, size, content, sent, wire>>
      /\ done' = done \ free /\ pool' = pool \cup free
      /\ n \in 0 .. size - flushed
      /\ Len(driver) + Cardinality(done') + n =< TxDesc
      /\ driver' = driver \o Burst(n) /\ flushed' = flushed + n
  BY DEF TxBurst
<1> DEFINE B == Range(Burst(n))
<1>3. \A i \in 1 .. n : flushed + i - 1 \in Places /\ flushed + i - 1 < flushed + n
  BY <1>1, <1>2 DEF Places, Index
<1>4. /\ Burst(n) \in Seq(Mbufs) /\ Len(Burst(n)) = n
      /\ IsInjective(Burst(n)) /\ B \subseteq Own
  <2>1. \A i \in 1 .. n : buffer[flushed + i - 1] \in Own /\ buffer[flushed + i - 1] \in Mbufs
    BY <1>1, <1>3 DEF Own, Places
  <2>2. Burst(n) \in Seq(Mbufs) /\ Len(Burst(n)) = n /\ DOMAIN Burst(n) = 1 .. n
    <3>1. n \in Nat
      BY <1>1, <1>2
    <3>2. Burst(n) \in [1 .. n -> Mbufs]
      BY <2>1 DEF Burst
    <3> HIDE DEF Burst
    <3> QED
      BY <3>1, <3>2
  <2>3. B \subseteq Own
    BY <2>1, <2>2 DEF Burst, Range
  <2>4. ASSUME NEW i \in 1 .. n, NEW j \in 1 .. n, Burst(n)[i] = Burst(n)[j]
        PROVE  i = j
    <3>1. buffer[flushed + i - 1] = buffer[flushed + j - 1]
      BY <2>4 DEF Burst
    <3>2. flushed + i - 1 = flushed + j - 1
      BY <1>1, <1>3, <3>1 DEF OwnedOnce
    <3> QED
      BY <1>1, <3>2
  <2> QED
    BY <2>2, <2>3, <2>4 DEF IsInjective
<1>5. Places' = {i \in Places : i >= flushed + n} /\ Places' \subseteq Places
  BY <1>1, <1>2 DEF Places, Index
<1>6. Own = Own' \cup B /\ Own' \cap B = {}
  <2>1. Own' = {buffer[i] : i \in Places'}
    BY <1>2 DEF Own
  <2>2. ASSUME NEW i \in Places PROVE buffer[i] \in Own' \cup B
    <3>1. CASE i >= flushed + n
      BY <1>5, <2>1, <3>1
    <3>2. CASE i < flushed + n
      <4>1. i - flushed + 1 \in 1 .. n /\ Burst(n)[i - flushed + 1] = buffer[i]
        BY <1>1, <1>2, <3>2 DEF Places, Index, Burst
      <4>2. DOMAIN Burst(n) = 1 .. n
        BY DEF Burst
      <4> QED
        BY <4>1, <4>2 DEF Range
    <3> QED
      BY <1>1, <1>2, <3>1, <3>2 DEF Places, Index
  <2>3. Own' \subseteq Own
    BY <1>5, <2>1 DEF Own
  <2>4. ASSUME NEW m \in Own', m \in B PROVE FALSE
    <3>1. PICK i \in Places : i >= flushed + n /\ buffer[i] = m
      BY <1>5, <2>1, <2>4
    <3>2. PICK j \in 1 .. n : buffer[flushed + j - 1] = m
      BY <2>4 DEF Range, Burst
    <3>3. i = flushed + j - 1
      BY <1>1, <1>3, <3>1, <3>2 DEF OwnedOnce
    <3> QED
      BY <1>1, <1>2, <3>1, <3>2, <3>3
  <2> QED
    BY <1>4, <2>2, <2>3, <2>4 DEF Own
<1>7. /\ driver' \in Seq(Mbufs) /\ Len(driver') = Len(driver) + n
      /\ Range(driver') = Range(driver) \cup B
      /\ IsInjective(driver')
  <2>1. IsInjective(driver) /\ Range(driver) \cap B = {}
    BY <1>1, <1>4 DEF OwnedOnce
  <2>2. driver \in Seq(Mbufs) /\ IsInjective(driver)
    BY <1>1, <2>1
  <2>3. Burst(n) \in Seq(Mbufs) /\ IsInjective(Burst(n)) /\ Len(Burst(n)) = n
    BY <1>4
  <2>4. driver' = driver \o Burst(n)
    BY <1>2
  <2> HIDE DEF Burst
  <2>5. /\ driver \o Burst(n) \in Seq(Mbufs)
        /\ Len(driver \o Burst(n)) = Len(driver) + Len(Burst(n))
        /\ Range(driver \o Burst(n)) = Range(driver) \cup Range(Burst(n))
        /\ IsInjective(driver) /\ IsInjective(Burst(n))
           /\ Range(driver) \cap Range(Burst(n)) = {} => IsInjective(driver \o Burst(n))
    <3> HIDE DEF B
    <3> QED
      BY <2>2, <2>3, ConcatKeepsOnce
  <2> QED
    BY <2>1, <2>2, <2>3, <2>4, <2>5
<1>8. TypeOK'
  <2>1. flushed' \in 0 .. size'
    BY <1>1, <1>2
  <2> QED
    BY <1>1, <1>2, <1>7, <2>1 DEF TypeOK
<1>9. OwnedOnce'
  <2>1. \A i, j \in Places' : buffer[i] = buffer[j] => i = j
    BY <1>1, <1>5 DEF OwnedOnce
  <2>2. /\ Own \cap (pool \cup done \cup Range(driver)) = {}
        /\ pool \cap (done \cup Range(driver)) = {}
        /\ done \cap Range(driver) = {}
        /\ Mbufs = Own \cup pool \cup done \cup Range(driver)
    BY <1>1 DEF OwnedOnce
  <2>3. /\ Own' \cap (pool' \cup done' \cup Range(driver')) = {}
        /\ pool' \cap (done' \cup Range(driver')) = {}
        /\ done' \cap Range(driver') = {}
        /\ Mbufs = Own' \cup pool' \cup done' \cup Range(driver')
    BY <1>2, <1>4, <1>6, <1>7, <2>2
  <2> QED
    BY <1>1, <1>2, <1>6, <1>7, <2>1, <2>3 DEF OwnedOnce
<1>10. DriverFits'
  <2>1. Len(driver) \in Nat
    BY <1>1
  <2>2. IsFiniteSet(done')
    BY <1>1, <1>2, TxQueueAssumption, FS_Subset
  <2>3. Cardinality(done') \in Nat
    BY <2>2, FS_CardinalityType
  <2> QED
    BY <1>2, <1>7, <2>1, <2>3 DEF DriverFits
<1> QED
  BY <1>1, <1>2, <1>8, <1>9, <1>10 DEF IInv, FlushInFlush, NeverNull

(* The device moves a packet from the driver to done.                      *)
LEMMA TransmitPreserves == ASSUME IInv, Transmit PROVE IInv'
<1>1. /\ TypeOK /\ OwnedOnce /\ DriverFits
      /\ driver \in Seq(Mbufs) /\ driver # <<>> /\ IsInjective(driver)
      /\ content \in [Mbufs -> 0 .. MaxReqs] /\ wire \in Seq(0 .. MaxReqs)
      /\ done \subseteq Mbufs
  BY DEF IInv, Transmit, TypeOK, OwnedOnce
<1>2. /\ UNCHANGED <<pc, doFlush, buffer, size, flushed, content, pool, sent>>
      /\ done' = done \cup {Head(driver)} /\ driver' = Tail(driver)
      /\ wire' = Append(wire, content[Head(driver)])
  BY DEF Transmit, queueVars
<1>3. /\ Head(driver) \in Mbufs /\ driver' \in Seq(Mbufs)
      /\ Len(driver') = Len(driver) - 1 /\ IsInjective(driver')
      /\ Range(driver) = Range(driver') \cup {Head(driver)}
      /\ Head(driver) \notin Range(driver')
  BY <1>1, <1>2, TailLosesHead
<1>4. TypeOK'
  <2>1. wire' \in Seq(0 .. MaxReqs)
    BY <1>1, <1>2, <1>3
  <2> QED
    BY <1>1, <1>2, <1>3, <2>1 DEF TypeOK
<1>5. OwnedOnce'
  <2>1. Places' = Places /\ Own' = Own
    BY <1>2 DEF Own, Places
  <2> QED
    BY <1>1, <1>2, <1>3, <2>1 DEF OwnedOnce
<1>6. DriverFits'
  <2>1. IsFiniteSet(done) /\ Head(driver) \notin done
    <3>1. Head(driver) \in Range(driver)
      BY <1>3
    <3>2. IsFiniteSet(done)
      BY <1>1, TxQueueAssumption, FS_Subset
    <3> QED
      BY <1>1, <3>1, <3>2 DEF OwnedOnce
  <2>2. Cardinality(done') = Cardinality(done) + 1 /\ Cardinality(done) \in Nat
    BY <1>2, <2>1, FS_AddElement, FS_CardinalityType
  <2>3. Len(driver) \in Nat
    BY <1>1
  <2> QED
    BY <1>1, <1>2, <1>3, <2>2, <2>3, TxQueueAssumption DEF DriverFits
<1> QED
  BY <1>2, <1>4, <1>5, <1>6 DEF IInv, FlushInFlush, NeverNull

(* The new buffers come from the pool and go to the places that were sent. *)
LEMMA RefillPreserves ==
  ASSUME IInv, NEW new \in UNION {[1 .. n -> pool] : n \in 0 .. Batch}, Refill(new)
  PROVE  IInv'
<1> DEFINE N == {new[i] : i \in 1 .. size}
<1>1. /\ TypeOK /\ OwnedOnce /\ DriverFits /\ pc \in {"flushFirst", "flushAfter"}
      /\ flushed = size /\ size \in 0 .. Batch /\ Batch \in Nat \ {0}
      /\ buffer \in [Index -> Mbufs \cup {Null}]
      /\ pool \subseteq Mbufs /\ Null \notin Mbufs
  BY TxQueueAssumption DEF IInv, Refill, TypeOK
<1>2. RefillTo = size /\ Cardinality(pool) \in Nat /\ size =< Cardinality(pool)
  BY <1>1, RefillToIsSize, EnoughInPool
<1>3. /\ new \in [1 .. size -> pool] /\ Len(new) = size
      /\ \A i, j \in 1 .. size : new[i] = new[j] => i = j
  <2>1. Len(new) = size
    BY <1>2 DEF Refill
  <2>2. PICK n \in 0 .. Batch : new \in [1 .. n -> pool]
    OBVIOUS
  <2>3. n \in Nat
    BY <1>1, <2>2
  <2>4. Len(new) = n /\ DOMAIN new = 1 .. n
    BY <2>2, <2>3
  <2>5. n = size
    BY <2>1, <2>4
  <2> QED
    BY <2>1, <2>2, <2>4, <2>5 DEF Refill, IsInjective
<1>4. /\ UNCHANGED <<doFlush, content, driver, done, sent, wire>>
      /\ pool' = pool \ N /\ size' = 0 /\ flushed' = 0
      /\ pc' \in {"write", "idle"}
      /\ buffer' = NewBuffers(new)
  BY <1>3 DEF Refill
<1>5. \A i \in Index : buffer'[i] = IF i < size THEN new[i + 1] ELSE buffer[i]
  BY <1>1, <1>2, <1>3, <1>4 DEF NewBuffers, Index
<1>6. Places = {i \in Index : i >= size} /\ Places' = Index
  BY <1>1, <1>4 DEF Places, Index
<1>7. N \subseteq pool
  BY <1>3
<1>8. \A i \in Index : /\ i < size => i + 1 \in 1 .. size /\ buffer'[i] \in N
                       /\ ~ (i < size) => i \in Places /\ buffer'[i] \in Own
  BY <1>1, <1>3, <1>5, <1>6, SMTT(20) DEF Index, Own
<1>9. Own' = Own \cup N
  <2>1. Own' = {buffer'[i] : i \in Index}
    BY <1>6 DEF Own
  <2>2. \A i \in Places : i \in Index /\ buffer'[i] = buffer[i]
    BY <1>1, <1>5, <1>6 DEF Index
  <2>3. \A i \in 1 .. size : i - 1 \in Index /\ buffer'[i - 1] = new[i]
    <3>1. \A i \in 1 .. size : i - 1 \in Index /\ i - 1 < size /\ (i - 1) + 1 = i
      BY <1>1 DEF Index
    <3> QED
      BY <1>5, <3>1
  <2>4. Own \subseteq Own'
    BY <2>1, <2>2 DEF Own
  <2>5. N \subseteq Own'
    BY <2>1, <2>3
  <2>6. Own' \subseteq Own \cup N
    BY <1>8, <2>1
  <2> QED
    BY <2>4, <2>5, <2>6
<1>10. Own \cap pool = {} /\ Null \notin Own
  BY <1>1 DEF OwnedOnce
<1>11. ASSUME NEW i \in Index, NEW j \in Index, buffer'[i] = buffer'[j]
       PROVE  i = j
  <2>1. CASE i < size /\ j < size
    <3>1. new[i + 1] = new[j + 1] /\ i + 1 \in 1 .. size /\ j + 1 \in 1 .. size
      BY <1>5, <1>8, <1>11, <2>1
    <3>2. i + 1 = j + 1
      BY <1>3, <3>1
    <3> QED
      BY <3>2 DEF Index
  <2>2. CASE ~ (i < size) /\ ~ (j < size)
    BY <1>1, <1>5, <1>8, <1>11, <2>2 DEF OwnedOnce
  <2>3. CASE (i < size) # (j < size)
    BY <1>7, <1>8, <1>10, <1>11, <2>3
  <2> QED
    BY <2>1, <2>2, <2>3
<1>12. OwnedOnce'
  <2>1. /\ Own \cap (pool \cup done \cup Range(driver)) = {}
        /\ pool \cap (done \cup Range(driver)) = {}
        /\ done \cap Range(driver) = {} /\ IsInjective(driver)
        /\ Mbufs = Own \cup pool \cup done \cup Range(driver)
    BY <1>1 DEF OwnedOnce
  <2>2. /\ Own' \cap (pool' \cup done' \cup Range(driver')) = {}
        /\ pool' \cap (done' \cup Range(driver')) = {}
        /\ done' \cap Range(driver') = {} /\ IsInjective(driver')
        /\ Mbufs = Own' \cup pool' \cup done' \cup Range(driver')
        /\ Null \notin Own'
    BY <1>1, <1>4, <1>7, <1>9, <1>10, <2>1
  <2> QED
    BY <1>6, <1>11, <2>2 DEF OwnedOnce
<1>13. TypeOK'
  <2>1. buffer' \in [Index -> Mbufs \cup {Null}]
    <3>1. \A i \in Index : buffer'[i] \in Mbufs \cup {Null}
      BY <1>1, <1>5, <1>7, <1>8
    <3>2. buffer' = [i \in Index |-> buffer'[i]]
      BY <1>4 DEF NewBuffers
    <3> QED
      BY <3>1, <3>2
  <2>2. size' \in 0 .. Batch /\ flushed' \in 0 .. size' /\ pool' \subseteq Mbufs
    BY <1>1, <1>4
  <2> QED
    BY <1>1, <1>4, <2>1, <2>2 DEF TypeOK
<1>14. size' < Batch /\ buffer'[size'] # Null
  <2>1. 0 \in Index
    BY <1>1 DEF Index
  <2>2. buffer'[0] \in Own'
    BY <1>6, <2>1 DEF Own
  <2> QED
    BY <1>1, <1>4, <1>12, <2>2 DEF OwnedOnce
<1>15. DriverFits'
  BY <1>1, <1>4 DEF DriverFits
<1> QED
  BY <1>4, <1>12, <1>13, <1>14, <1>15 DEF IInv, FlushInFlush, NeverNull

-----------------------------------------------------------------------------
(* The state of the queue is always one of IInv: its types, OwnedOnce and  *)
(* NeverNull among them.                                                   *)
THEOREM Invariant == Spec => []IInv
<1>1. Init => IInv
  BY InitEstablishes
<1>2. IInv /\ [Next]_vars => IInv'
  <2> SUFFICES ASSUME IInv, [Next]_vars PROVE IInv'
    OBVIOUS
  <2>1. CASE \E f \in BOOLEAN : SendReq(f)
    BY <2>1, SendReqPreserves
  <2>2. CASE WriteRequest
    BY <2>2, WriteRequestPreserves
  <2>3. CASE \E free \in SUBSET done, n \in 0 .. Batch : TxBurst(free, n)
    BY <2>3, TxBurstPreserves
  <2>4. CASE \E new \in UNION {[1 .. n -> pool] : n \in 0 .. Batch} : Refill(new)
    BY <2>4, RefillPreserves
  <2>5. CASE Transmit
    BY <2>5, TransmitPreserves
  <2>6. CASE UNCHANGED vars
    <3>1. UNCHANGED <<pc, doFlush, buffer, size, flushed, content, pool, driver, done, sent, wire>>
      BY <2>6 DEF vars, queueVars, deviceVars
    <3> QED
      BY <3>1 DEF IInv, TypeOK, OwnedOnce, DriverFits, FlushInFlush, NeverNull, Own, Places
  <2> QED
    BY <2>1, <2>2, <2>3, <2>4, <2>5, <2>6 DEF Next
<1> QED
  BY <1>1, <1>2, PTL DEF Spec

(* No buffer is ever in two places, and none is lost: what getPacket hands *)
(* out is neither free nor waiting to be transmitted.                      *)
THEOREM BuffersOwnedOnce == Spec => []OwnedOnce
<1>1. IInv => OwnedOnce
  BY DEF IInv
<1> QED
  BY <1>1, Invariant, PTL

(* sendReq never writes to nullptr, though rte_pktmbuf_alloc may fail.     *)
THEOREM NeverNullOnWrite == Spec => []NeverNull
<1>1. IInv => NeverNull
  BY DEF IInv
<1> QED
  BY <1>1, Invariant, PTL
-----------------------------------------------------------------------------
(***************************************************************************)
(* The queue implements RequestLink: what waits there is what the driver   *)
(* holds and, behind it, what the batch holds.                             *)
(***************************************************************************)
(* A function on 1 .. n is a sequence of that length.                      *)
LEMMA FunctionIsSeq ==
  ASSUME NEW S, NEW n \in Nat, NEW f \in [1 .. n -> S]
  PROVE  f \in Seq(S) /\ Len(f) = n
<1>1. f \in Seq(S)
  OBVIOUS
<1>2. DOMAIN f = 1 .. n /\ DOMAIN f = 1 .. Len(f) /\ Len(f) \in Nat
  BY <1>1
<1> QED
  BY <1>1, <1>2

(* Two sequences with the same elements in the same places are the same.   *)
LEMMA SameSeq ==
  ASSUME NEW S, NEW s \in Seq(S), NEW t \in Seq(S), Len(s) = Len(t),
         \A i \in 1 .. Len(s) : s[i] = t[i]
  PROVE  s = t
  OBVIOUS

(* What waits: the packets of the driver, then those of the batch.         *)
Waiting == Held \o Batched

WaitingAt ==
  /\ Waiting \in Seq(0 .. MaxReqs)
  /\ Len(Waiting) = Len(driver) + size - flushed
  /\ \A i \in 1 .. Len(driver) : Waiting[i] = content[driver[i]]
  /\ \A i \in 1 .. size - flushed :
        Waiting[Len(driver) + i] = content[buffer[flushed + i - 1]]

(* Where each request of the driver and of the batch stands in the line.   *)
LEMMA PlaceInLine == IInv => WaitingAt
<1> SUFFICES ASSUME IInv PROVE WaitingAt
  OBVIOUS
<1> DEFINE D == 0 .. MaxReqs
           n == Len(driver)
           m == size - flushed
<1>1. driver \in Seq(Mbufs)
  BY DEF IInv, TypeOK
<1>2. /\ content \in [Mbufs -> 0 .. MaxReqs]
      /\ size \in Nat /\ flushed \in 0 .. size /\ n \in Nat /\ m \in Nat
  BY <1>1, TxQueueAssumption DEF IInv, TypeOK
<1>3. \A i \in 1 .. m : content[buffer[flushed + i - 1]] \in D
  <2>1. ASSUME NEW i \in 1 .. m PROVE buffer[flushed + i - 1] \in Mbufs
    <3>1. flushed + i - 1 \in Places
      BY <1>2, TxQueueAssumption DEF IInv, TypeOK, Places, Index
    <3>2. buffer[flushed + i - 1] \in Mbufs \cup {Null}
      BY <3>1 DEF IInv, TypeOK, Places
    <3>3. buffer[flushed + i - 1] # Null
      BY <3>1 DEF IInv, OwnedOnce, Own
    <3> QED
      BY <3>2, <3>3
  <2> QED
    BY <1>2, <2>1
<1>4. \A i \in 1 .. n : content[driver[i]] \in D
  BY <1>1, <1>2
<1>5. Held \in [1 .. n -> D] /\ Batched \in [1 .. m -> D]
  BY <1>3, <1>4 DEF Held, Batched
<1>6. /\ \A i \in 1 .. m : Batched[i] = content[buffer[flushed + i - 1]]
      /\ \A i \in 1 .. n : Held[i] = content[driver[i]]
  BY DEF Batched, Held
<1> HIDE DEF D, n, m
<1>7. Held \in Seq(D)
  BY <1>2, <1>5, FunctionIsSeq
<1>8. Batched \in Seq(D)
  BY <1>2, <1>5, FunctionIsSeq
<1>9. Len(Held) = n /\ Len(Batched) = m
  BY <1>2, <1>5, FunctionIsSeq
<1>10. /\ Held \o Batched \in Seq(D) /\ Len(Held \o Batched) = Len(Held) + Len(Batched)
       /\ \A i \in 1 .. Len(Held) : (Held \o Batched)[i] = Held[i]
       /\ \A i \in 1 .. Len(Batched) : (Held \o Batched)[Len(Held) + i] = Batched[i]
  BY <1>7, <1>8
<1>11. Len(driver) + size - flushed = n + m
  BY <1>1, <1>2 DEF n, m
<1> QED
  BY <1>6, <1>9, <1>10, <1>11 DEF WaitingAt, Waiting, D, n, m

(* A request joins the end of the line when it is written to its packet:   *)
(* the packets in front of it are other packets and keep their content.    *)
LEMMA WriteJoinsTheLine ==
  ASSUME IInv, IInv', WriteRequest
  PROVE  Waiting' = Append(Waiting, sent) /\ UNCHANGED wire
<1>1. WaitingAt /\ WaitingAt'
  BY PlaceInLine, PTL
<1>2. /\ pc = "write" /\ flushed = 0 /\ size < Batch /\ buffer[size] # Null
      /\ size \in Nat /\ Batch \in Nat /\ sent \in 0 .. MaxReqs
      /\ buffer[size] \in Mbufs /\ content \in [Mbufs -> 0 .. MaxReqs]
  BY TxQueueAssumption DEF IInv, TypeOK, WriteRequest, FlushInFlush, NeverNull, Index
<1>3. /\ UNCHANGED <<buffer, flushed, driver, wire>>
      /\ content' = [content EXCEPT ![buffer[size]] = sent] /\ size' = size + 1
  BY <1>2 DEF WriteRequest, deviceVars
<1>4. driver \in Seq(Mbufs)
  BY DEF IInv, TypeOK
<1>5. PICK n \in Nat : n = Len(driver)
  BY <1>4
<1>6. \A i \in 1 .. n : content'[driver[i]] = content[driver[i]]
  <2>1. \A i \in 1 .. n : driver[i] \in Mbufs /\ driver[i] \in Range(driver)
    BY <1>4, <1>5 DEF Range
  <2>2. buffer[size] \notin Range(driver)
    BY <1>2 DEF IInv, OwnedOnce, Own, Places, Index
  <2> QED
    BY <1>2, <1>3, <2>1, <2>2
<1>7. \A i \in 1 .. size : content'[buffer[i - 1]] = content[buffer[i - 1]]
  <2>1. \A i \in 1 .. size : i - 1 \in Places /\ size \in Places /\ i - 1 # size
    BY <1>2 DEF Places, Index
  <2>2. \A i \in 1 .. size : buffer[i - 1] # buffer[size]
    BY <2>1 DEF IInv, OwnedOnce
  <2>3. \A i \in 1 .. size : buffer[i - 1] \in Mbufs
    BY <2>1 DEF IInv, TypeOK, OwnedOnce, Own, Places
  <2> QED
    BY <1>2, <1>3, <2>2, <2>3
<1>8. content'[buffer[size]] = sent
  BY <1>2, <1>3
<1>9. /\ Len(Waiting) = n + size
      /\ \A i \in 1 .. n : Waiting[i] = content[driver[i]]
      /\ \A i \in 1 .. size : Waiting[n + i] = content[buffer[i - 1]]
  BY <1>1, <1>2, <1>5 DEF WaitingAt
<1>10. /\ Len(Waiting') = n + size + 1
       /\ \A i \in 1 .. n : Waiting'[i] = content'[driver[i]]
       /\ \A i \in 1 .. size + 1 : Waiting'[n + i] = content'[buffer[i - 1]]
  BY <1>1, <1>2, <1>3, <1>5 DEF WaitingAt
<1> DEFINE D == 0 .. MaxReqs
           w == Waiting
           v == Waiting'
<1>11. w \in Seq(D)
  BY <1>1 DEF WaitingAt
<1>12. v \in Seq(D)
  BY <1>1 DEF WaitingAt
<1>13. \A i \in 1 .. n + size : v[i] = w[i]
  <2> SUFFICES ASSUME NEW i \in 1 .. n + size PROVE v[i] = w[i]
    OBVIOUS
  <2>1. CASE i =< n
    BY <1>5, <1>6, <1>9, <1>10, <2>1
  <2>2. CASE i > n
    <3>1. PICK j \in 1 .. size : i = n + j
      <4>1. i - n \in 1 .. size /\ i = n + (i - n)
        BY <1>2, <1>5, <2>2
      <4> QED
        BY <4>1
    <3>2. j \in 1 .. size + 1
      BY <1>2
    <3> QED
      BY <1>7, <1>9, <1>10, <3>1, <3>2
  <2> QED
    BY <1>2, <1>5, <2>1, <2>2
<1>14. v[n + size + 1] = sent
  <2>1. size + 1 \in 1 .. size + 1 /\ n + size + 1 = n + (size + 1) /\ (size + 1) - 1 = size
    BY <1>2, <1>5
  <2> QED
    BY <1>8, <1>10, <2>1
<1>15. Len(w) = n + size /\ Len(v) = n + size + 1 /\ sent \in D
  BY <1>2, <1>9, <1>10
<1> HIDE DEF w, v, D
<1>16. Append(w, sent) \in Seq(D)
  BY <1>11, <1>15
<1>17. v = Append(w, sent)
  <2>1. Len(Append(w, sent)) = Len(v)
    BY <1>11, <1>15
  <2>2. \A i \in 1 .. Len(v) : v[i] = Append(w, sent)[i]
    BY <1>2, <1>5, <1>11, <1>13, <1>14, <1>15
  <2> QED
    BY <1>12, <1>16, <2>1, <2>2, SameSeq
<1> QED
  BY <1>3, <1>17 DEF w, v

(* A burst moves packets from the batch to the driver: nobody changes place*)
(* in the line.                                                            *)
LEMMA BurstKeepsTheLine ==
  ASSUME IInv, IInv', NEW free \in SUBSET done, NEW k \in 0 .. Batch, TxBurst(free, k)
  PROVE  UNCHANGED <<Waiting, wire>>
<1>1. WaitingAt /\ WaitingAt'
  BY PlaceInLine, PTL
<1>2. /\ UNCHANGED <<buffer, size, content, wire>>
      /\ driver' = driver \o Burst(k) /\ flushed' = flushed + k
      /\ size \in Nat /\ flushed \in 0 .. size /\ k \in 0 .. size - flushed
  BY TxQueueAssumption DEF TxBurst, IInv, TypeOK
<1>3. driver \in Seq(Mbufs)
  BY DEF IInv, TypeOK
<1>4. PICK n \in Nat : n = Len(driver)
  BY <1>3
<1>5. /\ Len(driver') = n + k
      /\ \A i \in 1 .. n : driver'[i] = driver[i]
      /\ \A i \in 1 .. k : driver'[n + i] = buffer[flushed + i - 1]
  <2>1. \A i \in 1 .. k : buffer[flushed + i - 1] \in Mbufs
    <3>1. \A i \in 1 .. k : flushed + i - 1 \in Places
      <4>1. size =< Batch /\ Batch \in Nat
        BY TxQueueAssumption DEF IInv, TypeOK
      <4> QED
        BY <1>2, <4>1 DEF Places, Index
    <3> QED
      BY <3>1 DEF IInv, TypeOK, OwnedOnce, Own, Places
  <2>2. Burst(k) \in [1 .. k -> Mbufs] /\ \A i \in 1 .. k : Burst(k)[i] = buffer[flushed + i - 1]
    BY <2>1 DEF Burst
  <2> DEFINE b == Burst(k)
  <2> HIDE DEF b
  <2>3. b \in Seq(Mbufs)
    BY <1>2, <2>2, FunctionIsSeq DEF b
  <2>4. Len(b) = k
    BY <1>2, <2>2, FunctionIsSeq DEF b
  <2>5. driver' = driver \o b
    BY <1>2 DEF b
  <2>6. /\ Len(driver \o b) = Len(driver) + Len(b)
        /\ \A i \in 1 .. Len(driver) : (driver \o b)[i] = driver[i]
        /\ \A i \in 1 .. Len(b) : (driver \o b)[Len(driver) + i] = b[i]
    BY <1>3, <2>3
  <2> QED
    BY <1>4, <2>2, <2>4, <2>5, <2>6 DEF b
<1> DEFINE D == 0 .. MaxReqs
           w == Waiting
           v == Waiting'
<1>6. w \in Seq(D)
  BY <1>1 DEF WaitingAt
<1>7. v \in Seq(D)
  BY <1>1 DEF WaitingAt
<1>8. /\ Len(w) = n + size - flushed
      /\ \A i \in 1 .. n : w[i] = content[driver[i]]
      /\ \A i \in 1 .. size - flushed : w[n + i] = content[buffer[flushed + i - 1]]
  BY <1>1, <1>2, <1>4 DEF WaitingAt
<1>9. /\ Len(v) = n + k + size - (flushed + k)
      /\ \A i \in 1 .. n + k : v[i] = content[driver'[i]]
      /\ \A i \in 1 .. size - (flushed + k) : v[n + k + i] = content[buffer[flushed + k + i - 1]]
  BY <1>1, <1>2, <1>4, <1>5 DEF WaitingAt
<1> HIDE DEF w, v
<1>10. Len(v) = Len(w) /\ Len(w) = n + (size - flushed)
  BY <1>2, <1>4, <1>8, <1>9, SMTT(20)
<1>11. ASSUME NEW i \in 1 .. n + (size - flushed) PROVE v[i] = w[i]
  <2>1. CASE i =< n
    <3>1. i \in 1 .. n /\ i \in 1 .. n + k
      BY <1>2, <1>4, <2>1
    <3> QED
      BY <1>5, <1>8, <1>9, <3>1
  <2>2. CASE n < i /\ i =< n + k
    <3>1. PICK j \in 1 .. k : i = n + j
      <4>1. i - n \in 1 .. k /\ i = n + (i - n)
        BY <1>2, <1>4, <2>2
      <4> QED
        BY <4>1
    <3>2. j \in 1 .. size - flushed /\ i \in 1 .. n + k
      BY <1>2, <1>4, <3>1
    <3> QED
      BY <1>5, <1>8, <1>9, <3>1, <3>2
  <2>3. CASE n + k < i
    <3>1. PICK j \in 1 .. size - (flushed + k) : i = n + k + j
      <4>1. i - n - k \in 1 .. size - (flushed + k) /\ i = n + k + (i - n - k)
        BY <1>2, <1>4, <2>3
      <4> QED
        BY <4>1
    <3>2. /\ k + j \in 1 .. size - flushed /\ i = n + (k + j)
          /\ flushed + (k + j) - 1 = flushed + k + j - 1
      BY <1>2, <1>4, <3>1
    <3> QED
      BY <1>8, <1>9, <3>1, <3>2
  <2> QED
    BY <1>2, <1>4, <2>1, <2>2, <2>3
<1>12. v = w
  BY <1>6, <1>7, <1>10, <1>11, SameSeq
<1> QED
  BY <1>2, <1>12 DEF w, v
(* The batch is empty when its buffers are replaced.                       *)
LEMMA RefillKeepsTheLine ==
  ASSUME IInv, IInv', NEW new \in UNION {[1 .. n -> pool] : n \in 0 .. Batch}, Refill(new)
  PROVE  UNCHANGED <<Waiting, wire>>
<1>1. WaitingAt /\ WaitingAt'
  BY PlaceInLine, PTL
<1>2. /\ UNCHANGED <<content, driver, wire>>
      /\ flushed = size /\ size' = 0 /\ flushed' = 0 /\ size \in Nat
  BY TxQueueAssumption DEF Refill, IInv, TypeOK
<1>3. driver \in Seq(Mbufs)
  BY DEF IInv, TypeOK
<1> DEFINE D == 0 .. MaxReqs
           w == Waiting
           v == Waiting'
<1>4. w \in Seq(D)
  BY <1>1 DEF WaitingAt
<1>5. v \in Seq(D)
  BY <1>1 DEF WaitingAt
<1>6. /\ Len(w) = Len(driver) /\ Len(v) = Len(driver)
      /\ \A i \in 1 .. Len(driver) : w[i] = content[driver[i]] /\ v[i] = content[driver[i]]
  BY <1>1, <1>2, <1>3 DEF WaitingAt
<1> HIDE DEF w, v
<1>7. Len(v) = Len(w) /\ \A i \in 1 .. Len(v) : v[i] = w[i]
  BY <1>6
<1>8. v = w
  BY <1>4, <1>5, <1>7, SameSeq
<1> QED
  BY <1>2, <1>8 DEF w, v

(* The device transmits the request that has waited longest.               *)
LEMMA TransmitTakesTheFirst == ASSUME IInv, IInv', Transmit PROVE Link!Transmit
<1>1. WaitingAt /\ WaitingAt'
  BY PlaceInLine, PTL
<1>2. /\ UNCHANGED <<buffer, size, flushed, content>> /\ driver # <<>>
      /\ driver' = Tail(driver) /\ wire' = Append(wire, content[Head(driver)])
      /\ size \in Nat /\ flushed \in 0 .. size
  BY TxQueueAssumption DEF Transmit, queueVars, IInv, TypeOK
<1>3. driver \in Seq(Mbufs)
  BY DEF IInv, TypeOK
<1>4. PICK n \in Nat : n + 1 = Len(driver)
  <2>1. Len(driver) \in Nat \ {0} /\ (Len(driver) - 1) + 1 = Len(driver) /\ Len(driver) - 1 \in Nat
    BY <1>2, <1>3
  <2> QED
    BY <2>1
<1>5. Len(driver') = n /\ Head(driver) = driver[1] /\ \A i \in 1 .. n : driver'[i] = driver[i + 1]
  BY <1>2, <1>3, <1>4
<1> DEFINE D == 0 .. MaxReqs
           w == Waiting
           v == Waiting'
<1>6. w \in Seq(D)
  BY <1>1 DEF WaitingAt
<1>7. v \in Seq(D)
  BY <1>1 DEF WaitingAt
<1>8. PICK m \in Nat : m = size - flushed
  BY <1>2
<1>9. /\ Len(w) = n + 1 + m
      /\ \A i \in 1 .. n + 1 : w[i] = content[driver[i]]
      /\ \A i \in 1 .. m : w[n + 1 + i] = content[buffer[flushed + i - 1]]
  BY <1>1, <1>2, <1>4, <1>8 DEF WaitingAt
<1>10. /\ Len(v) = n + m
       /\ \A i \in 1 .. n : v[i] = content[driver'[i]]
       /\ \A i \in 1 .. m : v[n + i] = content[buffer[flushed + i - 1]]
  BY <1>1, <1>2, <1>5, <1>8 DEF WaitingAt
<1> HIDE DEF w, v
<1>11. w # <<>> /\ Head(w) = content[Head(driver)]
  BY <1>4, <1>5, <1>6, <1>8, <1>9
<1>12. v = Tail(w)
  <2>1. ASSUME NEW i \in 1 .. n + m PROVE v[i] = w[i + 1]
    <3>1. CASE i =< n
      <4>1. i \in 1 .. n /\ i + 1 \in 1 .. n + 1
        BY <1>4, <3>1
      <4> QED
        BY <1>5, <1>9, <1>10, <4>1
    <3>2. CASE i > n
      <4>1. PICK j \in 1 .. m : i = n + j
        <5>1. i - n \in 1 .. m /\ i = n + (i - n)
          BY <1>4, <1>8, <3>2
        <5> QED
          BY <5>1
      <4>2. i + 1 = n + 1 + j
        BY <1>4, <1>8, <4>1
      <4> QED
        BY <1>9, <1>10, <4>1, <4>2
    <3> QED
      BY <1>4, <3>1, <3>2
  <2>2. Tail(w) \in Seq(D)
    BY <1>6, <1>11
  <2>3. Len(Tail(w)) = n + m /\ \A i \in 1 .. n + m : Tail(w)[i] = w[i + 1]
    <3>1. w # <<>>
      BY <1>11
    <3>2. Len(Tail(w)) = Len(w) - 1 /\ \A i \in 1 .. Len(w) - 1 : Tail(w)[i] = w[i + 1]
      BY <1>6, <3>1
    <3>3. Len(w) - 1 = n + m
      BY <1>4, <1>8, <1>9
    <3> QED
      BY <3>2, <3>3
  <2>4. Len(v) = Len(Tail(w)) /\ \A i \in 1 .. Len(v) : v[i] = Tail(w)[i]
    BY <1>10, <2>1, <2>3
  <2> QED
    BY <1>7, <2>2, <2>4, SameSeq
<1> QED
  BY <1>2, <1>11, <1>12 DEF w, v, Waiting, Link!Transmit

-----------------------------------------------------------------------------
(* Between its start and its end, a call of sendReq has a request.         *)
Sending == pc # "idle" => sent \in Requests

LEMMA AlwaysSending == Spec => []Sending
<1>1. Init => Sending
  BY DEF Init, Sending
<1>2. IInv /\ Sending /\ [Next]_vars => Sending'
  <2> SUFFICES ASSUME IInv, Sending, [Next]_vars PROVE Sending'
    OBVIOUS
  <2>1. sent \in 0 .. MaxReqs /\ MaxReqs \in Nat
    BY TxQueueAssumption DEF IInv, TypeOK
  <2>2. CASE \E f \in BOOLEAN : SendReq(f)
    BY <2>1, <2>2 DEF SendReq, Sending, Requests
  <2>3. CASE WriteRequest
    BY <2>3 DEF WriteRequest, Sending
  <2>4. CASE \E free \in SUBSET done, n \in 0 .. Batch : TxBurst(free, n)
    BY <2>4 DEF TxBurst, Sending
  <2>5. CASE \E new \in UNION {[1 .. n -> pool] : n \in 0 .. Batch} : Refill(new)
    BY <2>5 DEF Refill, Sending
  <2>6. CASE Transmit
    BY <2>6 DEF Transmit, queueVars, Sending
  <2>7. CASE UNCHANGED vars
    BY <2>7 DEF vars, queueVars, Sending
  <2> QED
    BY <2>2, <2>3, <2>4, <2>5, <2>6, <2>7 DEF Next
<1> QED
  BY <1>1, <1>2, Invariant, PTL DEF Spec

(* The requests are transmitted in the order in which they were sent, each *)
(* once, however they are batched, with or without a flush.                *)
THEOREM SentInOrder == Spec => InOrder
<1>1. Init => Link!Init
  <2> SUFFICES ASSUME Init PROVE Link!Init
    OBVIOUS
  <2>1. Held = <<>> /\ Batched = <<>>
    <3>1. driver = <<>> /\ size = 0 /\ flushed = 0
      BY DEF Init
    <3> QED
      BY <3>1 DEF Held, Batched
  <2> QED
    BY <2>1 DEF Init, Link!Init
<1>2. IInv /\ IInv' /\ Sending /\ [Next]_vars => [Link!Next]_<<Held \o Batched, wire>>
  <2> SUFFICES ASSUME IInv, IInv', Sending, [Next]_vars
               PROVE  Link!Next \/ UNCHANGED <<Waiting, wire>>
    BY DEF Waiting
  <2>1. CASE \E f \in BOOLEAN : SendReq(f)
    BY <2>1 DEF SendReq, deviceVars, Waiting, Held, Batched
  <2>2. CASE WriteRequest
    <3>1. pc # "idle"
      BY <2>2 DEF WriteRequest
    <3>2. Link!Send(sent)
      BY <2>2, WriteJoinsTheLine DEF Link!Send, Waiting
    <3> QED
      BY <3>1, <3>2 DEF Link!Next, Sending
  <2>3. CASE \E free \in SUBSET done, n \in 0 .. Batch : TxBurst(free, n)
    BY <2>3, BurstKeepsTheLine
  <2>4. CASE \E new \in UNION {[1 .. n -> pool] : n \in 0 .. Batch} : Refill(new)
    BY <2>4, RefillKeepsTheLine
  <2>5. CASE Transmit
    BY <2>5, TransmitTakesTheFirst DEF Link!Next
  <2>6. CASE UNCHANGED vars
    BY <2>6 DEF vars, queueVars, deviceVars, Waiting, Held, Batched
  <2> QED
    BY <2>1, <2>2, <2>3, <2>4, <2>5, <2>6 DEF Next
<1> QED
  BY <1>1, <1>2, Invariant, AlwaysSending, PTL DEF Spec, InOrder, Link!Spec
=============================================================================

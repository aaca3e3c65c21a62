------------------------------- MODULE TxQueue -------------------------------
(***************************************************************************)
(* The transmit queue under DataCol::sendReq.  A request is written to the *)
(* next packet buffer (mbuf) of a batch; flush hands the batch to the      *)
(* driver, in as many bursts as it takes, and replaces its buffers by new  *)
(* ones of the pool.  The device transmits the packets of the driver later *)
(* and the driver gives their buffers back to the pool later still.        *)
(*                                                                         *)
(* One thread sends; the device works beside it.  The requests are         *)
(* numbered in the order in which they are sent.                           *)
(***************************************************************************)
EXTENDS Integers, Sequences, FiniteSets, Functions

CONSTANTS Mbufs,     \* buffers of the pool: NB_MBUF
          Null,      \* nullptr
          Batch,     \* m_batch_size
          TxDesc,    \* m_num_tx_desc: packets the driver can hold
          MaxReqs    \* bound: requests sent

ASSUME TxQueueAssumption ==
  /\ Null \notin Mbufs
  /\ Batch \in Nat \ {0}
  /\ TxDesc \in Nat \ {0}
  /\ IsFiniteSet(Mbufs) /\ Cardinality(Mbufs) >= TxDesc + Batch
  /\ MaxReqs \in Nat

VARIABLES pc,        \* where sendReq is, "idle" between calls
          doFlush,   \* the argument of the running sendReq
          buffer,    \* m_buffer
          size,      \* m_buffer_data_size
          flushed,   \* flushed, in flush
          content,   \* the request written in each buffer
          pool,      \* free buffers
          driver,    \* buffers of packets that the driver holds
          done,      \* buffers of transmitted packets, not yet back in the pool
          sent,      \* history: number of requests sent
          wire       \* history: requests transmitted

queueVars == <<pc, doFlush, buffer, size, flushed, content>>
deviceVars == <<pool, driver, done, wire>>
vars == <<queueVars, deviceVars, sent>>

Requests == 1 .. MaxReqs
Index == 0 .. Batch - 1

TypeOK ==
  /\ pc \in {"idle", "flushFirst", "write", "flushAfter", "crashed"}
  /\ doFlush \in BOOLEAN
  /\ buffer \in [Index -> Mbufs \cup {Null}]
  /\ size \in 0 .. Batch
  /\ flushed \in 0 .. size
  /\ content \in [Mbufs -> 0 .. MaxReqs]
  /\ pool \subseteq Mbufs
  /\ driver \in Seq(Mbufs)
  /\ done \subseteq Mbufs
  /\ sent \in 0 .. MaxReqs
  /\ wire \in Seq(0 .. MaxReqs)

(* The constructor takes one buffer for each place of the batch.           *)
Init ==
  /\ pc = "idle" /\ doFlush = FALSE
  /\ buffer = CHOOSE f \in [Index -> Mbufs] : \A i, j \in Index : f[i] = f[j] => i = j
  /\ size = 0 /\ flushed = 0
  /\ content = [m \in Mbufs |-> 0]
  /\ pool = Mbufs \ {buffer[i] : i \in Index}
  /\ driver = <<>> /\ done = {}
  /\ sent = 0 /\ wire = <<>>

-----------------------------------------------------------------------------
(* A variant with a fault: the batch is looked at too late.                *)
MustFlushLate == size > Batch

(* getPacket flushes a full batch, and one whose next buffer is missing.   *)
MustFlush == size = Batch \/ buffer[size] = Null

(* sendReq begins; flush does nothing for an empty batch.                  *)
SendReq(f) ==
  /\ pc = "idle" /\ sent < MaxReqs
  /\ sent' = sent + 1
  /\ doFlush' = f
  /\ pc' = IF MustFlush /\ size # 0 THEN "flushFirst" ELSE "write"
  /\ UNCHANGED <<buffer, size, flushed, content, deviceVars>>

(* A variant with a fault: never.                                          *)
AfterWriteIdle == "idle"

(* sendReq flushes if it was told to.                                      *)
AfterWrite == IF doFlush THEN "flushAfter" ELSE "idle"

(* getPacket returns the next buffer and the request is copied to it; to   *)
(* nullptr, the program ends.                                              *)
WriteRequest ==
  /\ pc = "write"
  /\ IF size = Batch \/ buffer[size] = Null
     THEN pc' = "crashed" /\ UNCHANGED <<content, size>>
     ELSE /\ content' = [content EXCEPT ![buffer[size]] = sent]
          /\ size' = size + 1
          /\ pc' = AfterWrite
  /\ UNCHANGED <<doFlush, buffer, flushed, deviceVars, sent>>

(* A variant with a fault: each burst starts with the first packet.        *)
BurstFromStart(n) == [i \in 1 .. n |-> buffer[i - 1]]

(* The next n packets of the batch.                                        *)
Burst(n) == [i \in 1 .. n |-> buffer[flushed + i - 1]]

(* rte_eth_tx_burst: the driver first gives some transmitted buffers back, *)
(* then takes as many packets as it likes of those that fit.               *)
TxBurst(free, n) ==
  /\ pc \in {"flushFirst", "flushAfter"} /\ flushed < size
  /\ free \subseteq done
  /\ done' = done \ free
  /\ pool' = pool \cup free
  /\ n \in 0 .. size - flushed
  /\ Len(driver) + Cardinality(done') + n =< TxDesc
  /\ driver' = driver \o Burst(n)
  /\ flushed' = flushed + n
  /\ UNCHANGED <<pc, doFlush, buffer, size, content, sent, wire>>

(* The places behind the batch that hold nullptr are filled too.           *)
RefillTo == CHOOSE n \in size .. Batch :
  /\ \A i \in size .. n - 1 : buffer[i] = Null
  /\ n < Batch => buffer[n] # Null

(* A variant with a fault: the last place keeps its buffer.                *)
NewBuffersButOne(new) ==
  [i \in Index |-> IF i < RefillTo - 1 THEN new[i + 1] ELSE buffer[i]]

(* The buffers that rte_pktmbuf_alloc gave, in new, replace the first ones;*)
(* at the first failure nullptr is stored, and the others stay.            *)
NewBuffers(new) ==
  [i \in Index |-> IF i < Len(new) THEN new[i + 1]
                   ELSE IF i = Len(new) /\ i < RefillTo THEN Null ELSE buffer[i]]

(* flush ends with a batch that is empty and has its buffers again, as far *)
(* as the pool has them.                                                   *)
Refill(new) ==
  /\ pc \in {"flushFirst", "flushAfter"} /\ flushed = size
  /\ new \in UNION {[1 .. n -> pool] : n \in 0 .. RefillTo}
  /\ IsInjective(new)
  /\ Len(new) = IF RefillTo =< Cardinality(pool) THEN RefillTo ELSE Cardinality(pool)
  /\ buffer' = NewBuffers(new)
  /\ pool' = pool \ {new[i] : i \in 1 .. Len(new)}
  /\ size' = 0 /\ flushed' = 0
  /\ pc' = IF pc = "flushFirst" THEN "write" ELSE "idle"
  /\ UNCHANGED <<doFlush, content, driver, done, sent, wire>>

(* The device transmits the next packet of the driver.                     *)
Transmit ==
  /\ driver # <<>>
  /\ wire' = Append(wire, content[Head(driver)])
  /\ done' = done \cup {Head(driver)}
  /\ driver' = Tail(driver)
  /\ UNCHANGED <<queueVars, pool, sent>>

Next ==
  \/ \E f \in BOOLEAN : SendReq(f)
  \/ WriteRequest
  \/ \E free \in SUBSET done, n \in 0 .. Batch : TxBurst(free, n)
  \/ \E new \in UNION {[1 .. n -> pool] : n \in 0 .. Batch} : Refill(new)
  \/ Transmit

Spec == Init /\ [][Next]_vars

(* The thread runs on while it is inside sendReq, and its bursts do not    *)
(* fail for ever while there could be room; the device transmits.          *)
Progress == WriteRequest \/ (\E free \in SUBSET done, n \in 1 .. Batch : TxBurst(free, n))
                         \/ (\E new \in UNION {[1 .. n -> pool] : n \in 0 .. Batch} : Refill(new))
Fairness == WF_vars(Progress) /\ WF_vars(Transmit)
FairSpec == Spec /\ Fairness

-----------------------------------------------------------------------------
(***************************************************************************)
(* Properties.                                                             *)
(***************************************************************************)

(* The places of the batch that belong to the queue: all, but for those    *)
(* that flush has handed to the driver already.                            *)
Places == {i \in Index : i >= flushed}
Own == {buffer[i] : i \in Places}

(* Each buffer is in one place only, in the batch, with the driver or in   *)
(* the pool, and none is lost.  So nothing is written to a packet that     *)
(* waits to be sent, and none is freed while it is used.                   *)
OwnedOnce ==
  /\ Null \notin Own
  /\ \A i, j \in Places : buffer[i] = buffer[j] => i = j
  /\ IsInjective(driver)
  /\ Own \cap (pool \cup done \cup Range(driver)) = {}
  /\ pool \cap (done \cup Range(driver)) = {}
  /\ done \cap Range(driver) = {}
  /\ Mbufs = Own \cup pool \cup done \cup Range(driver)

(* With NB_MBUF >= num_tx_desc + batch, no allocation fails in flush, and  *)
(* so sendReq never writes to nullptr, which getPacket may return.         *)
NeverNull == pc = "write" => size < Batch /\ buffer[size] # Null

(***************************************************************************)
(* The inductive invariant: what the driver holds is bounded, so what is   *)
(* neither there nor in the batch is enough for the next batch.            *)
(***************************************************************************)
DriverFits == Len(driver) + Cardinality(done) =< TxDesc
FlushInFlush == pc \notin {"flushFirst", "flushAfter"} => flushed = 0

IInv ==
  /\ TypeOK
  /\ OwnedOnce
  /\ DriverFits
  /\ FlushInFlush
  /\ NeverNull
  /\ pc # "crashed"

(* Requests are on the wire in the order of sendReq, those that were sent  *)
(* without a flush too: what waits is what the batch and the driver hold.  *)
Batched == [i \in 1 .. size - flushed |-> content[buffer[flushed + i - 1]]]
Held == [i \in 1 .. Len(driver) |-> content[driver[i]]]
Link == INSTANCE RequestLink WITH waiting <- Held \o Batched
InOrder == Link!Spec

(* A request that is sent with a flush, and all requests sent before it,   *)
(* are transmitted.                                                        *)
FlushedIsSent == \A r \in Requests : (sent = r /\ doFlush) ~> r \in Range(wire)
=============================================================================

-------------------------------- MODULE Wire --------------------------------
(***************************************************************************)
(* What the switch and the controller share: the link that carries the     *)
(* controller's collect-and-reset requests to the switch, and the piece of *)
(* controller memory (message ring, value slots, completion queue) that    *)
(* the switch writes with RDMA.                                            *)
(*                                                                         *)
(* The link is a FIFO: the requests leave through one DPDK transmit queue. *)
(* An RDMA write is applied to the controller's memory by the step that    *)
(* emits it.  The queue pair is reliable-connected, so writes land in the  *)
(* order they were emitted, and the controller looks at the ring and at    *)
(* the value slots only after a completion; a later landing of the write   *)
(* is the same behaviour as a later step of the controller.                *)
(***************************************************************************)
EXTENDS Naturals, Sequences

CONSTANTS Keys,     \* the keys of the query (destination addresses)
          NoKey,    \* the key field of a message or packet that carries none
          MSGS,     \* slots of the message ring: MSG_BUF_SIZE / MSG_LEN
          CmMod     \* the counters' modulus: 2^16

ASSUME WireAssumption ==
  /\ NoKey \notin Keys
  /\ MSGS \in Nat \ {0}
  /\ CmMod \in Nat \ {0}

VARIABLES hostQ,      \* requests on their way to the switch
          msgBuf,     \* msgBuf: the ring of response messages
          epochData,  \* epochData: one value slot per key
          cq          \* immediate values of unpolled completions

wireVars == <<hostQ, msgBuf, epochData, cq>>

(***************************************************************************)
(* The requests of the controller (DCReqOp) and the packets that only the  *)
(* switch makes: "KEY" is a mirrored report of an overflowing key. In a    *)
(* query with a distinct filter a request also carries the flag            *)
(* rstDistinct.                                                            *)
(***************************************************************************)
KeylessOps == {"START", "COL", "RST_START", "RST", "PUSH"}
Request == [op : KeylessOps, key : {NoKey}] \cup [op : {"QRY_KEY"}, key : Keys]
           \cup [op : KeylessOps, key : {NoKey}, rstDistinct : BOOLEAN]
           \cup [op : {"QRY_KEY"}, key : Keys, rstDistinct : {FALSE}]
Req(op) == [op |-> op, key |-> NoKey]
QryKey(k) == [op |-> "QRY_KEY", key |-> k]

Val == 0 .. CmMod - 1
Slot == 0 .. MSGS - 1

(* The response messages (DCRespOp); Blank is a slot never written.        *)
Msg == [op : {"BLANK", "DONE", "KEY", "KEYVAL"},
        key : Keys \cup {NoKey}, val : Val]
Blank == [op |-> "BLANK", key |-> NoKey, val |-> 0]

WireTypeOK ==
  /\ hostQ \in Seq(Request)
  /\ msgBuf \in [Slot -> Msg]
  /\ epochData \in [Keys -> Val]
  /\ cq \in Seq(Slot)

WireInit ==
  /\ hostQ = <<>>
  /\ msgBuf = [s \in Slot |-> Blank]
  /\ epochData = [k \in Keys |-> 0]
  /\ cq = <<>>

(***************************************************************************)
(* The requests are UDP datagrams that nothing retransmits: the one at the *)
(* head of the link may be lost.                                           *)
(***************************************************************************)
LoseRequest ==
  /\ hostQ # <<>>
  /\ hostQ' = Tail(hostQ)
  /\ UNCHANGED <<msgBuf, epochData, cq>>
=============================================================================

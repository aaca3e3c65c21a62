---------------------------- MODULE CollectReset ----------------------------
(***************************************************************************)
(* The collect-and-reset protocol of every query, without its data: how    *)
(* many requests of each kind are on the link and how many packets of each *)
(* kind circulate in the switch, how many keys are left to collect, and    *)
(* where the reset is.                                                     *)
(*                                                                         *)
(* The RST_START of the controller comes after its queries; the RST_START  *)
(* of the switch is what the packet that took the last key turns into.     *)
(* The reset starts with the second of the two, so it starts when nothing  *)
(* is left to read in the collected copy.                                  *)
(***************************************************************************)
EXTENDS Integers

CONSTANTS NDATA,      \* cells to reset
          NKEYS,      \* capacity of the key buffer
          NReq,       \* collect packets, and reset packets, of one switch
          MaxQueries, \* overflowing keys of one sub-window
          MaxStray    \* bound: packets of earlier switches still under way

RSTIDX_MID == NDATA * 3

ASSUME CollectResetAssumption ==
  /\ NDATA \in Nat \ {0, 1}
  /\ NKEYS \in Nat
  /\ NReq \in Nat \ {0}
  /\ MaxQueries \in Nat
  /\ MaxStray \in Nat

VARIABLES busy,      \* the controller has sent its requests and waits
          link,      \* requests on the link, by kind
          ring,      \* packets circulating in the switch, by kind
          left,      \* keys left in the buffer of the collected copy
          resetIdx,  \* reg_reset_idx
          dones      \* DONE messages of the running switch

vars == <<busy, link, ring, left, resetIdx, dones>>

Ops == {"START", "COL", "QRY_KEY", "RST_START", "RST"}
Sources == {"host", "mirror"}
NoPackets == [op \in Ops |-> 0]

TypeOK ==
  /\ busy \in BOOLEAN
  /\ link \in [Ops -> Nat]
  /\ ring \in [Ops -> Nat]
  /\ left \in Nat
  /\ resetIdx \in 0 .. NDATA \cup {RSTIDX_MID}
  /\ dones \in Nat

Init ==
  /\ busy = FALSE
  /\ link = NoPackets
  /\ ring = NoPackets
  /\ left = 0
  /\ resetIdx = NDATA
  /\ dones = 0

-----------------------------------------------------------------------------
(* A variant with a fault: queries may be overtaken.                       *)
BeforeLate(op) ==
  CASE op \in {"COL", "QRY_KEY"} -> {"START"}
    [] op = "RST_START"          -> {"START", "COL"}
    [] OTHER                     -> {}

(* The link is a FIFO; Before(op) are the requests sent ahead of op.  Where *)
(* an RST stands among the others makes no difference.                      *)
Before(op) ==
  CASE op = "COL"       -> {"START"}
    [] op = "QRY_KEY"   -> {"START", "COL"}
    [] op = "RST_START" -> {"START", "COL", "QRY_KEY"}
    [] OTHER            -> {}

Arrives(src, op) ==
  IF src = "host" THEN link[op] > 0 /\ \A o \in Before(op) : link[o] = 0
                  ELSE ring[op] > 0

(* A packet op passes the egress and goes round again as the packets in    *)
(* out, which are none or one.                                             *)
Pass(src, op, out) ==
  /\ link' = IF src = "host" THEN [link EXCEPT ![op] = @ - 1] ELSE link
  /\ ring' = [o \in Ops |-> ring[o] - (IF src = "mirror" /\ o = op THEN 1 ELSE 0)
                                    + (IF o \in out THEN 1 ELSE 0)]

(* switchWin sends its requests, m of them queries.                        *)
Begin(m) ==
  /\ ~busy
  /\ link["RST"] + ring["RST"] + ring["COL"] =< MaxStray
  /\ busy' = TRUE
  /\ link' = [op \in Ops |-> CASE op = "COL"     -> NReq - 1
                               [] op = "RST"     -> link["RST"] + NReq - 1
                               [] op = "QRY_KEY" -> m
                               [] OTHER          -> 1]
  /\ dones' = 0
  /\ UNCHANGED <<ring, left, resetIdx>>

(* The packet that takes a key leaves i keys behind.                       *)
NextCollectOp(i) == IF i = 0 THEN "RST_START" ELSE "COL"

(* START finds n keys in the copy it closes, and takes one if there is one.*)
Start(n) ==
  /\ Arrives("host", "START")
  /\ left' = IF n = 0 THEN 0 ELSE n - 1
  /\ Pass("host", "START", {NextCollectOp(left')})
  /\ UNCHANGED <<busy, resetIdx, dones>>

Collect(src) ==
  /\ Arrives(src, "COL")
  /\ left' = IF left = 0 THEN 0 ELSE left - 1
  /\ Pass(src, "COL", IF left = 0 THEN {"RST"} ELSE {NextCollectOp(left')})
  /\ UNCHANGED <<busy, resetIdx, dones>>

Query ==
  /\ Arrives("host", "QRY_KEY")
  /\ Pass("host", "QRY_KEY", {})
  /\ UNCHANGED <<busy, left, resetIdx, dones>>

-----------------------------------------------------------------------------
(* start_reset_idx and get_next_reset_idx: the index of the cell a packet  *)
(* resets (NDATA: none) and what it leaves in the register.                *)
ResetIdxGot(op) ==
  IF op = "RST_START" THEN IF resetIdx = NDATA THEN NDATA ELSE 0
  ELSE IF resetIdx = RSTIDX_MID THEN NDATA ELSE resetIdx

(* A variant with a fault: one RST_START is enough.                        *)
ResetIdxLeftAtOnce(op) ==
  IF op = "RST_START" THEN 1
  ELSE IF resetIdx \in {NDATA, RSTIDX_MID} THEN resetIdx ELSE resetIdx + 1

ResetIdxLeft(op) ==
  IF op = "RST_START" THEN IF resetIdx = NDATA THEN RSTIDX_MID ELSE 1
  ELSE IF resetIdx \in {NDATA, RSTIDX_MID} THEN resetIdx ELSE resetIdx + 1

(* A variant with a fault: a packet without a cell is reported.            *)
ReportedTooOften(idx) == idx \in {0, NDATA - 1, NDATA}

(* The first and the last cell are reported.                               *)
Reported(idx) == idx = 0 \/ idx = NDATA - 1

Reset(src, op) ==
  /\ op \in {"RST_START", "RST"}
  /\ Arrives(src, op)
  /\ resetIdx' = ResetIdxLeft(op)
  /\ dones' = IF Reported(ResetIdxGot(op)) THEN dones + 1 ELSE dones
  /\ Pass(src, op, IF ResetIdxGot(op) = NDATA THEN {} ELSE {"RST"})
  /\ UNCHANGED <<busy, left>>

(* A packet is lost.                                                       *)
Lose(src, op) ==
  /\ Arrives(src, op)
  /\ Pass(src, op, {})
  /\ UNCHANGED <<busy, left, resetIdx, dones>>

(* A variant with a fault: the first DONE ends switchWin.                   *)
FinishEarly ==
  /\ busy /\ dones = 1
  /\ busy' = FALSE
  /\ dones' = 0
  /\ UNCHANGED <<link, ring, left, resetIdx>>

(* The second DONE ends switchWin.                                         *)
Finish ==
  /\ busy /\ dones = 2
  /\ busy' = FALSE
  /\ dones' = 0
  /\ UNCHANGED <<link, ring, left, resetIdx>>

Next ==
  \/ \E m \in 0 .. MaxQueries : Begin(m)
  \/ \E n \in 0 .. NKEYS : Start(n)
  \/ \E src \in Sources : Collect(src)
  \/ Query
  \/ \E src \in Sources, op \in Ops : Reset(src, op)
  \/ \E src \in Sources, op \in Ops : Lose(src, op)
  \/ Finish

Spec == Init /\ [][Next]_vars

-----------------------------------------------------------------------------
(* While cells are being reset, nothing is left to be read from the copy:  *)
(* no key in the buffer, no START, collect request or query on the link.   *)
NothingLeftToRead ==
  /\ left = 0
  /\ \A op \in {"START", "COL", "QRY_KEY"} : link[op] = 0

CollectedBeforeReset == resetIdx < NDATA => NothingLeftToRead

(* The first DONE tells the controller that every value has been sent, and *)
(* the second that every cell has been reset; there is no third, which the *)
(* next switchWin would take for an answer to itself.                      *)
DonesTellTheTruth ==
  /\ dones >= 1 => NothingLeftToRead
  /\ dones >= 2 => resetIdx = NDATA
  /\ dones =< 2

(* Traffic is never moved to a copy that is still being reset, though      *)
(* packets of the last switch may still be circulating.                    *)
StartsAfterReset == link["START"] > 0 => resetIdx = NDATA /\ left = 0

-----------------------------------------------------------------------------
(***************************************************************************)
(* The inductive invariant.  Each RST_START exists at most once and meets  *)
(* the other in reg_reset_idx: Waiting, none of the two has come; Halfway, *)
(* one has; Running and Over, both have.                                   *)
(***************************************************************************)
InOrder == \A op \in {"START", "COL", "QRY_KEY"} : link[op] > 0 => link["RST_START"] = 1

Tokens ==
  /\ link["START"] \in {0, 1}
  /\ link["RST_START"] \in {0, 1}
  /\ ring["RST_START"] \in {0, 1}
  /\ ring["START"] = 0 /\ ring["QRY_KEY"] = 0
  /\ ring["RST_START"] = 1 => left = 0 /\ link["START"] = 0

NoToken == link["RST_START"] = 0 /\ ring["RST_START"] = 0

Idle == ~busy => resetIdx = NDATA /\ dones = 0 /\ left = 0 /\ NoToken
Waiting == link["START"] > 0 => resetIdx = NDATA /\ dones = 0 /\ left = 0
Halfway == resetIdx = RSTIDX_MID =>
  /\ dones = 0
  /\ link["RST_START"] = 1 => left = 0 /\ ring["RST_START"] = 0 /\ link["START"] = 0
Running == resetIdx < NDATA => resetIdx > 0 /\ dones = 1 /\ left = 0 /\ NoToken
Over == resetIdx = NDATA => dones = 0 \/ (dones = 2 /\ left = 0 /\ NoToken)

IInv ==
  /\ TypeOK
  /\ InOrder
  /\ Tokens
  /\ Idle
  /\ Waiting
  /\ Halfway
  /\ Running
  /\ Over
=============================================================================

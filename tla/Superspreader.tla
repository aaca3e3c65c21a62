---------------------------- MODULE Superspreader ----------------------------
(***************************************************************************)
(* A query that counts distinct pairs: of the packets of one (source,      *)
(* destination) pair only the first is counted, for its source.  A second  *)
(* filter, the distinct filter, stands before the pipeline of DataPlane.   *)
(* It has a copy for each parity of the epoch too, but it is to outlive a  *)
(* sub-window: its cells are cleared only by reset packets that carry the  *)
(* flag RST_DISTINCT, which the controller sets in the last sub-window of  *)
(* a window.  All else is OmniWindow.                                      *)
(***************************************************************************)
EXTENDS OmniWindow

CONSTANTS Pairs,        \* dkey: what is counted once
          KeyOf,        \* the key that a pair is counted for
          DbfX, DbfY    \* the hash of a pair, for each row of the filter

ASSUME SuperspreaderAssumption ==
  /\ KeyOf \in [Pairs -> Keys]
  /\ DbfX \in [Pairs -> Cell]
  /\ DbfY \in [Pairs -> Cell]

VARIABLES dbfX, dbfY,   \* reg_dbf_x, reg_dbf_y: the distinct filter
          pairs,        \* history: pairs seen in the open sub-window
          known,        \* history: pairs seen since the reset of a copy was asked for
          closedPairs   \* history: pairs of the closed sub-window, until merged

dbfVars == <<dbfX, dbfY>>
pairVars == <<pairs, known, closedPairs>>
allVars == <<vars, dbfVars, pairVars>>

(* Pairs seen in a sub-window, and those of them its copy had not seen.    *)
NoPairs == [seen |-> {}, new |-> {}]
PairInit ==
  /\ Init
  /\ dbfX = Zeros /\ dbfY = Zeros
  /\ pairs = NoPairs
  /\ known = [c \in Copies |-> {}]
  /\ closedPairs = NoPairs

-----------------------------------------------------------------------------
(* A variant with a fault: one mark is enough.                             *)
PairMarkedEither(c, p) == dbfX[c][DbfX[p]] = 1 \/ dbfY[c][DbfY[p]] = 1

(* dbfv_x, dbfv_y.                                                         *)
PairMarked(c, p) == dbfX[c][DbfX[p]] = 1 /\ dbfY[c][DbfY[p]] = 1

(* A packet of pair p is marked; it goes on as a packet of its key if one  *)
(* of its marks was missing.                                               *)
PairPacket(p) ==
  LET c == ActiveCopy
  IN  /\ dbfX' = MarkCell(dbfX, c, DbfX[p])
      /\ dbfY' = MarkCell(dbfY, c, DbfY[p])
      /\ IF PairMarked(c, p)
         THEN (Quiesced => pc = "idle") /\ UNCHANGED vars
         ELSE Traffic(KeyOf[p])
      /\ pairs' = [seen |-> pairs.seen \cup {p},
                   new  |-> IF p \in known[c] THEN pairs.new ELSE pairs.new \cup {p}]
      /\ known' = [known EXCEPT ![c] = @ \cup {p}]
      /\ UNCHANGED closedPairs

(* START closes the sub-window; if it carries the flag, its copy is to be  *)
(* cleared.                                                                *)
CollectPairs(src) ==
  /\ Collect(src)
  /\ IF epoch' # epoch
     THEN /\ closedPairs' = pairs
          /\ pairs' = NoPairs
          /\ known' = IF Head(Arrived(src)).rstDistinct
                      THEN [known EXCEPT ![ActiveCopy] = {}] ELSE known
     ELSE UNCHANGED pairVars
  /\ UNCHANGED dbfVars

(* Variants with a fault: a cell of the copy in use; the first cell only.  *)
ClearMarksInUse(row, i) == ClearCell(row, ActiveCopy, i)
ClearMarksOnce(row, i) == IF i = 0 THEN ClearCell(row, ColCopy, i) ELSE row

(* reset_dbf_x, reset_dbf_y.                                               *)
ClearMarks(row, i) == ClearCell(row, ColCopy, i)

(* A reset packet with the flag also clears the cells of the distinct      *)
(* filter; without a cell (NDATA) it clears cell 0, the index being cut.   *)
ResetPairs(src) ==
  /\ Reset(src)
  /\ LET p == Head(Arrived(src))
         i == ResetIdxGot(p.op) % NDATA
     IN  IF p.rstDistinct
         THEN dbfX' = ClearMarks(dbfX, i) /\ dbfY' = ClearMarks(dbfY, i)
         ELSE UNCHANGED dbfVars
  /\ UNCHANGED pairVars

-----------------------------------------------------------------------------
(* oph: the flag RST_DISTINCT.                                             *)
Oph == curEpoch = NEpoch - 1

(* The same requests as in every query, with the flag; the queries are     *)
(* prepared without it.                                                    *)
Flagged(r) == [op |-> r.op, key |-> r.key, rstDistinct |-> Oph /\ r.op # "QRY_KEY"]
FlaggedBatch == [i \in 1 .. Len(RequestBatch) |-> Flagged(RequestBatch[i])]

StartPairSwitch ==
  /\ switches < MaxSwitch
  /\ Quiesced => mirrorQ = <<>>
  /\ SwitchWinSending(Flagged(Req("PUSH")))
  /\ switches' = switches + 1
  /\ UNCHANGED <<switchVars, seen, newKeys, closed, window, dbfVars, pairVars>>

ReceivePairs ==
  /\ \/ SendRequestsOf(FlaggedBatch)
     \/ AwaitValues \/ RecvKey \/ RecvKeyVal \/ RecvKeyValsDone \/ RecvDone
  /\ UNCHANGED <<switchVars, historyVars, dbfVars, pairVars>>

MergePairs ==
  /\ MergeSubWindow
  /\ closedPairs' = NoPairs
  /\ UNCHANGED <<dbfVars, pairs, known>>

Elsewhere ==
  /\ Query \/ ReportOverflow \/ Quit \/ Stopped
  /\ UNCHANGED <<dbfVars, pairVars>>

PairNext ==
  \/ \E p \in Pairs : PairPacket(p)
  \/ \E src \in Sources : CollectPairs(src)
  \/ \E src \in Sources : ResetPairs(src)
  \/ StartPairSwitch
  \/ ReceivePairs
  \/ MergePairs
  \/ Elsewhere

PairSpec == PairInit /\ [][PairNext]_allVars

-----------------------------------------------------------------------------
(***************************************************************************)
(* Properties.                                                             *)
(***************************************************************************)

(* What a sub-window has marked stays marked while it is open, though the  *)
(* other copy may be cleared at the same time: no pair is counted twice in *)
(* a sub-window.                                                           *)
NoPairTwice == \A p \in pairs.seen : PairMarked(ActiveCopy, p)

(* Whatever is marked in the copy that traffic uses was seen since the     *)
(* last reset of that copy was asked for: with hash functions that do not  *)
(* collide no pair is missed, because every flagged reset clears its copy  *)
(* to the last cell before traffic returns to it.                          *)
NoPairMissed == \A p \in Pairs : PairMarked(ActiveCopy, p) => p \in known[ActiveCopy]

(* What the controller merges counts for each key every pair that the copy *)
(* of the sub-window had not seen, and none that the sub-window has not.   *)
PairsOf(k, s) == {p \in s : KeyOf[p] = k}
MergedDistinct == pc = "merge" => \A k \in Keys :
  /\ epochData[k] >= Cardinality(PairsOf(k, closedPairs.new))
  /\ epochData[k] <= Cardinality(PairsOf(k, closedPairs.seen))
=============================================================================

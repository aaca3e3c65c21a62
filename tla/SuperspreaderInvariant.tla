----------------------- MODULE SuperspreaderInvariant -----------------------
(***************************************************************************)
(* Why no pair is missed or counted twice: an inductive invariant of       *)
(* Superspreader beside that of OmniWindow, as named parts.                *)
(***************************************************************************)
EXTENDS Superspreader, OmniWindowInvariant

(***************************************************************************)
(* The distinct filter.                                                    *)
(***************************************************************************)
PairTypeOK ==
  /\ dbfX \in [Copies -> [Cell -> {0, 1}]]
  /\ dbfY \in [Copies -> [Cell -> {0, 1}]]
  /\ known \in [Copies -> SUBSET Pairs]
  /\ pairs.new \subseteq pairs.seen /\ pairs.seen \subseteq Pairs
  /\ closedPairs.new \subseteq closedPairs.seen /\ closedPairs.seen \subseteq Pairs
  /\ IsFiniteSet(pairs.seen) /\ IsFiniteSet(closedPairs.seen)

(* A pair shares no cell with another in at least one row.                 *)
AloneIn(row, p) == \A q \in Pairs : row[q] = row[p] => q = p
NoPairCollision == \A p \in Pairs : AloneIn(DbfX, p) \/ AloneIn(DbfY, p)

-----------------------------------------------------------------------------
(***************************************************************************)
(* The flag.  A request that carries it is one of the sub-window that the  *)
(* controller is in; what is left of an earlier one is a reset packet that *)
(* goes before the packets that have still to start the reset.             *)
(***************************************************************************)
WithFlag(ops, flags) == [op : ops, key : {NoKey}, rstDistinct : flags]

FlaggedRequest ==
  WithFlag(KeylessOps, BOOLEAN) \cup [op : {"QRY_KEY"}, key : Keys, rstDistinct : {FALSE}]
FlaggedMirrored == WithFlag(KeylessOps, BOOLEAN) \cup [op : {"KEY"}, key : Keys]

Stale == WithFlag({"START", "COL", "RST_START", "RST"}, BOOLEAN \ {Oph})
Starts == WithFlag({"START"}, BOOLEAN)
Collects == WithFlag({"COL"}, BOOLEAN)
RstStarts == WithFlag({"RST_START"}, BOOLEAN)

(* Each packet of S has one of T behind it.                                *)
Followed(q, S, T) ==
  \A i \in 1 .. Len(q) : q[i] \in S => \E j \in i + 1 .. Len(q) : q[j] \in T

OnlyResets(q) == \A i \in 1 .. Len(q) : q[i] \in Stale => q[i].op = "RST"

FlagsInOrder ==
  /\ hostQ \in Seq(FlaggedRequest) /\ mirrorQ \in Seq(FlaggedMirrored)
  /\ pc \in {"waitVals", "recvVals", "merge", "recvDone"} =>
       /\ OnlyResets(hostQ) /\ Followed(hostQ, Stale, Starts)
       /\ OnlyResets(mirrorQ)
       /\ "START" \in Ops(hostQ) \/ Followed(mirrorQ, Stale, Collects \cup RstStarts)

(* The packet that takes the last key goes to the end of the queue, so the *)
(* reset that it starts has no collect packet behind it.                   *)
CollectsAhead == keyIdx[ColCopy] # 0 \/ Followed(mirrorQ, Collects, RstStarts)

-----------------------------------------------------------------------------
(***************************************************************************)
(* The marks.  A flagged reset has still to clear cell i of its copy.      *)
(***************************************************************************)
Pending(i) ==
  /\ Oph /\ "START" \notin Ops(hostQ)
  /\ \/ "RST_START" \in Ops(hostQ)
     \/ resetIdx = RSTIDX_MID
     \/ resetIdx < NDATA /\ i >= resetIdx

MarksIn(row, hash) == \A c \in Copies : \A i \in Cell :
  row[c][i] # 0 => \/ \E p \in known[c] : hash[p] = i
                   \/ c = ColCopy /\ Pending(i)

MarksKnown == MarksIn(dbfX, DbfX) /\ MarksIn(dbfY, DbfY)

(* Every pair that the copy in use has seen, it has marked.                *)
PairsInStep ==
  /\ PairTypeOK
  /\ FlagsInOrder
  /\ CollectsAhead
  /\ MarksKnown
  /\ NoPairTwice

-----------------------------------------------------------------------------
(* Between the pairs that its copy had not seen and all of them.           *)
Between(f, s) == \A k \in Keys :
  /\ Cardinality(PairsOf(k, s.new)) =< f[k]
  /\ f[k] =< Cardinality(PairsOf(k, s.seen))

PairsCounted == Between(seen, pairs) /\ Between(closed, closedPairs)
=============================================================================

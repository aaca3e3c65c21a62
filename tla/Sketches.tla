------------------------------ MODULE Sketches ------------------------------
(***************************************************************************)
(* Exp-2: a trace cut into sub-windows is fed to sketches of a few         *)
(* counters, by one of the ways that its README names of making windows.   *)
(*   OTW, OSW  one sketch per sub-window, in a ring of MeasurePoint; the   *)
(*             ring is merged at the end of a window, with OSW after each  *)
(*             sub-window                                                  *)
(*   TW2       one sketch, read and cleared every MeasurePoint sub-windows *)
(*   sliding   the baseline: a new and an old copy, aged by scan           *)
(***************************************************************************)
EXTENDS Integers, FiniteSetsExt, SequencesExt

CONSTANTS Keys,
          Packets,       \* the packets of traces: a key and a length
          Depth, Width,  \* rows of a sketch and counters of a row
          HashOf,        \* hash: HashOf[key][row] is a counter of the row
          RankOf,        \* findOne of the second hash of a HyperLogLog
          MeasurePoint,  \* MEASURE_POINT: sub-windows of a window
          HHThreshold,   \* HH_THRESHOLD
          NSub,          \* bound: sub-windows of the trace
          MaxPkts        \* bound: packets of the trace

SketchesAssumption ==
  /\ Packets \subseteq Keys \X (Nat \ {0})
  /\ {Depth, Width, MeasurePoint, HHThreshold, NSub} \subseteq Nat \ {0} /\ MaxPkts \in Nat
  /\ (Width * Depth) \div MeasurePoint < Width  \* with depth 4 and MEASURE_POINT 5 it is
  /\ HashOf \in [Keys -> [1 .. Depth -> 1 .. Width]] /\ RankOf \in [Keys -> Nat \ {0}]

VARIABLES way,         \* OTW, OSW, TW2 or sliding
          kind,        \* the name of the sketch
          sketch,      \* the sketches; for sliding <<new, old>>
          hitters,     \* heavyHitters of each sketch
          tracked,     \* trackedKeys of each sub-window in the ring
          head,        \* OTW, OSW: the place of the current sub-window
          headJ,       \* sliding: head_j, the column where scan goes on
          sub, pkts,   \* sub-windows that ended, packets of the current one and of all
          sizes,       \* history: flow sizes of the last MeasurePoint sub-windows
          heavy,       \* DataProfiler: flows that were heavy in some window
          result       \* what the window that just ended was estimated to be

skVars == <<way, kind, sketch, hitters, tracked, head, headJ, sub, pkts, sizes, heavy, result>>

Rows == 1 .. Depth
NoKey == "none"
Counting == {"CM", "SM"}
Finding == {"HP", "MV"}
Cardinal == {"LC", "HLL"}
RowSeq == [i \in Rows |-> i]

Larger(a, b) == IF a < b THEN b ELSE a
Empty ==
  [i \in Rows |-> [j \in 1 .. Width |->
     IF kind = "HP" THEN [k |-> NoKey, c |-> 0]
     ELSE IF kind = "MV" THEN [k |-> NoKey, c |-> 0, v |-> 0] ELSE 0]]

-----------------------------------------------------------------------------
(* insert of each sketch, on its matrix m.                                 *)
CMInsert(m, key, val) == [i \in Rows |-> [m[i] EXCEPT ![HashOf[key][i]] = @ + val]]

(* A variant with a fault: a counter above omiga is lowered to it.         *)
SMInsertLow(m, key, val) ==
  LET Row(acc, i) ==
        LET old == acc.m[i][HashOf[key][i]]
            new == IF old + val < acc.omiga THEN old + val ELSE acc.omiga
        IN [m |-> [acc.m EXCEPT ![i][HashOf[key][i]] = new],
            omiga |-> IF old + val < acc.omiga THEN new ELSE acc.omiga]
      numericMax == 1 + MaxPkts * Max({p[2] : p \in Packets})
  IN FoldLeft(Row, [m |-> m, omiga |-> numericMax], RowSeq).m

(* Row by row, omiga is the least value given so far.                      *)
SMInsert(m, key, val) ==
  LET Row(acc, i) ==
        LET old == acc.m[i][HashOf[key][i]]
            new == IF old + val < acc.omiga THEN old + val ELSE Larger(old, acc.omiga)
        IN [m |-> [acc.m EXCEPT ![i][HashOf[key][i]] = new],
            omiga |-> IF old + val < acc.omiga THEN new ELSE acc.omiga]
      numericMax == 1 + MaxPkts * Max({p[2] : p \in Packets})
  IN FoldLeft(Row, [m |-> m, omiga |-> numericMax], RowSeq).m

(* The first row always takes the packet; what it pushes out goes down to  *)
(* a smaller count, and is lost behind the last row.                       *)
HPInsert(m, key, val) ==
  LET Row(acc, i) ==
        LET cell == acc.m[i][HashOf[acc.key][i]]
            Put(c) == [acc.m EXCEPT ![i][HashOf[acc.key][i]] = [k |-> acc.key, c |-> c]]
        IN IF acc.val = 0 THEN acc
           ELSE IF cell.k = NoKey THEN [acc EXCEPT !.m = Put(acc.val), !.val = 0]
           ELSE IF cell.k = acc.key THEN [acc EXCEPT !.m = Put(cell.c + acc.val), !.val = 0]
           ELSE IF i = 1 \/ cell.c < acc.val
                THEN [m |-> Put(acc.val), key |-> cell.k, val |-> cell.c]
           ELSE acc
  IN FoldLeft(Row, [m |-> m, key |-> key, val |-> val], RowSeq).m

(* A majority vote in every counter.                                       *)
MVVote(cell, key, val) ==
  LET c == IF cell.k = key THEN cell.c + val ELSE cell.c - val
  IN [k |-> IF c < 0 THEN key ELSE cell.k, c |-> IF c < 0 THEN -c ELSE c, v |-> cell.v + val]
MVInsert(m, key, val) == [i \in Rows |-> [m[i] EXCEPT ![HashOf[key][i]] = MVVote(@, key, val)]]

(* A bitmap is a HyperLogLog whose ranks are all one; both have one row.   *)
LCInsert(m, key) == [m EXCEPT ![1][HashOf[key][1]] = Larger(@, IF kind = "LC" THEN 1 ELSE RankOf[key])]

Insert(m, key, val) ==
  CASE kind = "CM" -> CMInsert(m, key, val)
    [] kind = "SM" -> SMInsert(m, key, val)
    [] kind = "HP" -> HPInsert(m, key, val)
    [] kind = "MV" -> MVInsert(m, key, val)
    [] kind \in Cardinal -> LCInsert(m, key)

(* query of each sketch.                                                   *)
CellOf(m, key, i) == m[i][HashOf[key][i]]
HPQuery(m, key) ==
  LET found == {i \in Rows : CellOf(m, key, i).k = key} IN MapThenSumSet(LAMBDA i : CellOf(m, key, i).c, found)
MVQuery(m, key) ==
  Min({LET cell == CellOf(m, key, i)
       IN (IF cell.k = key THEN cell.v + cell.c ELSE cell.v - cell.c) \div 2 : i \in Rows})
Query(m, key) ==
  CASE kind \in Counting -> Min({CellOf(m, key, i) : i \in Rows})
    [] kind = "HP" -> HPQuery(m, key)
    [] kind = "MV" -> MVQuery(m, key)

(* getHeavyHitters adds the keys it finds to those found before.           *)
Held(m) == {m[i][j].k : i \in Rows, j \in 1 .. Width} \ {NoKey}
GetHeavyHitters(m, threshold, found) ==
  found @@ [k \in {key \in Held(m) : Query(m, key) > threshold} |-> Query(m, k)]

-----------------------------------------------------------------------------
Ring == way \in {"OTW", "OSW"}
Copies == CASE Ring -> MeasurePoint [] way = "TW2" -> 1 [] way = "sliding" -> 2
NoHitters == [k \in {} |-> 0]
NoSizes == [k \in Keys |-> 0]

(* Exp-2 runs a sliding version of every sketch; that of CM is here.       *)
SketchesInit ==
  /\ way \in {"OTW", "OSW", "TW2", "sliding"}
  /\ kind \in IF way = "sliding" THEN {"CM"} ELSE Counting \cup Finding \cup Cardinal
  /\ sketch = [c \in 1 .. Copies |-> Empty]
  /\ hitters = [c \in 1 .. Copies |-> NoHitters]
  /\ tracked = [c \in 1 .. Copies |-> {}]
  /\ head = 1 /\ headJ = 0
  /\ sub = 0 /\ pkts = [now |-> 0, all |-> 0]
  /\ sizes = [s \in 1 .. MeasurePoint |-> NoSizes]
  /\ heavy = {} /\ result = <<>>

(* scan: the row at head_i is aged from head_j on.  head_j is not set back *)
(* to the first column for the next row, so only the first row is aged, by *)
(* one scan in two unless a row is shorter than what a scan has to do.     *)
ScanCellsAll == (Width * Depth) + 1  \* a variant with a fault: a window's worth per scan
ScanCells == ((Width * Depth) \div MeasurePoint) + 1
Scan(new, old) ==
  IF headJ = 0
  THEN [copies |-> <<[new EXCEPT ![1] = [j \in 1 .. Width |-> 0]], [old EXCEPT ![1] = new[1]]>>,
        headJ |-> IF ScanCells <= Width THEN Width ELSE 0]
  ELSE [copies |-> <<new, old>>, headJ |-> 0]

(* One packet of insertAll; the first of a sub-window makes a sliding      *)
(* sketch scan.                                                            *)
InsertPacket ==
  /\ sub < NSub /\ pkts.all < MaxPkts
  /\ \E p \in Packets :
       LET key == p[1]
           len == p[2]
           new == Insert(sketch[head], key, len)
           scan == Scan(new, sketch[2])
           scans == way = "sliding" /\ pkts.now = 0
       IN /\ sketch' = IF scans THEN scan.copies ELSE [sketch EXCEPT ![head] = new]
          /\ headJ' = IF scans THEN scan.headJ ELSE headJ
          /\ tracked' = IF Ring THEN [tracked EXCEPT ![head] = @ \cup {key}] ELSE tracked
          /\ sizes' = [IF pkts.now = 0 THEN Append(Tail(sizes), NoSizes) ELSE sizes
                         EXCEPT ![MeasurePoint][key] = @ + len]
  /\ pkts' = [now |-> pkts.now + 1, all |-> pkts.all + 1]
  /\ result' = <<>>
  /\ UNCHANGED <<way, kind, hitters, head, sub, heavy>>

-----------------------------------------------------------------------------
(* What the end of a window makes of the sketches.                         *)
TrueSize(key) == MapThenSumSet(LAMBDA s : sizes[s][key], DOMAIN sizes)
Places == 1 .. Copies
Oldest == (head % MeasurePoint) + 1

(* flowSizeEst.                                                            *)
FlowSize(key) ==
  CASE Ring -> MapThenSumSet(LAMBDA j : Query(sketch[j], key), {j \in Places : key \in tracked[j]})
    [] way = "TW2" -> Query(sketch[1], key)
    [] way = "sliding" -> Min({CellOf(sketch[1], key, i) + CellOf(sketch[2], key, i) : i \in Rows})

WindowEnds ==
  IF way \in {"OSW", "sliding"} THEN sub + 1 >= MeasurePoint ELSE (sub + 1) % MeasurePoint = 0

(* Each sketch of the ring is asked for its heavy hitters when its         *)
(* sub-window ends, the one of TW2 when the window does.                   *)
HittersNow ==
  CASE Ring -> [hitters EXCEPT ![head] = GetHeavyHitters(sketch[head], HHThreshold \div MeasurePoint, @)]
    [] way = "TW2" /\ WindowEnds -> [hitters EXCEPT ![1] = GetHeavyHitters(sketch[1], HHThreshold, @)]
    [] OTHER -> hitters

(* A variant with a fault: a flow has the size of one of its sub-windows.  *)
MergedOnce(lists) ==
  [k \in UNION {DOMAIN lists[j] : j \in Places} |->
     Min({lists[j][k] : j \in {j \in Places : k \in DOMAIN lists[j]}})]

(* heavyHittersMerge adds the lists up in the oldest sketch's.             *)
Merged(lists) ==
  [k \in UNION {DOMAIN lists[j] : j \in Places} |->
     MapThenSumSet(LAMBDA j : lists[j][k], {j \in Places : k \in DOMAIN lists[j]})]

(* operator |= joins all sketches into the oldest.                         *)
Joined == [i \in Rows |-> [j \in 1 .. Width |-> Max({sketch[c][i][j] : c \in Places})]]

(* Variants with a fault: what is reused is not cleared.                   *)
ClearedNever(copies, place) == copies
FreshNever(lists, place) == lists

(* The sketch that is used next is cleared, and its list.                  *)
Cleared(copies, place) == [copies EXCEPT ![place] = Empty]
Fresh(lists, place) == [lists EXCEPT ![place] = NoHitters]

(* The end of a sub-window: queries and merges where a window ends, then   *)
(* the sketch of the next sub-window.  TW2 never clears its list.          *)
EndSubWindow ==
  /\ pkts.now > 0
  /\ LET lists == IF kind \in Finding THEN HittersNow ELSE hitters
         merged == IF Ring THEN Merged(lists) ELSE lists[1]
         next == IF Ring THEN Oldest ELSE 1
         merges(kinds) == Ring /\ WindowEnds /\ kind \in kinds
         joined == IF merges(Cardinal) THEN [sketch EXCEPT ![Oldest] = Joined] ELSE sketch
         kept == IF merges(Finding) THEN [lists EXCEPT ![Oldest] = merged] ELSE lists
     IN /\ result' =
             IF ~WindowEnds THEN <<>>
             ELSE CASE kind \in Counting ->
                         <<[k \in {key \in Keys : TrueSize(key) > 0} |-> FlowSize(k)]>>
                    [] kind \in Finding -> <<merged>>
                    [] kind \in Cardinal -> <<IF Ring THEN Joined ELSE sketch[1]>>
        /\ head' = next
        /\ sketch' = IF Ring \/ (way = "TW2" /\ WindowEnds) THEN Cleared(joined, next) ELSE joined
        /\ hitters' = IF Ring THEN Fresh(kept, next) ELSE kept
        /\ tracked' = IF Ring THEN [tracked EXCEPT ![next] = {}] ELSE tracked
  /\ sub' = sub + 1 /\ pkts' = [pkts EXCEPT !.now = 0]
  /\ heavy' = IF sub + 1 >= MeasurePoint
              THEN heavy \cup {k \in Keys : TrueSize(k) > HHThreshold} ELSE heavy
  /\ UNCHANGED <<way, kind, headJ, sizes>>

SketchesNext == InsertPacket \/ EndSubWindow

-----------------------------------------------------------------------------
(* A count-min or SuMax estimate of a flow is never below its size in the  *)
(* window: in a ring, where it is the sum over the sub-windows that track  *)
(* the flow and each sketch served an earlier sub-window, and with TW2     *)
(* (omniWindowSketch.h line 85 prints it if an estimate is below).         *)
NeverBelow ==
  (result # <<>> /\ kind \in Counting /\ way # "sliding") =>
    \A k \in DOMAIN result[1] : result[1][k] >= TrueSize(k)

(* What the scan of the sliding baseline makes of an estimate: it covers   *)
(* three sub-windows after a scan that ages nothing, and two after one     *)
(* that ages the first row.  This is less than the window of MEASURE_POINT *)
(* sub-windows that slidingSketch.h compares it with (lines 47 to 49).     *)
SlidingCovers ==
  (result # <<>> /\ way = "sliding") =>
    LET covered == {s \in 1 .. MeasurePoint : s > MeasurePoint - IF headJ = 0 THEN 3 ELSE 2}
    IN  \A k \in DOMAIN result[1] :
          result[1][k] >= MapThenSumSet(LAMBDA s : sizes[s][k], covered)

(* The estimates of flow sizes cover what they are said to cover.          *)
EstimatesCover == NeverBelow /\ SlidingCovers

(* HashPipe never counts a byte twice: what a ring merges for a flow is    *)
(* no more than its size in the window, whatever the sketches and lists    *)
(* held before.  The list of TW2 is that of all windows so far, and each   *)
(* flow in it was heavy in one of them.                                    *)
NoFalseHitter ==
  (result # <<>> /\ kind = "HP") =>
    \A k \in DOMAIN result[1] : IF Ring THEN result[1][k] <= TrueSize(k) ELSE k \in heavy

(* A flow that has more than half of the bytes of one of its counters.     *)
Dominates(size, k) ==
  \E i \in Rows :
    2 * size[k] > MapThenSumSet(LAMBDA f : size[f], {f \in Keys : HashOf[f][i] = HashOf[k][i]})

(* An MV sketch misses no flow that wins the vote of one of its counters:  *)
(* a ring merges at least what the flow had in the sub-windows where it    *)
(* wins and passes the threshold of a sub-window, and TW2 lists it if it   *)
(* wins and is heavy in the window.                                        *)
MajorityFound ==
  (result # <<>> /\ kind = "MV") =>
    LET won(k) == {s \in 1 .. MeasurePoint :
                     sizes[s][k] > HHThreshold \div MeasurePoint /\ Dominates(sizes[s], k)}
        size == [k \in Keys |-> TrueSize(k)]
    IN  \A k \in Keys :
          IF Ring
          THEN won(k) # {} => /\ k \in DOMAIN result[1]
                              /\ result[1][k] >= MapThenSumSet(LAMBDA s : sizes[s][k], won(k))
          ELSE size[k] > HHThreshold /\ Dominates(size, k) => k \in DOMAIN result[1]

(* Joined bitmaps and HyperLogLogs are those of the window's flows: each   *)
(* sketch of the ring that is joined holds its sub-window and nothing of   *)
(* the one before, nor of an earlier merge.                                *)
JoinExact ==
  (result # <<>> /\ kind \in Cardinal) =>
    \A j \in 1 .. Width :
      result[1][1][j] =
        Max({0} \cup {IF kind = "LC" THEN 1 ELSE RankOf[k] :
                        k \in {key \in Keys : TrueSize(key) > 0 /\ HashOf[key][1] = j}})

(* What the other sketches find in a window.                               *)
FindsRight == NoFalseHitter /\ MajorityFound /\ JoinExact
=============================================================================

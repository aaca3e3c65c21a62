--------------------------- MODULE QueryInvariant ---------------------------
(***************************************************************************)
(* Why the seven controller programs of MCQueries report what they should: *)
(* the inductive invariant behind AddressesRight, FreeIsClear and          *)
(* ReportsExact.  It is stated once, over the values of the query that     *)
(* runs; the proofs are in MCQueries_proofs.                               *)
(***************************************************************************)
EXTENDS MCQueries, Sums

(* A value of the query that runs with its lanes zero, the values that are *)
(* tried, and the keys of the input file that its program inserts.         *)
Zero ==
  CASE query = "syn-flood" -> SynFlood!Val
    [] query = "completed-flow" -> CompletedFlow!Val
    [] query = "slowloris-attack" -> Slowloris!Val
    [] OTHER -> Ddos!Val

Sample ==
  CASE query = "syn-flood" -> SynFlood!Samples
    [] query = "completed-flow" -> CompletedFlow!Samples
    [] query = "slowloris-attack" -> Slowloris!Samples
    [] OTHER -> Ddos!Samples

HotKeys == IF query \in {"superspreader", "ddos", "port-scan"} THEN InputKeys ELSE {}

Lanes == DOMAIN Zero
Values == [Lanes -> Nat]

(* What each program should report, asked of an exact sum.                 *)
Suspect(v) ==
  CASE query = "syn-flood" -> SynFlood!FloodedOrNegative(v)
    [] query = "completed-flow" -> CompletedFlow!UnfinishedOrNegative(v)
    [] query = "slowloris-attack" -> Slowloris!Slow(v)
    [] OTHER -> Ddos!Attacked(v)

-----------------------------------------------------------------------------
Programs == {"syn-flood", "completed-flow", "slowloris-attack", "superspreader",
             "ddos", "port-scan", "ssh-brute"}

Typed ==
  /\ query \in Programs
  /\ sliding \in BOOLEAN
  /\ pc \in {"idle", "recvKeys", "request", "recvKeyVals", "merge", "recvDone"}
  /\ posOf \in [Keys -> Pos \cup {NoPos}]
  /\ keys \in [Pos -> Keys \cup {NoKey}]
  /\ valid \subseteq Pos /\ pin \subseteq Pos
  /\ epochData \in [Rows -> [Pos -> Values]]
  /\ mergedData \in [Pos -> Values]
  /\ abnormalKeys \subseteq Keys
  /\ curEpoch \in 0 .. NEpoch - 1
  /\ curEpochPos \in Rows /\ epoch \in Rows
  /\ requests \subseteq [key : Keys, row : 0 .. NEPOCH_BUF - 1, pos : Pos]
  /\ unsent \subseteq Keys
  /\ counts \in [Keys -> Values]
  /\ past \in Seq([Keys -> Values])

(* The table, keys and valid agree; a key of the input file stays.         *)
Held(k) == posOf[k] # NoPos

TableRight ==
  /\ \A k \in Keys : Held(k) => posOf[k] \in valid /\ keys[posOf[k]] = k
  /\ \A p \in valid : keys[p] \in Keys /\ posOf[keys[p]] = p
  /\ \A k \in HotKeys : Held(k) /\ (sliding => posOf[k] \in pin)
  /\ ~sliding => valid = 0 .. Cardinality(valid) - 1

(* START moves the switch to the next row, the end of switchWin the host.  *)
Started == pc \in {"recvKeyVals", "merge", "recvDone"}
ClockRight ==
  sliding => epoch = IF Started THEN (curEpochPos + 1) % NEPOCH_BUF ELSE curEpochPos

(* A query carries the place of its key, which keeps it until the answer.  *)
Asked == {q.key : q \in requests}
QueriesRight ==
  /\ pc \in {"request", "recvKeyVals"} \/ requests = {}
  /\ \A q \in requests : Held(q.key) /\ q.pos = posOf[q.key] /\ q.row = curEpochPos
  /\ Asked \cap unsent = {}

(* What the host still has to learn of this sub-window.                    *)
ToCome ==
  /\ pc = "idle" => counts = [k \in Keys |-> Zero]
  /\ pc \in {"idle", "merge", "recvDone"} => unsent = {}
  /\ \A k \in unsent : counts[k] # Zero
  /\ pc \in {"request", "recvKeyVals", "merge"} =>
       \A k \in Keys : Held(k) \/ k \in unsent \/ counts[k] = Zero

(* A position that was never used is clear, so that no build, whatever     *)
(* positions it compares, reports a key that is none.                      *)
Unused(p) == keys[p] = NoKey
UnusedClear ==
  \A p \in Pos : Unused(p) => mergedData[p] = Zero /\ \A r \in Rows : epochData[r][p] = Zero

Structure == TableRight /\ ClockRight /\ QueriesRight /\ ToCome /\ UnusedClear

-----------------------------------------------------------------------------
(* QueryHost's Total and Remembered, for values with these lanes.          *)
Plus(lanes, x, y) == [i \in lanes |-> x[i] + y[i]]
TotalOn(lanes, k) == FoldFunction(LAMBDA c, sum : Plus(lanes, c[k], sum), counts[k], past)

RememberedOn(lanes) ==
  IF sliding THEN IF Len(past) < NEpoch - 1 THEN Append(past, counts)
                                            ELSE Tail(Append(past, counts))
             ELSE <<[k \in Keys |-> TotalOn(lanes, k)]>>

(* The sum of the window with SLIDING, of all sub-windows without.         *)
WindowTotal(k) == TotalOn(Lanes, k)

(* The sub-windows that mergedData holds: the merge takes this one in, and *)
(* lets the oldest go.                                                     *)
Kept == IF pc = "recvDone" THEN RememberedOn(Lanes) ELSE past
LaneSum(s, k, i) == Total([j \in 1 .. Len(s) |-> s[j][k][i]])

DelEpochPos == (curEpochPos + (NEPOCH_BUF - (NEpoch - 1))) % NEPOCH_BUF
ClearedRow == IF sliding THEN DelEpochPos ELSE 0

(* The row of j sub-windows ago, and the value of key k then.              *)
RowAgo(j) == (curEpochPos + (NEPOCH_BUF - j)) % NEPOCH_BUF
Ago(j, k) == IF j <= Len(past) THEN past[Len(past) + 1 - j][k] ELSE Zero

(* The value of k in this sub-window is in its row.                        *)
Arrived(k) ==
  pc \in {"merge", "recvDone"} \/ (pc \in {"request", "recvKeyVals"} /\ k \notin unsent \cup Asked)

RowsRight ==
  /\ \A k \in Keys : Held(k) =>
       epochData[curEpochPos][posOf[k]] = IF Arrived(k) THEN counts[k] ELSE Zero
  /\ sliding => \A j \in 1 .. NEPOCH_BUF - 1, k \in Keys :
       Held(k) => epochData[RowAgo(j)][posOf[k]] = Ago(j, k)

MergedRight ==
  \A k \in Keys : Held(k) => mergedData[posOf[k]] = [i \in Lanes |-> LaneSum(Kept, k, i)]

FreeRight ==
  /\ \A p \in Pos \ valid : mergedData[p] = Zero
  /\ \A p \in Pos \ valid, r \in Rows :
       (pc = "recvDone" /\ r = ClearedRow) \/ epochData[r][p] = Zero
  /\ \A k \in Keys : ~Held(k) => \A j \in 1 .. Len(Kept) : Kept[j][k] = Zero

(* No lane wraps.                                                          *)
Bounded ==
  /\ \A k \in Keys, i \in Lanes : counts[k][i] <= 2
  /\ sliding => /\ Len(past) <= NEpoch - 1
                /\ \A j \in 1 .. Len(past), k \in Keys, i \in Lanes : past[j][k][i] <= 2
  /\ ~sliding /\ pc \notin {"idle", "recvDone"} =>
       \A p \in Pos, i \in Lanes : mergedData[p][i] < MaxTotal

Reported ==
  pc = "recvDone" =>
    abnormalKeys = IF sliding \/ curEpoch = NEpoch - 1
                   THEN {k \in Keys : Suspect(WindowTotal(k))} ELSE {}

Exact == RowsRight /\ MergedRight /\ FreeRight /\ Bounded /\ Reported

(* The sums kept fit in the lanes, and no difference is taken for one of   *)
(* the other sign.                                                         *)
Fits ==
  /\ 2 * NEpoch < Width16 /\ MaxTotal + 1 < Width16
  /\ 2 * Width16 + Threshold <= Width32
=============================================================================

----------------------------- MODULE QueryHost ------------------------------
(***************************************************************************)
(* What the controller programs of the queries do alike; the module of a   *)
(* query instantiates this one with its values and tests.                  *)
(*                                                                         *)
(* The completions of the switch name its DONE messages only (checked in   *)
(* OmniWindow), so a loop that reads messages up to a DONE begins when all *)
(* of them are there, and is one action.  While it runs, the switch writes *)
(* nothing that the loop looks at.                                         *)
(***************************************************************************)
EXTENDS QueryState

CONSTANTS Zero,            \* a value with all its lanes zero
          Sample,          \* values that a key may have in one sub-window
          Add(_, _),       \* the vector addition of the merge
          Sub(_, _),       \* the vector subtraction
          Abnormal(_),     \* the comparison of the program
          Vanished(_),     \* find-del: nothing is left of a key
          Suspect(_),      \* what should be reported, asked of an exact sum
          ValidOnly,       \* the comparison of a SLIDING build looks at valid[]
          RespectsPin,     \* find-del leaves pinned positions alone
          HotKeys          \* keys that insKeys inserts and pins

Query == [key : Keys, row : 0 .. NEPOCH_BUF - 1, pos : Pos]
Values == [DOMAIN Zero -> Nat]
NoCounts == [k \in Keys |-> Zero]

TypeOK ==
  /\ sliding \in BOOLEAN
  /\ pc \in {"idle", "recvKeys", "request", "recvKeyVals", "merge", "recvDone"}
  /\ posOf \in [Keys -> Pos \cup {NoPos}]
  /\ keys \in [Pos -> Keys \cup {NoKey}]
  /\ valid \subseteq Pos /\ pin \subseteq Pos
  /\ DOMAIN epochData = Rows
  /\ \A r \in Rows : epochData[r] \in [Pos -> Values]
  /\ mergedData \in [Pos -> Values]
  /\ abnormalKeys \subseteq Keys
  /\ curEpoch \in 0 .. NEpoch - 1
  /\ {curEpochPos, epoch} \subseteq Rows
  /\ requests \subseteq Query
  /\ unsent \subseteq Keys
  /\ counts \in [Keys -> Values]
  /\ past \in Seq([Keys -> Values])

-----------------------------------------------------------------------------
(* The constructor: memory is zero, and so are the counters.  curEpochPos  *)
(* has no initialiser; the object lies in fresh pages.                     *)
Construct ==
  /\ sliding \in BOOLEAN
  /\ pc = "idle"
  /\ epochData = [r \in Rows |-> [p \in Pos |-> Zero]]
  /\ mergedData = [p \in Pos |-> Zero]
  /\ abnormalKeys = {}
  /\ curEpoch = 0 /\ curEpochPos = 0 /\ epoch = 0
  /\ requests = {} /\ unsent = {}
  /\ counts = NoCounts /\ past = <<>>

(* insKeys inserts the keys of the input file one by one in an empty table *)
(* and pins them.                                                          *)
Pinned(place) == {place[k] : k \in HotKeys}

InsertInput ==
  \E place \in {f \in [HotKeys -> 0 .. Cardinality(HotKeys) - 1] : IsInjective(f)} :
    /\ posOf = [k \in Keys |-> IF k \in HotKeys THEN place[k] ELSE NoPos]
    /\ keys = [p \in Pos |-> IF p \in Pinned(place) THEN CHOOSE k \in HotKeys : place[k] = p
                                                    ELSE NoKey]
    /\ valid = Pinned(place)
    /\ pin = IF sliding THEN Pinned(place) ELSE {}

(* h.addKey of the keys K one after the other: a key keeps its position; a *)
(* table that never deletes gives out 0, 1, 2 ..., another any that is free. *)
Places(K) ==
  LET new == {k \in K : posOf[k] = NoPos}
      free == IF sliding THEN Pos \ {posOf[k] : k \in Keys}
                         ELSE Cardinality(valid) .. Cardinality(valid) + Cardinality(new) - 1
  IN  {[k \in Keys |-> IF k \in new THEN f[k] ELSE posOf[k]] :
          f \in {g \in [new -> free] : IsInjective(g)}}

(* A variant with a fault: only a position that was never used stores its  *)
(* key, as in the build that deletes none.                                 *)
InsKeysOnce(K) ==
  /\ posOf' \in Places(K)
  /\ valid' = valid \cup {posOf'[k] : k \in K}
  /\ keys' = [p \in Pos |-> IF keys[p] = NoKey /\ \E k \in K : posOf'[k] = p
                            THEN CHOOSE k \in K : posOf'[k] = p ELSE keys[p]]
  /\ UNCHANGED pin

(* insKey of the keys K.                                                   *)
InsKeys(K) ==
  /\ posOf' \in Places(K)
  /\ valid' = valid \cup {posOf'[k] : k \in K}
  /\ keys' = [p \in Pos |-> IF \E k \in K : posOf'[k] = p
                            THEN CHOOSE k \in K : posOf'[k] = p ELSE keys[p]]
  /\ UNCHANGED pin

(* switchWin begins: a sub-window with the values c ends, in which the keys *)
(* of over found the buffer of the switch full.                            *)
SwitchWin ==
  /\ pc = "idle"
  /\ ~sliding => \A p \in Pos, i \in DOMAIN Zero : mergedData[p][i] < MaxTotal
  /\ pc' = "recvKeys"
  /\ counts' \in [Keys -> Sample \cup {Zero}]
  /\ unsent' \in SUBSET {k \in Keys \ HotKeys : counts'[k] # Zero}
  /\ UNCHANGED <<sliding, tableVars, epochData, mergedData, abnormalKeys, clockVars, requests, past>>

(* A variant with a fault: every address is in the first row.              *)
AddressInRow0(k, pos) == [key |-> k, row |-> 0, pos |-> pos]

(* The address in a query: the place of the key in the row of this sub-window. *)
Address(k, pos) == [key |-> k, row |-> curEpochPos, pos |-> pos]

(* recvKeys: insert the keys and remember the addresses of their values.   *)
RecvKeys ==
  /\ pc = "recvKeys"
  /\ pc' = "request"
  /\ InsKeys(unsent)
  /\ requests' = {Address(k, posOf'[k]) : k \in unsent}
  /\ unsent' = {k \in Keys : counts[k] # Zero} \ unsent
  /\ UNCHANGED <<sliding, epochData, mergedData, abnormalKeys, clockVars, counts, past>>

(* The requests; START moves the switch to its next epoch.                 *)
SendRequests ==
  /\ pc = "request"
  /\ pc' = "recvKeyVals"
  /\ epoch' = IF sliding THEN (epoch + 1) % NEPOCH_BUF ELSE epoch
  /\ UNCHANGED <<sliding, tableVars, epochData, mergedData, abnormalKeys, curEpoch, curEpochPos,
                 requests, unsent, counts, past>>

(* The switch answers a query: it writes to the address in the query.      *)
AnswerQuery ==
  /\ pc = "recvKeyVals"
  /\ \E q \in requests :
       /\ requests' = requests \ {q}
       /\ epochData' = [epochData EXCEPT ![q.row][q.pos] = counts[q.key]]
  /\ UNCHANGED <<sliding, pc, tableVars, mergedData, abnormalKeys, clockVars, unsent, counts, past>>

(* The row that the switch adds to an address of tab_addr.                 *)
SwitchRow == IF sliding THEN (epoch + NEPOCH_BUF - 1) % NEPOCH_BUF ELSE 0

(* The switch collects a key of tab_addr and writes its value there.       *)
WriteHotKey ==
  /\ pc = "recvKeyVals"
  /\ \E k \in unsent \cap HotKeys :
       /\ unsent' = unsent \ {k}
       /\ epochData' = [epochData EXCEPT ![SwitchRow][posOf[k]] = counts[k]]
  /\ UNCHANGED <<sliding, pc, tableVars, mergedData, abnormalKeys, clockVars, requests, counts, past>>

(* The first message can be read when the switch has sent DONE, after the  *)
(* last value that it has to write.                                        *)
DoneSent == requests = {} /\ unsent \cap HotKeys = {}

(* recvKeyVals: insert the keys and store their values.                    *)
RecvKeyVals ==
  /\ pc = "recvKeyVals"
  /\ pc' = "merge"
  /\ InsKeys(unsent)
  /\ epochData' = [epochData EXCEPT ![curEpochPos] = [p \in Pos |->
       IF \E k \in unsent : posOf'[k] = p
       THEN counts[CHOOSE k \in unsent : posOf'[k] = p] ELSE @[p]]]
  /\ unsent' = {}
  /\ UNCHANGED <<sliding, mergedData, abnormalKeys, clockVars, requests, counts, past>>

-----------------------------------------------------------------------------
(* The keys at the positions P whose merged value passes the comparison.   *)
Compare(P, merged) == {keys[p] : p \in {q \in P : Abnormal(merged[q])}}

(* A variant with a fault: one sub-window too many.                        *)
DelEpochPosLate == (curEpochPos + (NEPOCH_BUF - NEpoch)) % NEPOCH_BUF

(* The row of the sub-window that is in this window and not in the next.   *)
DelEpochPos == (curEpochPos + (NEPOCH_BUF - (NEpoch - 1))) % NEPOCH_BUF

(* find-del: positions whose key is absent from what is left.              *)
FoundDel(left) == {p \in (IF RespectsPin THEN valid \ pin ELSE valid) : Vanished(left[p])}

(* The merge of a SLIDING build: add this sub-window, compare, subtract the *)
(* oldest, and delete the keys that are left with nothing.                 *)
MergeSliding ==
  /\ pc = "merge" /\ sliding
  /\ pc' = "recvDone"
  /\ LET added == [p \in Pos |-> Add(mergedData[p], epochData[curEpochPos][p])]
         left == [p \in Pos |-> Sub(added[p], epochData[DelEpochPos][p])]
         del == FoundDel(left)
     IN  /\ abnormalKeys' = Compare(IF ValidOnly THEN valid ELSE Pos, added)
         /\ mergedData' = left
         /\ valid' = valid \ del
         /\ posOf' = [k \in Keys |-> IF \E p \in del : keys[p] = k THEN NoPos ELSE posOf[k]]
  /\ UNCHANGED <<sliding, keys, pin, epochData, clockVars, requests, unsent, counts, past>>

LastOfWindow == curEpoch = NEpoch - 1

(* The merge of the other build: it compares at the end of a window.       *)
MergeTumbling ==
  /\ pc = "merge" /\ ~sliding
  /\ pc' = "recvDone"
  /\ LET added == [p \in Pos |-> Add(mergedData[p], epochData[0][p])]
     IN  /\ mergedData' = added
         /\ abnormalKeys' = IF LastOfWindow THEN Compare(valid, added) ELSE {}
  /\ UNCHANGED <<sliding, tableVars, epochData, clockVars, requests, unsent, counts, past>>

(* The row that is cleared at the end of switchWin.                        *)
ClearedRow == IF sliding THEN DelEpochPos ELSE 0

(* The exact sum of what is remembered and this sub-window: of a SLIDING   *)
(* build, the window that ends now; of the other, every sub-window since   *)
(* the program started.                                                    *)
Plus(x, y) == [i \in DOMAIN Zero |-> x[i] + y[i]]
Total(k) == FoldFunction(LAMBDA c, sum : Plus(c[k], sum), counts[k], past)

(* mergedData of a SLIDING build holds the last NEpoch - 1 sub-windows; in *)
(* the other build nothing clears it, and it holds all of them.            *)
Remembered ==
  IF sliding THEN IF Len(past) < NEpoch - 1 THEN Append(past, counts)
                                            ELSE Tail(Append(past, counts))
             ELSE <<[k \in Keys |-> Total(k)]>>

(* A variant with a fault: the ring does not wrap.                         *)
NextEpochPosEndless == curEpochPos + 1

NextEpochPos == IF sliding THEN (curEpochPos + 1) % NEPOCH_BUF ELSE 0

(* recvDone and the end of switchWin.                                      *)
RecvDone ==
  /\ pc = "recvDone"
  /\ pc' = "idle"
  /\ epochData' = [epochData EXCEPT ![ClearedRow] = [p \in Pos |-> Zero]]
  /\ curEpoch' = (curEpoch + 1) % NEpoch
  /\ curEpochPos' = NextEpochPos
  /\ counts' = NoCounts
  /\ past' = Remembered
  /\ UNCHANGED <<sliding, tableVars, mergedData, abnormalKeys, epoch, requests, unsent>>

-----------------------------------------------------------------------------
(* The program reports the keys that Suspect asks for and no other,        *)
(* whatever position a key has lost and taken and whoever wrote its value: *)
(* of a SLIDING build, by exact sums over the window; of the other, at the *)
(* end of a window by exact sums since the start, as nothing clears        *)
(* mergedData between windows (OmniWindow's WindowExact is about that).    *)
ReportsExact == pc = "recvDone" =>
  abnormalKeys = IF sliding \/ LastOfWindow THEN {k \in Keys : Suspect(Total(k))} ELSE {}

(* Every address that the switch writes to is the place of that key in the *)
(* row that this sub-window is merged from.                                *)
AddressesRight == pc = "recvKeyVals" =>
  /\ \A q \in requests : q.pos = posOf[q.key] /\ q.row = curEpochPos
  /\ SwitchRow = curEpochPos

(* A position that no key has is clear in every row, so the next key to    *)
(* take it counts from zero; and it belongs to one key at most.            *)
FreeIsClear == pc = "idle" =>
  /\ \A p \in Pos \ valid : mergedData[p] = Zero /\ \A r \in Rows : epochData[r][p] = Zero
  /\ \A k \in Keys : posOf[k] # NoPos => posOf[k] \in valid /\ keys[posOf[k]] = k
=============================================================================

----------------------------- MODULE SlidingHost -----------------------------
(***************************************************************************)
(* The controller program of a sliding-window query (the SLIDING build).   *)
(* It keeps the values of the last sub-windows in a ring of rows, and      *)
(* gives each key a position in every row.  The switch writes to the rows  *)
(* too: to the address that a query names, and, for the pinned keys of its *)
(* address table, to the row that it works out from its own epoch.  A key  *)
(* that is absent from the whole window loses its position to the next new *)
(* key.                                                                    *)
(*                                                                         *)
(* What the switch reports of a sub-window is given: each of its keys once,*)
(* with its count, before the DONE that ends recvKeyVals.  OmniWindow      *)
(* checks that the switch does so.  Whether a key overflows the buffer of  *)
(* the switch is open.                                                     *)
(***************************************************************************)
EXTENDS Sums

CONSTANTS Keys,        \* the keys of the query
          NoKey,       \* content of keys[] where none has been stored
          Pos,         \* positions of the hash table: 0 .. N - 1
          NoPos,       \* "position" of a key the table does not hold
          HotKeys,     \* keys of the input file, pinned
          HotPos,      \* and their positions, which tab_addr is loaded with
          NEPOCH_BUF,  \* rows of the ring
          EpochMod,    \* 2^8: reg_epoch is eight bits wide
          NEpoch,      \* nEpoch: sub-windows of a window
          Threshold,
          MaxCount     \* bound: packets of one key in one sub-window

ASSUME SlidingHostAssumption ==
  /\ NoKey \notin Keys
  /\ NoPos \notin Pos
  /\ HotKeys \subseteq Keys
  /\ HotPos \in [HotKeys -> Pos]
  /\ \A k, j \in HotKeys : HotPos[k] = HotPos[j] => k = j
  /\ NEPOCH_BUF \in Nat \ {0}
  /\ EpochMod \in Nat \ {0} /\ EpochMod % NEPOCH_BUF = 0
  /\ NEpoch \in 1 .. NEPOCH_BUF
  /\ Threshold \in Nat \ {0}
  /\ MaxCount \in Nat

VARIABLES pc,            \* the phase of switchWin
          posOf,         \* the hash table h
          keys,          \* keys
          valid,         \* valid: positions in use
          pin,           \* pin: positions never given up
          epochData,     \* epochData[row][position]
          mergedData,    \* mergedData
          abnormalKeys,  \* abnormalKeys
          curEpochPos,   \* curEpochPos: the row of this sub-window
          epoch,         \* reg_epoch of the switch
          queries,       \* QRY_KEY requests, with the address to write to
          unsent,        \* keys whose report the switch has yet to send
          counts         \* history: counts of the sub-window being collected

tableVars == <<posOf, keys, valid, pin>>
dataVars == <<epochData, mergedData, abnormalKeys>>
vars == <<pc, tableVars, dataVars, curEpochPos, epoch, queries, unsent, counts>>

Ring == 0 .. NEPOCH_BUF - 1
NoCounts == [k \in Keys |-> 0]
Query == [key : Keys, row : Ring, pos : Pos]

TypeOK ==
  /\ pc \in {"idle", "recvKeys", "recvKeyVals", "recvDone"}
  /\ posOf \in [Keys -> Pos \cup {NoPos}]
  /\ keys \in [Pos -> Keys \cup {NoKey}]
  /\ valid \subseteq Pos
  /\ pin \subseteq Pos
  /\ epochData \in [Ring -> [Pos -> Nat]]
  /\ mergedData \in [Pos -> Int]
  /\ abnormalKeys \subseteq Keys
  /\ curEpochPos \in Ring
  /\ epoch \in 0 .. EpochMod - 1
  /\ queries \subseteq Query
  /\ unsent \subseteq Keys
  /\ counts \in [Keys -> Nat]

Pinned == {HotPos[k] : k \in HotKeys}

(* The program after insKeys: the input keys are inserted and pinned.       *)
(* curEpochPos has no initialiser; the object lies in fresh pages, which   *)
(* are zero.                                                               *)
Init ==
  /\ pc = "idle"
  /\ posOf = [k \in Keys |-> IF k \in HotKeys THEN HotPos[k] ELSE NoPos]
  /\ keys = [p \in Pos |-> IF p \in Pinned THEN CHOOSE k \in HotKeys : HotPos[k] = p
                                           ELSE NoKey]
  /\ valid = Pinned
  /\ pin = Pinned
  /\ epochData = [r \in Ring |-> [p \in Pos |-> 0]]
  /\ mergedData = [p \in Pos |-> 0]
  /\ abnormalKeys = {}
  /\ curEpochPos = 0
  /\ epoch = 0
  /\ queries = {}
  /\ unsent = {}
  /\ counts = NoCounts

-----------------------------------------------------------------------------
(* h.addKey: a key keeps its position; a new key gets any free one.        *)
AddKey(k, p) ==
  IF posOf[k] # NoPos THEN p = posOf[k] ELSE \A j \in Keys : posOf[j] # p

(* A variant with a fault: the key is stored the first time only, as where *)
(* no position is ever given up.                                           *)
InsKeyOnce(k, p) ==
  /\ AddKey(k, p)
  /\ posOf' = [posOf EXCEPT ![k] = p]
  /\ valid' = valid \cup {p}
  /\ keys' = IF keys[p] = NoKey THEN [keys EXCEPT ![p] = k] ELSE keys
  /\ UNCHANGED pin

(* insKey.                                                                 *)
InsKey(k, p) ==
  /\ AddKey(k, p)
  /\ posOf' = [posOf EXCEPT ![k] = p]
  /\ valid' = valid \cup {p}
  /\ keys' = [keys EXCEPT ![p] = k]
  /\ UNCHANGED pin

(* What is written at a row and position of epochData.                     *)
Put(row, p, val) == epochData' = [epochData EXCEPT ![row][p] = val]

(* switchWin begins: a sub-window with counts c ends, in which the keys in *)
(* over found the buffer of the switch full.                               *)
SwitchWin(c, over) ==
  /\ pc = "idle"
  /\ over \subseteq {k \in Keys : c[k] > 0}
  /\ pc' = "recvKeys"
  /\ counts' = c
  /\ unsent' = over
  /\ UNCHANGED <<tableVars, dataVars, curEpochPos, epoch, queries>>

(* recvKeys: insert the key and remember the address of its value.         *)
RecvKey(k, p) ==
  /\ pc = "recvKeys" /\ k \in unsent
  /\ InsKey(k, p)
  /\ queries' = queries \cup {[key |-> k, row |-> curEpochPos, pos |-> p]}
  /\ unsent' = unsent \ {k}
  /\ UNCHANGED <<pc, dataVars, curEpochPos, epoch, counts>>

(* The requests are sent; START moves the switch to its next epoch.        *)
SendRequests ==
  /\ pc = "recvKeys" /\ unsent = {}
  /\ pc' = "recvKeyVals"
  /\ epoch' = (epoch + 1) % EpochMod
  /\ unsent' = {k \in Keys : counts[k] > 0} \ {q.key : q \in queries}
  /\ UNCHANGED <<tableVars, dataVars, curEpochPos, queries, counts>>

(* The switch answers a query: it writes to the address in the query.      *)
AnswerQuery(q) ==
  /\ pc = "recvKeyVals"
  /\ queries' = queries \ {q}
  /\ Put(q.row, q.pos, counts[q.key])
  /\ UNCHANGED <<pc, tableVars, mergedData, abnormalKeys, curEpochPos, epoch, unsent, counts>>

(* get_col_epoch, cut to the bits that select a row.                       *)
SwitchRow == (epoch + EpochMod - 1) % NEPOCH_BUF

(* The switch collects a key of tab_addr: it writes to the address in the  *)
(* table, moved to the row of the epoch that is being collected.           *)
WriteHotKey(k) ==
  /\ pc = "recvKeyVals" /\ k \in unsent \cap HotKeys
  /\ unsent' = unsent \ {k}
  /\ Put(SwitchRow, HotPos[k], counts[k])
  /\ UNCHANGED <<pc, tableVars, mergedData, abnormalKeys, curEpochPos, epoch, queries, counts>>

(* recvKeyVals: insert the key and store its value.                        *)
RecvKeyVal(k, p) ==
  /\ pc = "recvKeyVals" /\ k \in unsent \ HotKeys
  /\ unsent' = unsent \ {k}
  /\ InsKey(k, p)
  /\ Put(curEpochPos, p, counts[k])
  /\ UNCHANGED <<pc, mergedData, abnormalKeys, curEpochPos, epoch, queries, counts>>

-----------------------------------------------------------------------------
(* A variant with a fault: one sub-window too many.                        *)
DelEpochPosLate == (curEpochPos + (NEPOCH_BUF - NEpoch)) % NEPOCH_BUF

(* The row of the sub-window that is in this window and not in the next.   *)
DelEpochPos == (curEpochPos + (NEPOCH_BUF - (NEpoch - 1))) % NEPOCH_BUF

(* Variants with a fault: pinned positions are given up too; the keys are  *)
(* looked for before this sub-window is added.                             *)
FoundDelAll(data) == {p \in valid : data[p] = 0}
FoundDelStale(data) == {p \in valid \ pin : mergedData[p] = 0}

(* find-del: positions whose key is absent from what is left.              *)
FoundDel(data) == {p \in valid \ pin : data[p] = 0}

(***************************************************************************)
(* All values have come: add this sub-window, compare, subtract the oldest *)
(* sub-window, and delete the keys that are left with nothing.             *)
(***************************************************************************)
Merge ==
  /\ pc = "recvKeyVals" /\ unsent = {} /\ queries = {}
  /\ pc' = "recvDone"
  /\ LET added == [p \in Pos |-> mergedData[p] + epochData[curEpochPos][p]]
         left == [p \in Pos |-> added[p] - epochData[DelEpochPos][p]]
         del == FoundDel(left)
     IN  /\ abnormalKeys' = {keys[p] : p \in {q \in Pos : added[q] >= Threshold}}
         /\ mergedData' = left
         /\ valid' = valid \ del
         /\ posOf' = [k \in Keys |-> IF \E p \in del : keys[p] = k THEN NoPos ELSE posOf[k]]
  /\ counts' = NoCounts
  /\ UNCHANGED <<keys, pin, epochData, curEpochPos, epoch, queries, unsent>>

(* Variants with a fault: the ring has as many rows as the window; it does *)
(* not wrap.                                                               *)
NextEpochPosOfWindow == (curEpochPos + 1) % NEpoch
NextEpochPosEndless == curEpochPos + 1

NextEpochPos == (curEpochPos + 1) % NEPOCH_BUF

(* Clear the oldest row, and go on to the next.                            *)
RecvDone ==
  /\ pc = "recvDone"
  /\ pc' = "idle"
  /\ epochData' = [epochData EXCEPT ![DelEpochPos] = [p \in Pos |-> 0]]
  /\ curEpochPos' = NextEpochPos
  /\ UNCHANGED <<tableVars, mergedData, abnormalKeys, epoch, queries, unsent, counts>>

Next ==
  \/ \E c \in [Keys -> 0 .. MaxCount], over \in SUBSET Keys : SwitchWin(c, over)
  \/ \E k \in Keys, p \in Pos : RecvKey(k, p)
  \/ SendRequests
  \/ \E q \in queries : AnswerQuery(q)
  \/ \E k \in HotKeys : WriteHotKey(k)
  \/ \E k \in Keys, p \in Pos : RecvKeyVal(k, p)
  \/ Merge
  \/ RecvDone

Spec == Init /\ [][Next]_vars

-----------------------------------------------------------------------------
(***************************************************************************)
(* Properties.                                                             *)
(***************************************************************************)

(* Every address that the switch writes a value to is the place of that    *)
(* key in the row of the sub-window being collected, whatever positions    *)
(* other keys have given up or taken since the address was made: tab_addr  *)
(* was filled before the first window, a query before the requests.        *)
AddressesRight ==
  /\ \A k \in HotKeys : posOf[k] = HotPos[k]
  /\ \A q \in queries : q.pos = posOf[q.key] /\ q.row = curEpochPos
  /\ pc = "recvKeyVals" => SwitchRow = curEpochPos

(* keys[], valid[] and the hash table agree: each position in use belongs  *)
(* to one key and each key of the table has one, so h.delKey finds every   *)
(* key that it is given.                                                   *)
TableAgrees ==
  /\ \A k \in Keys : posOf[k] # NoPos => posOf[k] \in valid /\ keys[posOf[k]] = k
  /\ \A p \in valid : keys[p] \in Keys /\ posOf[keys[p]] = p

(* The i-th last sub-window lies i rows back, until Merge has counted this *)
(* one among them.                                                         *)
RowBack(i) == (curEpochPos + NEPOCH_BUF - IF pc = "recvDone" THEN i - 1 ELSE i) % NEPOCH_BUF

(***************************************************************************)
(* The inductive invariant: between SendRequests and RecvDone the switch is*)
(* one epoch ahead of the ring; an address is never kept longer than the   *)
(* sub-window it was made in; and what was never taken is clear.           *)
(***************************************************************************)
Pinning == pin = Pinned /\ \A k \in HotKeys : posOf[k] = HotPos[k]

QueriesRight ==
  /\ pc \in {"idle", "recvDone"} => queries = {}
  /\ \A q \in queries : q.pos = posOf[q.key] /\ q.row = curEpochPos

InStep == curEpochPos = IF pc \in {"idle", "recvKeys"} THEN epoch % NEPOCH_BUF ELSE SwitchRow

Untaken == \A p \in Pos : keys[p] = NoKey =>
  mergedData[p] = 0 /\ \A r \in Ring : epochData[r][p] = 0

Addressing ==
  /\ TypeOK
  /\ TableAgrees
  /\ Pinning
  /\ QueriesRight
  /\ InStep
  /\ Untaken

(* The rows of the last NEpoch - 1 sub-windows add up to mergedData; the   *)
(* others are clear, but for the one that is filled or about to be cleared.*)
MergedIsWindow == \A p \in Pos :
  mergedData[p] = Total([i \in 1 .. NEpoch - 1 |-> epochData[RowBack(i)][p]])

Unused == {i \in NEpoch .. NEPOCH_BUF : /\ pc = "recvKeyVals" => i # NEPOCH_BUF
                                        /\ pc = "recvDone" => i # NEpoch}
UnusedIsClear == \A i \in Unused, p \in Pos : epochData[RowBack(i)][p] = 0

(* A position that is free has nothing for its next key to inherit.        *)
FreeIsClear ==
  /\ pin \subseteq valid
  /\ \A p \in Pos \ valid :
       mergedData[p] = 0 /\ (pc # "recvDone" => epochData[curEpochPos][p] = 0)
  /\ pc \in {"idle", "recvDone"} => \A p \in valid \ pin : mergedData[p] # 0

(* While values arrive, a key whose value is not on its way has it in its  *)
(* place; with no place it has no packets.                                 *)
Held(k) == counts[k] = IF posOf[k] = NoPos THEN 0 ELSE epochData[curEpochPos][posOf[k]]

Collected ==
  /\ pc \in {"idle", "recvDone"} => counts = NoCounts
  /\ pc = "recvKeyVals" =>
       \A k \in Keys : k \in unsent \/ (\E q \in queries : q.key = k) \/ Held(k)

Counting ==
  /\ MergedIsWindow
  /\ UnusedIsClear
  /\ FreeIsClear
  /\ Collected

IInv == Addressing /\ Counting

(* Between two calls mergedData is the sum of the rows, and the row of the *)
(* next sub-window is clear: a key that is not reported in it has count 0. *)
RowsExact == pc = "idle" =>
  /\ \A p \in Pos : mergedData[p] = Total([r \in Ring |-> epochData[r][p]])
  /\ \A p \in Pos : epochData[curEpochPos][p] = 0

(* The table holds the pinned keys and those seen in the last NEpoch - 1   *)
(* sub-windows, no other: a position that is free is clear for its next    *)
(* key, and no position is lost.                                           *)
OnlyLiveKeys == pc = "idle" => valid = pin \cup {p \in Pos : mergedData[p] # 0}

(* The reports are those of a window that slides over exact counts.        *)
WindowPast ==
  [i \in 1 .. NEpoch - 1 |->
    [k \in Keys |-> IF posOf[k] = NoPos THEN 0 ELSE epochData[RowBack(i)][posOf[k]]]]

Abstract == INSTANCE SlidingWindow WITH
  current <- counts, past <- WindowPast, abnormal <- abnormalKeys

SlidesExactly == Abstract!Spec
=============================================================================

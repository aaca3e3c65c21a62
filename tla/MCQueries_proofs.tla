-------------------------- MODULE MCQueries_proofs --------------------------
(***************************************************************************)
(* Proofs about the seven controller programs of MCQueries: every address  *)
(* that the switch writes to is right, what a key leaves behind is clear,  *)
(* and the keys that a program reports are those its query asks for.       *)
(*                                                                         *)
(* The programs are copies that differ in their values.  They are brought  *)
(* to one form first, in which the value of each query is a case; all else *)
(* is proved once.                                                         *)
(***************************************************************************)
EXTENDS QueryInvariant, Sums_proofs

-----------------------------------------------------------------------------
(* QueryHost, over the values of the query that runs.                      *)
Add(x, y) ==
  CASE query = "syn-flood" -> SynFlood!AddEpi16(x, y)
    [] query = "completed-flow" -> CompletedFlow!AddEpi16(x, y)
    [] query = "slowloris-attack" -> Slowloris!AddEpi32(x, y)
    [] OTHER -> Ddos!AddEpi32(x, y)

Sub(x, y) ==
  CASE query = "syn-flood" -> SynFlood!SubEpi16(x, y)
    [] query = "completed-flow" -> CompletedFlow!SubEpi16(x, y)
    [] query = "slowloris-attack" -> Slowloris!SubEpi32(x, y)
    [] OTHER -> Ddos!SubEpi32(x, y)

Abnormal(v) ==
  CASE query = "syn-flood" -> SynFlood!Compared(v)
    [] query = "completed-flow" -> CompletedFlow!Compared(v)
    [] query = "slowloris-attack" -> Slowloris!Compared(v)
    [] OTHER -> Ddos!Compared(v)

Compared == IF query \in {"syn-flood", "slowloris-attack"} THEN valid ELSE Pos
Vanished(v) == IF query = "slowloris-attack" THEN Slowloris!Vanished(v) ELSE v = Zero
Deletable == IF query \in {"syn-flood", "slowloris-attack"} THEN valid ELSE valid \ pin

Construct ==
  /\ sliding \in BOOLEAN
  /\ pc = "idle"
  /\ epochData \in [Rows -> [Pos -> {Zero}]]
  /\ mergedData \in [Pos -> {Zero}]
  /\ abnormalKeys = {}
  /\ curEpoch = 0 /\ curEpochPos = 0 /\ epoch = 0
  /\ requests = {} /\ unsent = {}
  /\ counts \in [Keys -> {Zero}] /\ past = <<>>

Pinned(hot, place) == {place[k] : k \in hot}

InsertInput(hot) ==
  \E place \in {f \in [hot -> 0 .. Cardinality(hot) - 1] : IsInjective(f)} :
    /\ posOf = [k \in Keys |-> IF k \in hot THEN place[k] ELSE NoPos]
    /\ keys = [p \in Pos |-> IF p \in Pinned(hot, place) THEN CHOOSE k \in hot : place[k] = p
                                                         ELSE NoKey]
    /\ valid = Pinned(hot, place)
    /\ pin = IF sliding THEN Pinned(hot, place) ELSE {}

Places(K) ==
  LET new == {k \in K : posOf[k] = NoPos}
      free == IF sliding THEN Pos \ {posOf[k] : k \in Keys}
                         ELSE Cardinality(valid) .. Cardinality(valid) + Cardinality(new) - 1
  IN  {[k \in Keys |-> IF k \in new THEN f[k] ELSE posOf[k]] :
          f \in {g \in [new -> free] : IsInjective(g)}}

InsKeys(K) ==
  /\ posOf' \in Places(K)
  /\ valid' = valid \cup {posOf'[k] : k \in K}
  /\ keys' = [p \in Pos |-> IF \E k \in K : posOf'[k] = p
                            THEN CHOOSE k \in K : posOf'[k] = p ELSE keys[p]]
  /\ UNCHANGED pin

SwitchWin ==
  /\ pc = "idle"
  /\ ~sliding => \A p \in Pos, i \in Lanes : mergedData[p][i] < MaxTotal
  /\ pc' = "recvKeys"
  /\ counts' \in [Keys -> Sample \cup {Zero}]
  /\ unsent' \subseteq Keys \ HotKeys /\ \A k \in unsent' : counts'[k] # Zero
  /\ UNCHANGED <<sliding, tableVars, epochData, mergedData, abnormalKeys, clockVars, requests, past>>

Address(k, p) == [key |-> k, row |-> curEpochPos, pos |-> p]

RecvKeys ==
  /\ pc = "recvKeys"
  /\ pc' = "request"
  /\ InsKeys(unsent)
  /\ requests' = {Address(k, posOf'[k]) : k \in unsent}
  /\ unsent' \subseteq Keys /\ \A k \in Keys : k \in unsent' <=> counts[k] # Zero /\ k \notin unsent
  /\ UNCHANGED <<sliding, epochData, mergedData, abnormalKeys, clockVars, counts, past>>

SendRequests ==
  /\ pc = "request"
  /\ pc' = "recvKeyVals"
  /\ epoch' = IF sliding THEN (epoch + 1) % NEPOCH_BUF ELSE epoch
  /\ UNCHANGED <<sliding, tableVars, epochData, mergedData, abnormalKeys, curEpoch, curEpochPos,
                 requests, unsent, counts, past>>

AnswerQuery ==
  /\ pc = "recvKeyVals"
  /\ \E q \in requests :
       /\ requests' = requests \ {q}
       /\ epochData' = [epochData EXCEPT ![q.row][q.pos] = counts[q.key]]
  /\ UNCHANGED <<sliding, pc, tableVars, mergedData, abnormalKeys, clockVars, unsent, counts, past>>

SwitchRow == IF sliding THEN (epoch + NEPOCH_BUF - 1) % NEPOCH_BUF ELSE 0

WriteHotKey ==
  /\ pc = "recvKeyVals"
  /\ \E k \in unsent \cap HotKeys :
       /\ unsent' = unsent \ {k}
       /\ epochData' = [epochData EXCEPT ![SwitchRow][posOf[k]] = counts[k]]
  /\ UNCHANGED <<sliding, pc, tableVars, mergedData, abnormalKeys, clockVars, requests, counts, past>>

RecvKeyVals ==
  /\ requests = {} /\ unsent \cap HotKeys = {}
  /\ pc = "recvKeyVals"
  /\ pc' = "merge"
  /\ InsKeys(unsent)
  /\ epochData' = [epochData EXCEPT ![curEpochPos] = [p \in Pos |->
       IF \E k \in unsent : posOf'[k] = p
       THEN counts[CHOOSE k \in unsent : posOf'[k] = p] ELSE @[p]]]
  /\ unsent' = {}
  /\ UNCHANGED <<sliding, mergedData, abnormalKeys, clockVars, requests, counts, past>>

(* The merge, position by position: what it adds up to, and which keys it  *)
(* finds among the positions P.                                            *)
Adds(row, added) ==
  /\ added = [p \in Pos |-> added[p]]
  /\ \A p \in Pos : added[p] = Add(mergedData[p], epochData[row][p])

Finds(P, added, K) ==
  /\ \A k \in K : \E p \in P : keys[p] = k /\ Abnormal(added[p])
  /\ \A p \in P : Abnormal(added[p]) => keys[p] \in K

MergeSliding ==
  /\ pc = "merge" /\ sliding
  /\ pc' = "recvDone"
  /\ \E added :
       /\ Adds(curEpochPos, added)
       /\ mergedData' = [p \in Pos |-> mergedData'[p]]
       /\ \A p \in Pos : mergedData'[p] = Sub(added[p], epochData[DelEpochPos][p])
       /\ Finds(Compared, added, abnormalKeys')
  /\ valid' \subseteq valid
  /\ \A p \in valid : p \notin valid' <=> p \in Deletable /\ Vanished(mergedData'[p])
  /\ posOf' = [k \in Keys |-> posOf'[k]]
  /\ \A k \in Keys : posOf'[k] = IF \E p \in valid \ valid' : keys[p] = k THEN NoPos ELSE posOf[k]
  /\ UNCHANGED <<sliding, keys, pin, epochData, clockVars, requests, unsent, counts, past>>

MergeTumbling ==
  /\ pc = "merge" /\ ~sliding
  /\ pc' = "recvDone"
  /\ Adds(0, mergedData')
  /\ IF curEpoch = NEpoch - 1 THEN Finds(valid, mergedData', abnormalKeys') ELSE abnormalKeys' = {}
  /\ UNCHANGED <<sliding, tableVars, epochData, clockVars, requests, unsent, counts, past>>

NextEpochPos == IF sliding THEN (curEpochPos + 1) % NEPOCH_BUF ELSE 0

RecvDone ==
  /\ pc = "recvDone"
  /\ pc' = "idle"
  /\ \E clear \in [Pos -> {Zero}] : epochData' = [epochData EXCEPT ![ClearedRow] = clear]
  /\ curEpoch' = (curEpoch + 1) % NEpoch
  /\ curEpochPos' = NextEpochPos
  /\ counts' \in [Keys -> {Zero}]
  /\ past' = RememberedOn(Lanes)
  /\ UNCHANGED <<sliding, tableVars, mergedData, abnormalKeys, epoch, requests, unsent>>

AnyStep ==
  \/ SwitchWin \/ RecvKeys \/ SendRequests \/ AnswerQuery \/ WriteHotKey \/ RecvKeyVals
  \/ MergeSliding \/ MergeTumbling \/ RecvDone

-----------------------------------------------------------------------------
LEMMA SynFloodValues ==
  ASSUME query = "syn-flood"
  PROVE  /\ Zero = SynFlood!Val /\ Sample = SynFlood!Samples /\ HotKeys = {}
         /\ \A x, y : Add(x, y) = SynFlood!AddEpi16(x, y) /\ Sub(x, y) = SynFlood!SubEpi16(x, y)
         /\ \A v : (Abnormal(v) <=> SynFlood!Compared(v)) /\ (Suspect(v) <=> SynFlood!FloodedOrNegative(v))
         /\ \A v : Vanished(v) <=> SynFlood!Vanished(v)
         /\ Compared = valid
         /\ Deletable = valid
  BY DEF Zero, Sample, HotKeys, Add, Sub, Abnormal, Suspect, Vanished, Compared, Deletable,
         SynFlood!Vanished

LEMMA SynFloodTable ==
  /\ \A K : SynFlood!Host!InsKeys(K) <=> InsKeys(K)
  /\ SynFlood!Host!InsertInput <=> InsertInput({})
  /\ SynFlood!Host!Remembered = RememberedOn(DOMAIN SynFlood!Val)
<1>1. \A S : SynFlood!Host!Cardinality(S) = Cardinality(S)
  BY DEF SynFlood!Host!Cardinality, Cardinality
<1>2. \A K : SynFlood!Host!InsKeys(K) <=> InsKeys(K)
  BY <1>1, Zenon DEF SynFlood!Host!InsKeys, SynFlood!Host!Places, SynFlood!Host!Pos,
         SynFlood!Host!IsInjective, InsKeys, Places, Pos, IsInjective
<1>3. SynFlood!Host!InsertInput <=> InsertInput({})
  BY <1>1, Zenon DEF SynFlood!Host!InsertInput, SynFlood!Host!Pinned, SynFlood!Host!Pos,
         SynFlood!Host!IsInjective, InsertInput, Pinned, Pos, IsInjective
<1>4. SynFlood!Host!Remembered = RememberedOn(DOMAIN SynFlood!Val)
  BY Zenon DEF SynFlood!Host!Remembered, SynFlood!Host!Total, SynFlood!Host!Plus,
         SynFlood!Host!FoldFunction, SynFlood!Host!FoldFunctionOnSet,
         SynFlood!Host!MapThenFoldSet, RememberedOn, TotalOn, Plus, FoldFunction,
         FoldFunctionOnSet, MapThenFoldSet
<1> QED BY <1>2, <1>3, <1>4

LEMMA SynFloodInit ==
  ASSUME query = "syn-flood", SynFlood!Init
  PROVE  Construct /\ InsertInput(HotKeys)
<1>1. Construct
  BY SynFloodValues DEF SynFlood!Init, SynFlood!Server, SynFlood!Host!Construct,
         SynFlood!Host!NoCounts, SynFlood!Host!Pos, SynFlood!Host!Rows, Construct, Pos, Rows
<1>2. InsertInput(HotKeys)
  BY SynFloodValues, SynFloodTable, Zenon DEF SynFlood!Init, SynFlood!InsKeys
<1> QED BY <1>1, <1>2

LEMMA SynFloodStep ==
  ASSUME query = "syn-flood", SynFlood!Next
  PROVE  AnyStep
<1>1. ASSUME SynFlood!SwitchWin PROVE SwitchWin
  BY <1>1, SynFloodValues, Zenon DEF SynFlood!SwitchWin, SynFlood!Host!SwitchWin,
         SynFlood!Host!Pos, SynFlood!Host!Rows, SynFlood!Host!tableVars,
         SynFlood!Host!clockVars, SwitchWin, Lanes, Pos, Rows, tableVars, clockVars
<1>2. ASSUME SynFlood!RecvKeys PROVE RecvKeys
  BY <1>2, SynFloodValues, SynFloodTable, Zenon DEF SynFlood!RecvKeys,
         SynFlood!Host!RecvKeys, SynFlood!Host!Address, SynFlood!Host!Pos,
         SynFlood!Host!Rows, SynFlood!Host!tableVars, SynFlood!Host!clockVars, RecvKeys,
         Address, Pos, Rows, tableVars, clockVars
<1>3. ASSUME SynFlood!SendRequests PROVE SendRequests
  BY <1>3, Zenon DEF SynFlood!SendRequests, SynFlood!Host!SendRequests, SynFlood!Host!Pos,
         SynFlood!Host!Rows, SynFlood!Host!tableVars, SynFlood!Host!clockVars, SendRequests,
         Pos, Rows, tableVars, clockVars
<1>4. ASSUME SynFlood!Answered PROVE AnswerQuery
  BY <1>4, Zenon DEF SynFlood!Answered, SynFlood!Host!AnswerQuery, SynFlood!Host!Pos,
         SynFlood!Host!Rows, SynFlood!Host!tableVars, SynFlood!Host!clockVars, AnswerQuery,
         Pos, Rows, tableVars, clockVars
<1>5. ASSUME SynFlood!RecvKeyVals PROVE RecvKeyVals
  BY <1>5, SynFloodValues, SynFloodTable, Zenon DEF SynFlood!RecvKeyVals, SynFlood!NextMsg,
         SynFlood!Host!RecvKeyVals, SynFlood!Host!DoneSent, SynFlood!Host!Pos,
         SynFlood!Host!Rows, SynFlood!Host!tableVars, SynFlood!Host!clockVars, RecvKeyVals,
         Pos, Rows, tableVars, clockVars
<1>6. ASSUME SynFlood!MergeSliding PROVE MergeSliding
  BY <1>6, SynFloodValues, Zenon DEF SynFlood!MergeSliding, SynFlood!Host!MergeSliding,
         SynFlood!Host!DelEpochPos, SynFlood!Host!FoundDel, SynFlood!Host!Compare,
         SynFlood!Host!Pos, SynFlood!Host!Rows, SynFlood!Host!tableVars,
         SynFlood!Host!clockVars, MergeSliding, DelEpochPos, Adds, Finds, Pos, Rows,
         tableVars, clockVars
<1>7. ASSUME SynFlood!MergeTumbling PROVE MergeTumbling
  BY <1>7, SynFloodValues, Zenon DEF SynFlood!MergeTumbling, SynFlood!Host!MergeTumbling,
         SynFlood!Host!LastOfWindow, SynFlood!Host!Compare, SynFlood!Host!Pos,
         SynFlood!Host!Rows, SynFlood!Host!tableVars, SynFlood!Host!clockVars,
         MergeTumbling, Adds, Finds, Pos, Rows, tableVars, clockVars
<1>8. ASSUME SynFlood!RecvDone PROVE RecvDone
  BY <1>8, SynFloodValues, SynFloodTable, Zenon DEF SynFlood!RecvDone,
         SynFlood!Host!RecvDone, SynFlood!Host!ClearedRow, SynFlood!Host!DelEpochPos,
         SynFlood!Host!NextEpochPos, SynFlood!Host!NoCounts, SynFlood!Host!Pos,
         SynFlood!Host!Rows, SynFlood!Host!tableVars, SynFlood!Host!clockVars, RecvDone,
         ClearedRow, DelEpochPos, NextEpochPos, Lanes, Pos, Rows, tableVars, clockVars
<1> QED BY <1>1, <1>2, <1>3, <1>4, <1>5, <1>6, <1>7, <1>8, Zenon DEF SynFlood!Next, AnyStep

LEMMA CompletedFlowValues ==
  ASSUME query = "completed-flow"
  PROVE  /\ Zero = CompletedFlow!Val /\ Sample = CompletedFlow!Samples /\ HotKeys = {}
         /\ \A x, y : Add(x, y) = CompletedFlow!AddEpi16(x, y) /\ Sub(x, y) = CompletedFlow!SubEpi16(x, y)
         /\ \A v : (Abnormal(v) <=> CompletedFlow!Compared(v)) /\ (Suspect(v) <=> CompletedFlow!UnfinishedOrNegative(v))
         /\ \A v : Vanished(v) <=> CompletedFlow!Vanished(v)
         /\ Compared = Pos
         /\ Deletable = valid \ pin
  BY DEF Zero, Sample, HotKeys, Add, Sub, Abnormal, Suspect, Vanished, Compared, Deletable,
         CompletedFlow!Vanished

LEMMA CompletedFlowTable ==
  /\ \A K : CompletedFlow!Host!InsKeys(K) <=> InsKeys(K)
  /\ CompletedFlow!Host!InsertInput <=> InsertInput({})
  /\ CompletedFlow!Host!Remembered = RememberedOn(DOMAIN CompletedFlow!Val)
<1>1. \A S : CompletedFlow!Host!Cardinality(S) = Cardinality(S)
  BY DEF CompletedFlow!Host!Cardinality, Cardinality
<1>2. \A K : CompletedFlow!Host!InsKeys(K) <=> InsKeys(K)
  BY <1>1, Zenon DEF CompletedFlow!Host!InsKeys, CompletedFlow!Host!Places,
         CompletedFlow!Host!Pos, CompletedFlow!Host!IsInjective, InsKeys, Places, Pos,
         IsInjective
<1>3. CompletedFlow!Host!InsertInput <=> InsertInput({})
  BY <1>1, Zenon DEF CompletedFlow!Host!InsertInput, CompletedFlow!Host!Pinned,
         CompletedFlow!Host!Pos, CompletedFlow!Host!IsInjective, InsertInput, Pinned, Pos,
         IsInjective
<1>4. CompletedFlow!Host!Remembered = RememberedOn(DOMAIN CompletedFlow!Val)
  BY Zenon DEF CompletedFlow!Host!Remembered, CompletedFlow!Host!Total,
         CompletedFlow!Host!Plus, CompletedFlow!Host!FoldFunction,
         CompletedFlow!Host!FoldFunctionOnSet, CompletedFlow!Host!MapThenFoldSet,
         RememberedOn, TotalOn, Plus, FoldFunction, FoldFunctionOnSet, MapThenFoldSet
<1> QED BY <1>2, <1>3, <1>4

LEMMA CompletedFlowInit ==
  ASSUME query = "completed-flow", CompletedFlow!Init
  PROVE  Construct /\ InsertInput(HotKeys)
<1>1. Construct
  BY CompletedFlowValues DEF CompletedFlow!Init, CompletedFlow!Server,
         CompletedFlow!Host!Construct, CompletedFlow!Host!NoCounts, CompletedFlow!Host!Pos,
         CompletedFlow!Host!Rows, Construct, Pos, Rows
<1>2. InsertInput(HotKeys)
  BY CompletedFlowValues, CompletedFlowTable, Zenon DEF CompletedFlow!Init,
         CompletedFlow!InsKeys
<1> QED BY <1>1, <1>2

LEMMA CompletedFlowStep ==
  ASSUME query = "completed-flow", CompletedFlow!Next
  PROVE  AnyStep
<1>1. ASSUME CompletedFlow!SwitchWin PROVE SwitchWin
  BY <1>1, CompletedFlowValues, Zenon DEF CompletedFlow!SwitchWin,
         CompletedFlow!Host!SwitchWin, CompletedFlow!Host!Pos, CompletedFlow!Host!Rows,
         CompletedFlow!Host!tableVars, CompletedFlow!Host!clockVars, SwitchWin, Lanes, Pos,
         Rows, tableVars, clockVars
<1>2. ASSUME CompletedFlow!RecvKeys PROVE RecvKeys
  BY <1>2, CompletedFlowValues, CompletedFlowTable, Zenon DEF CompletedFlow!RecvKeys,
         CompletedFlow!Host!RecvKeys, CompletedFlow!Host!Address, CompletedFlow!Host!Pos,
         CompletedFlow!Host!Rows, CompletedFlow!Host!tableVars,
         CompletedFlow!Host!clockVars, RecvKeys, Address, Pos, Rows, tableVars, clockVars
<1>3. ASSUME CompletedFlow!SendRequests PROVE SendRequests
  BY <1>3, Zenon DEF CompletedFlow!SendRequests, CompletedFlow!Host!SendRequests,
         CompletedFlow!Host!Pos, CompletedFlow!Host!Rows, CompletedFlow!Host!tableVars,
         CompletedFlow!Host!clockVars, SendRequests, Pos, Rows, tableVars, clockVars
<1>4. ASSUME CompletedFlow!Answered PROVE AnswerQuery
  BY <1>4, Zenon DEF CompletedFlow!Answered, CompletedFlow!Host!AnswerQuery,
         CompletedFlow!Host!Pos, CompletedFlow!Host!Rows, CompletedFlow!Host!tableVars,
         CompletedFlow!Host!clockVars, AnswerQuery, Pos, Rows, tableVars, clockVars
<1>5. ASSUME CompletedFlow!RecvKeyVals PROVE RecvKeyVals
  BY <1>5, CompletedFlowValues, CompletedFlowTable, Zenon DEF CompletedFlow!RecvKeyVals,
         CompletedFlow!NextMsg, CompletedFlow!Host!RecvKeyVals, CompletedFlow!Host!DoneSent,
         CompletedFlow!Host!Pos, CompletedFlow!Host!Rows, CompletedFlow!Host!tableVars,
         CompletedFlow!Host!clockVars, RecvKeyVals, Pos, Rows, tableVars, clockVars
<1>6. ASSUME CompletedFlow!MergeSliding PROVE MergeSliding
  BY <1>6, CompletedFlowValues, Zenon DEF CompletedFlow!MergeSliding,
         CompletedFlow!Host!MergeSliding, CompletedFlow!Host!DelEpochPos,
         CompletedFlow!Host!FoundDel, CompletedFlow!Host!Compare, CompletedFlow!Host!Pos,
         CompletedFlow!Host!Rows, CompletedFlow!Host!tableVars,
         CompletedFlow!Host!clockVars, MergeSliding, DelEpochPos, Adds, Finds, Pos, Rows,
         tableVars, clockVars
<1>7. ASSUME CompletedFlow!MergeTumbling PROVE MergeTumbling
  BY <1>7, CompletedFlowValues, Zenon DEF CompletedFlow!MergeTumbling,
         CompletedFlow!Host!MergeTumbling, CompletedFlow!Host!LastOfWindow,
         CompletedFlow!Host!Compare, CompletedFlow!Host!Pos, CompletedFlow!Host!Rows,
         CompletedFlow!Host!tableVars, CompletedFlow!Host!clockVars, MergeTumbling, Adds,
         Finds, Pos, Rows, tableVars, clockVars
<1>8. ASSUME CompletedFlow!RecvDone PROVE RecvDone
  BY <1>8, CompletedFlowValues, CompletedFlowTable, Zenon DEF CompletedFlow!RecvDone,
         CompletedFlow!Host!RecvDone, CompletedFlow!Host!ClearedRow,
         CompletedFlow!Host!DelEpochPos, CompletedFlow!Host!NextEpochPos,
         CompletedFlow!Host!NoCounts, CompletedFlow!Host!Pos, CompletedFlow!Host!Rows,
         CompletedFlow!Host!tableVars, CompletedFlow!Host!clockVars, RecvDone, ClearedRow,
         DelEpochPos, NextEpochPos, Lanes, Pos, Rows, tableVars, clockVars
<1> QED BY <1>1, <1>2, <1>3, <1>4, <1>5, <1>6, <1>7, <1>8, Zenon DEF CompletedFlow!Next,
         AnyStep

LEMMA SlowlorisValues ==
  ASSUME query = "slowloris-attack"
  PROVE  /\ Zero = Slowloris!Val /\ Sample = Slowloris!Samples /\ HotKeys = {}
         /\ \A x, y : Add(x, y) = Slowloris!AddEpi32(x, y) /\ Sub(x, y) = Slowloris!SubEpi32(x, y)
         /\ \A v : (Abnormal(v) <=> Slowloris!Compared(v)) /\ (Suspect(v) <=> Slowloris!Slow(v))
         /\ \A v : Vanished(v) <=> Slowloris!Vanished(v)
         /\ Compared = valid
         /\ Deletable = valid
  BY DEF Zero, Sample, HotKeys, Add, Sub, Abnormal, Suspect, Vanished, Compared, Deletable,
         Slowloris!Vanished

LEMMA SlowlorisTable ==
  /\ \A K : Slowloris!Host!InsKeys(K) <=> InsKeys(K)
  /\ Slowloris!Host!InsertInput <=> InsertInput({})
  /\ Slowloris!Host!Remembered = RememberedOn(DOMAIN Slowloris!Val)
<1>1. \A S : Slowloris!Host!Cardinality(S) = Cardinality(S)
  BY DEF Slowloris!Host!Cardinality, Cardinality
<1>2. \A K : Slowloris!Host!InsKeys(K) <=> InsKeys(K)
  BY <1>1, Zenon DEF Slowloris!Host!InsKeys, Slowloris!Host!Places, Slowloris!Host!Pos,
         Slowloris!Host!IsInjective, InsKeys, Places, Pos, IsInjective
<1>3. Slowloris!Host!InsertInput <=> InsertInput({})
  BY <1>1, Zenon DEF Slowloris!Host!InsertInput, Slowloris!Host!Pinned, Slowloris!Host!Pos,
         Slowloris!Host!IsInjective, InsertInput, Pinned, Pos, IsInjective
<1>4. Slowloris!Host!Remembered = RememberedOn(DOMAIN Slowloris!Val)
  BY Zenon DEF Slowloris!Host!Remembered, Slowloris!Host!Total, Slowloris!Host!Plus,
         Slowloris!Host!FoldFunction, Slowloris!Host!FoldFunctionOnSet,
         Slowloris!Host!MapThenFoldSet, RememberedOn, TotalOn, Plus, FoldFunction,
         FoldFunctionOnSet, MapThenFoldSet
<1> QED BY <1>2, <1>3, <1>4

LEMMA SlowlorisInit ==
  ASSUME query = "slowloris-attack", Slowloris!Init
  PROVE  Construct /\ InsertInput(HotKeys)
<1>1. Construct
  BY SlowlorisValues DEF Slowloris!Init, Slowloris!Server, Slowloris!Host!Construct,
         Slowloris!Host!NoCounts, Slowloris!Host!Pos, Slowloris!Host!Rows, Construct, Pos,
         Rows
<1>2. InsertInput(HotKeys)
  BY SlowlorisValues, SlowlorisTable, Zenon DEF Slowloris!Init, Slowloris!InsKeys
<1> QED BY <1>1, <1>2

LEMMA SlowlorisStep ==
  ASSUME query = "slowloris-attack", Slowloris!Next
  PROVE  AnyStep
<1>1. ASSUME Slowloris!SwitchWin PROVE SwitchWin
  BY <1>1, SlowlorisValues, Zenon DEF Slowloris!SwitchWin, Slowloris!Host!SwitchWin,
         Slowloris!Host!Pos, Slowloris!Host!Rows, Slowloris!Host!tableVars,
         Slowloris!Host!clockVars, SwitchWin, Lanes, Pos, Rows, tableVars, clockVars
<1>2. ASSUME Slowloris!RecvKeys PROVE RecvKeys
  BY <1>2, SlowlorisValues, SlowlorisTable, Zenon DEF Slowloris!RecvKeys,
         Slowloris!Host!RecvKeys, Slowloris!Host!Address, Slowloris!Host!Pos,
         Slowloris!Host!Rows, Slowloris!Host!tableVars, Slowloris!Host!clockVars, RecvKeys,
         Address, Pos, Rows, tableVars, clockVars
<1>3. ASSUME Slowloris!SendRequests PROVE SendRequests
  BY <1>3, Zenon DEF Slowloris!SendRequests, Slowloris!Host!SendRequests,
         Slowloris!Host!Pos, Slowloris!Host!Rows, Slowloris!Host!tableVars,
         Slowloris!Host!clockVars, SendRequests, Pos, Rows, tableVars, clockVars
<1>4. ASSUME Slowloris!Answered PROVE AnswerQuery
  BY <1>4, Zenon DEF Slowloris!Answered, Slowloris!Host!AnswerQuery, Slowloris!Host!Pos,
         Slowloris!Host!Rows, Slowloris!Host!tableVars, Slowloris!Host!clockVars,
         AnswerQuery, Pos, Rows, tableVars, clockVars
<1>5. ASSUME Slowloris!RecvKeyVals PROVE RecvKeyVals
  BY <1>5, SlowlorisValues, SlowlorisTable, Zenon DEF Slowloris!RecvKeyVals,
         Slowloris!NextMsg, Slowloris!Host!RecvKeyVals, Slowloris!Host!DoneSent,
         Slowloris!Host!Pos, Slowloris!Host!Rows, Slowloris!Host!tableVars,
         Slowloris!Host!clockVars, RecvKeyVals, Pos, Rows, tableVars, clockVars
<1>6. ASSUME Slowloris!MergeSliding PROVE MergeSliding
  BY <1>6, SlowlorisValues, Zenon DEF Slowloris!MergeSliding, Slowloris!Host!MergeSliding,
         Slowloris!Host!DelEpochPos, Slowloris!Host!FoundDel, Slowloris!Host!Compare,
         Slowloris!Host!Pos, Slowloris!Host!Rows, Slowloris!Host!tableVars,
         Slowloris!Host!clockVars, MergeSliding, DelEpochPos, Adds, Finds, Pos, Rows,
         tableVars, clockVars
<1>7. ASSUME Slowloris!MergeTumbling PROVE MergeTumbling
  BY <1>7, SlowlorisValues, Zenon DEF Slowloris!MergeTumbling, Slowloris!Host!MergeTumbling,
         Slowloris!Host!LastOfWindow, Slowloris!Host!Compare, Slowloris!Host!Pos,
         Slowloris!Host!Rows, Slowloris!Host!tableVars, Slowloris!Host!clockVars,
         MergeTumbling, Adds, Finds, Pos, Rows, tableVars, clockVars
<1>8. ASSUME Slowloris!RecvDone PROVE RecvDone
  BY <1>8, SlowlorisValues, SlowlorisTable, Zenon DEF Slowloris!RecvDone,
         Slowloris!Host!RecvDone, Slowloris!Host!ClearedRow, Slowloris!Host!DelEpochPos,
         Slowloris!Host!NextEpochPos, Slowloris!Host!NoCounts, Slowloris!Host!Pos,
         Slowloris!Host!Rows, Slowloris!Host!tableVars, Slowloris!Host!clockVars, RecvDone,
         ClearedRow, DelEpochPos, NextEpochPos, Lanes, Pos, Rows, tableVars, clockVars
<1> QED BY <1>1, <1>2, <1>3, <1>4, <1>5, <1>6, <1>7, <1>8, Zenon DEF Slowloris!Next, AnyStep

LEMMA SuperspreaderValues ==
  ASSUME query = "superspreader"
  PROVE  /\ Zero = Superspreader!Val /\ Sample = Superspreader!Samples /\ HotKeys = InputKeys
         /\ \A x, y : Add(x, y) = Superspreader!AddEpi32(x, y) /\ Sub(x, y) = Superspreader!SubEpi32(x, y)
         /\ \A v : (Abnormal(v) <=> Superspreader!Compared(v)) /\ (Suspect(v) <=> Superspreader!Spreads(v))
         /\ \A v : Vanished(v) <=> Superspreader!Vanished(v)
         /\ Compared = Pos
         /\ Deletable = valid \ pin
  BY DEF Zero, Sample, HotKeys, Add, Sub, Abnormal, Suspect, Vanished, Compared, Deletable,
         Superspreader!Vanished, Ddos!Val,
         Superspreader!Val, Ddos!Samples, Superspreader!Samples, Ddos!AddEpi32,
         Superspreader!AddEpi32, Ddos!SubEpi32, Superspreader!SubEpi32, Ddos!Compared,
         Superspreader!Compared, Ddos!Attacked, Superspreader!Spreads

LEMMA SuperspreaderTable ==
  /\ \A K : Superspreader!Host!InsKeys(K) <=> InsKeys(K)
  /\ Superspreader!Host!InsertInput <=> InsertInput(InputKeys)
  /\ Superspreader!Host!Remembered = RememberedOn(DOMAIN Superspreader!Val)
<1>1. \A S : Superspreader!Host!Cardinality(S) = Cardinality(S)
  BY DEF Superspreader!Host!Cardinality, Cardinality
<1>2. \A K : Superspreader!Host!InsKeys(K) <=> InsKeys(K)
  BY <1>1, Zenon DEF Superspreader!Host!InsKeys, Superspreader!Host!Places,
         Superspreader!Host!Pos, Superspreader!Host!IsInjective, InsKeys, Places, Pos,
         IsInjective
<1>3. Superspreader!Host!InsertInput <=> InsertInput(InputKeys)
  BY <1>1, Zenon DEF Superspreader!Host!InsertInput, Superspreader!Host!Pinned,
         Superspreader!Host!Pos, Superspreader!Host!IsInjective, InsertInput, Pinned, Pos,
         IsInjective
<1>4. Superspreader!Host!Remembered = RememberedOn(DOMAIN Superspreader!Val)
  BY Zenon DEF Superspreader!Host!Remembered, Superspreader!Host!Total,
         Superspreader!Host!Plus, Superspreader!Host!FoldFunction,
         Superspreader!Host!FoldFunctionOnSet, Superspreader!Host!MapThenFoldSet,
         RememberedOn, TotalOn, Plus, FoldFunction, FoldFunctionOnSet, MapThenFoldSet
<1> QED BY <1>2, <1>3, <1>4

LEMMA SuperspreaderInit ==
  ASSUME query = "superspreader", Superspreader!Init
  PROVE  Construct /\ InsertInput(HotKeys)
<1>1. Construct
  BY SuperspreaderValues DEF Superspreader!Init, Superspreader!Server,
         Superspreader!Host!Construct, Superspreader!Host!NoCounts, Superspreader!Host!Pos,
         Superspreader!Host!Rows, Construct, Pos, Rows
<1>2. InsertInput(HotKeys)
  BY SuperspreaderValues, SuperspreaderTable, Zenon DEF Superspreader!Init,
         Superspreader!InsKeys
<1> QED BY <1>1, <1>2

LEMMA SuperspreaderStep ==
  ASSUME query = "superspreader", Superspreader!Next
  PROVE  AnyStep
<1>1. ASSUME Superspreader!SwitchWin PROVE SwitchWin
  BY <1>1, SuperspreaderValues, Zenon DEF Superspreader!SwitchWin,
         Superspreader!Host!SwitchWin, Superspreader!Host!Pos, Superspreader!Host!Rows,
         Superspreader!Host!tableVars, Superspreader!Host!clockVars, SwitchWin, Lanes, Pos,
         Rows, tableVars, clockVars
<1>2. ASSUME Superspreader!RecvKeys PROVE RecvKeys
  BY <1>2, SuperspreaderValues, SuperspreaderTable, Zenon DEF Superspreader!RecvKeys,
         Superspreader!Host!RecvKeys, Superspreader!Host!Address, Superspreader!Host!Pos,
         Superspreader!Host!Rows, Superspreader!Host!tableVars,
         Superspreader!Host!clockVars, RecvKeys, Address, Pos, Rows, tableVars, clockVars
<1>3. ASSUME Superspreader!SendRequests PROVE SendRequests
  BY <1>3, Zenon DEF Superspreader!SendRequests, Superspreader!Host!SendRequests,
         Superspreader!Host!Pos, Superspreader!Host!Rows, Superspreader!Host!tableVars,
         Superspreader!Host!clockVars, SendRequests, Pos, Rows, tableVars, clockVars
<1>4. ASSUME Superspreader!Answered PROVE AnswerQuery
  BY <1>4, Zenon DEF Superspreader!Answered, Superspreader!Host!AnswerQuery,
         Superspreader!Host!Pos, Superspreader!Host!Rows, Superspreader!Host!tableVars,
         Superspreader!Host!clockVars, AnswerQuery, Pos, Rows, tableVars, clockVars
<1>5. ASSUME Superspreader!WriteHotKey PROVE WriteHotKey
  BY <1>5, SuperspreaderValues, Zenon DEF Superspreader!WriteHotKey,
         Superspreader!Host!WriteHotKey, Superspreader!Host!SwitchRow,
         Superspreader!Host!Pos, Superspreader!Host!Rows, Superspreader!Host!tableVars,
         Superspreader!Host!clockVars, WriteHotKey, SwitchRow, Pos, Rows, tableVars,
         clockVars
<1>6. ASSUME Superspreader!RecvKeyVals PROVE RecvKeyVals
  BY <1>6, SuperspreaderValues, SuperspreaderTable, Zenon DEF Superspreader!RecvKeyVals,
         Superspreader!NextMsg, Superspreader!Host!RecvKeyVals, Superspreader!Host!DoneSent,
         Superspreader!Host!Pos, Superspreader!Host!Rows, Superspreader!Host!tableVars,
         Superspreader!Host!clockVars, RecvKeyVals, Pos, Rows, tableVars, clockVars
<1>7. ASSUME Superspreader!MergeSliding PROVE MergeSliding
  BY <1>7, SuperspreaderValues, Zenon DEF Superspreader!MergeSliding,
         Superspreader!Host!MergeSliding, Superspreader!Host!DelEpochPos,
         Superspreader!Host!FoundDel, Superspreader!Host!Compare, Superspreader!Host!Pos,
         Superspreader!Host!Rows, Superspreader!Host!tableVars,
         Superspreader!Host!clockVars, MergeSliding, DelEpochPos, Adds, Finds, Pos, Rows,
         tableVars, clockVars
<1>8. ASSUME Superspreader!MergeTumbling PROVE MergeTumbling
  BY <1>8, SuperspreaderValues, Zenon DEF Superspreader!MergeTumbling,
         Superspreader!Host!MergeTumbling, Superspreader!Host!LastOfWindow,
         Superspreader!Host!Compare, Superspreader!Host!Pos, Superspreader!Host!Rows,
         Superspreader!Host!tableVars, Superspreader!Host!clockVars, MergeTumbling, Adds,
         Finds, Pos, Rows, tableVars, clockVars
<1>9. ASSUME Superspreader!RecvDone PROVE RecvDone
  BY <1>9, SuperspreaderValues, SuperspreaderTable, Zenon DEF Superspreader!RecvDone,
         Superspreader!Host!RecvDone, Superspreader!Host!ClearedRow,
         Superspreader!Host!DelEpochPos, Superspreader!Host!NextEpochPos,
         Superspreader!Host!NoCounts, Superspreader!Host!Pos, Superspreader!Host!Rows,
         Superspreader!Host!tableVars, Superspreader!Host!clockVars, RecvDone, ClearedRow,
         DelEpochPos, NextEpochPos, Lanes, Pos, Rows, tableVars, clockVars
<1> QED BY <1>1, <1>2, <1>3, <1>4, <1>5, <1>6, <1>7, <1>8, <1>9, Zenon DEF
         Superspreader!Next, AnyStep

LEMMA DdosValues ==
  ASSUME query = "ddos"
  PROVE  /\ Zero = Ddos!Val /\ Sample = Ddos!Samples /\ HotKeys = InputKeys
         /\ \A x, y : Add(x, y) = Ddos!AddEpi32(x, y) /\ Sub(x, y) = Ddos!SubEpi32(x, y)
         /\ \A v : (Abnormal(v) <=> Ddos!Compared(v)) /\ (Suspect(v) <=> Ddos!Attacked(v))
         /\ \A v : Vanished(v) <=> Ddos!Vanished(v)
         /\ Compared = Pos
         /\ Deletable = valid \ pin
  BY DEF Zero, Sample, HotKeys, Add, Sub, Abnormal, Suspect, Vanished, Compared, Deletable,
         Ddos!Vanished

LEMMA DdosTable ==
  /\ \A K : Ddos!Host!InsKeys(K) <=> InsKeys(K)
  /\ Ddos!Host!InsertInput <=> InsertInput(InputKeys)
  /\ Ddos!Host!Remembered = RememberedOn(DOMAIN Ddos!Val)
<1>1. \A S : Ddos!Host!Cardinality(S) = Cardinality(S)
  BY DEF Ddos!Host!Cardinality, Cardinality
<1>2. \A K : Ddos!Host!InsKeys(K) <=> InsKeys(K)
  BY <1>1, Zenon DEF Ddos!Host!InsKeys, Ddos!Host!Places, Ddos!Host!Pos,
         Ddos!Host!IsInjective, InsKeys, Places, Pos, IsInjective
<1>3. Ddos!Host!InsertInput <=> InsertInput(InputKeys)
  BY <1>1, Zenon DEF Ddos!Host!InsertInput, Ddos!Host!Pinned, Ddos!Host!Pos,
         Ddos!Host!IsInjective, InsertInput, Pinned, Pos, IsInjective
<1>4. Ddos!Host!Remembered = RememberedOn(DOMAIN Ddos!Val)
  BY Zenon DEF Ddos!Host!Remembered, Ddos!Host!Total, Ddos!Host!Plus,
         Ddos!Host!FoldFunction, Ddos!Host!FoldFunctionOnSet, Ddos!Host!MapThenFoldSet,
         RememberedOn, TotalOn, Plus, FoldFunction, FoldFunctionOnSet, MapThenFoldSet
<1> QED BY <1>2, <1>3, <1>4

LEMMA DdosInit ==
  ASSUME query = "ddos", Ddos!Init
  PROVE  Construct /\ InsertInput(HotKeys)
<1>1. Construct
  BY DdosValues DEF Ddos!Init, Ddos!Server, Ddos!Host!Construct, Ddos!Host!NoCounts,
         Ddos!Host!Pos, Ddos!Host!Rows, Construct, Pos, Rows
<1>2. InsertInput(HotKeys)
  BY DdosValues, DdosTable, Zenon DEF Ddos!Init, Ddos!InsKeys
<1> QED BY <1>1, <1>2

LEMMA DdosStep ==
  ASSUME query = "ddos", Ddos!Next
  PROVE  AnyStep
<1>1. ASSUME Ddos!SwitchWin PROVE SwitchWin
  BY <1>1, DdosValues, Zenon DEF Ddos!SwitchWin, Ddos!Host!SwitchWin, Ddos!Host!Pos,
         Ddos!Host!Rows, Ddos!Host!tableVars, Ddos!Host!clockVars, SwitchWin, Lanes, Pos,
         Rows, tableVars, clockVars
<1>2. ASSUME Ddos!RecvKeys PROVE RecvKeys
  BY <1>2, DdosValues, DdosTable, Zenon DEF Ddos!RecvKeys, Ddos!Host!RecvKeys,
         Ddos!Host!Address, Ddos!Host!Pos, Ddos!Host!Rows, Ddos!Host!tableVars,
         Ddos!Host!clockVars, RecvKeys, Address, Pos, Rows, tableVars, clockVars
<1>3. ASSUME Ddos!SendRequests PROVE SendRequests
  BY <1>3, Zenon DEF Ddos!SendRequests, Ddos!Host!SendRequests, Ddos!Host!Pos,
         Ddos!Host!Rows, Ddos!Host!tableVars, Ddos!Host!clockVars, SendRequests, Pos, Rows,
         tableVars, clockVars
<1>4. ASSUME Ddos!Answered PROVE AnswerQuery
  BY <1>4, Zenon DEF Ddos!Answered, Ddos!Host!AnswerQuery, Ddos!Host!Pos, Ddos!Host!Rows,
         Ddos!Host!tableVars, Ddos!Host!clockVars, AnswerQuery, Pos, Rows, tableVars,
         clockVars
<1>5. ASSUME Ddos!WriteHotKey PROVE WriteHotKey
  BY <1>5, DdosValues, Zenon DEF Ddos!WriteHotKey, Ddos!Host!WriteHotKey,
         Ddos!Host!SwitchRow, Ddos!Host!Pos, Ddos!Host!Rows, Ddos!Host!tableVars,
         Ddos!Host!clockVars, WriteHotKey, SwitchRow, Pos, Rows, tableVars, clockVars
<1>6. ASSUME Ddos!RecvKeyVals PROVE RecvKeyVals
  BY <1>6, DdosValues, DdosTable, Zenon DEF Ddos!RecvKeyVals, Ddos!NextMsg,
         Ddos!Host!RecvKeyVals, Ddos!Host!DoneSent, Ddos!Host!Pos, Ddos!Host!Rows,
         Ddos!Host!tableVars, Ddos!Host!clockVars, RecvKeyVals, Pos, Rows, tableVars,
         clockVars
<1>7. ASSUME Ddos!MergeSliding PROVE MergeSliding
  BY <1>7, DdosValues, Zenon DEF Ddos!MergeSliding, Ddos!Host!MergeSliding,
         Ddos!Host!DelEpochPos, Ddos!Host!FoundDel, Ddos!Host!Compare, Ddos!Host!Pos,
         Ddos!Host!Rows, Ddos!Host!tableVars, Ddos!Host!clockVars, MergeSliding,
         DelEpochPos, Adds, Finds, Pos, Rows, tableVars, clockVars
<1>8. ASSUME Ddos!MergeTumbling PROVE MergeTumbling
  BY <1>8, DdosValues, Zenon DEF Ddos!MergeTumbling, Ddos!Host!MergeTumbling,
         Ddos!Host!LastOfWindow, Ddos!Host!Compare, Ddos!Host!Pos, Ddos!Host!Rows,
         Ddos!Host!tableVars, Ddos!Host!clockVars, MergeTumbling, Adds, Finds, Pos, Rows,
         tableVars, clockVars
<1>9. ASSUME Ddos!RecvDone PROVE RecvDone
  BY <1>9, DdosValues, DdosTable, Zenon DEF Ddos!RecvDone, Ddos!Host!RecvDone,
         Ddos!Host!ClearedRow, Ddos!Host!DelEpochPos, Ddos!Host!NextEpochPos,
         Ddos!Host!NoCounts, Ddos!Host!Pos, Ddos!Host!Rows, Ddos!Host!tableVars,
         Ddos!Host!clockVars, RecvDone, ClearedRow, DelEpochPos, NextEpochPos, Lanes, Pos,
         Rows, tableVars, clockVars
<1> QED BY <1>1, <1>2, <1>3, <1>4, <1>5, <1>6, <1>7, <1>8, <1>9, Zenon DEF Ddos!Next,
         AnyStep

LEMMA PortScanValues ==
  ASSUME query = "port-scan"
  PROVE  /\ Zero = PortScan!Val /\ Sample = PortScan!Samples /\ HotKeys = InputKeys
         /\ \A x, y : Add(x, y) = PortScan!AddEpi32(x, y) /\ Sub(x, y) = PortScan!SubEpi32(x, y)
         /\ \A v : (Abnormal(v) <=> PortScan!Compared(v)) /\ (Suspect(v) <=> PortScan!Scans(v))
         /\ \A v : Vanished(v) <=> PortScan!Vanished(v)
         /\ Compared = Pos
         /\ Deletable = valid \ pin
  BY DEF Zero, Sample, HotKeys, Add, Sub, Abnormal, Suspect, Vanished, Compared, Deletable,
         PortScan!Vanished, Ddos!Val,
         PortScan!Val, Ddos!Samples, PortScan!Samples, Ddos!AddEpi32, PortScan!AddEpi32,
         Ddos!SubEpi32, PortScan!SubEpi32, Ddos!Compared, PortScan!Compared, Ddos!Attacked,
         PortScan!Scans

LEMMA PortScanTable ==
  /\ \A K : PortScan!Host!InsKeys(K) <=> InsKeys(K)
  /\ PortScan!Host!InsertInput <=> InsertInput(InputKeys)
  /\ PortScan!Host!Remembered = RememberedOn(DOMAIN PortScan!Val)
<1>1. \A S : PortScan!Host!Cardinality(S) = Cardinality(S)
  BY DEF PortScan!Host!Cardinality, Cardinality
<1>2. \A K : PortScan!Host!InsKeys(K) <=> InsKeys(K)
  BY <1>1, Zenon DEF PortScan!Host!InsKeys, PortScan!Host!Places, PortScan!Host!Pos,
         PortScan!Host!IsInjective, InsKeys, Places, Pos, IsInjective
<1>3. PortScan!Host!InsertInput <=> InsertInput(InputKeys)
  BY <1>1, Zenon DEF PortScan!Host!InsertInput, PortScan!Host!Pinned, PortScan!Host!Pos,
         PortScan!Host!IsInjective, InsertInput, Pinned, Pos, IsInjective
<1>4. PortScan!Host!Remembered = RememberedOn(DOMAIN PortScan!Val)
  BY Zenon DEF PortScan!Host!Remembered, PortScan!Host!Total, PortScan!Host!Plus,
         PortScan!Host!FoldFunction, PortScan!Host!FoldFunctionOnSet,
         PortScan!Host!MapThenFoldSet, RememberedOn, TotalOn, Plus, FoldFunction,
         FoldFunctionOnSet, MapThenFoldSet
<1> QED BY <1>2, <1>3, <1>4

LEMMA PortScanInit ==
  ASSUME query = "port-scan", PortScan!Init
  PROVE  Construct /\ InsertInput(HotKeys)
<1>1. Construct
  BY PortScanValues DEF PortScan!Init, PortScan!Server, PortScan!Host!Construct,
         PortScan!Host!NoCounts, PortScan!Host!Pos, PortScan!Host!Rows, Construct, Pos, Rows
<1>2. InsertInput(HotKeys)
  BY PortScanValues, PortScanTable, Zenon DEF PortScan!Init, PortScan!InsKeys
<1> QED BY <1>1, <1>2

LEMMA PortScanStep ==
  ASSUME query = "port-scan", PortScan!Next
  PROVE  AnyStep
<1>1. ASSUME PortScan!SwitchWin PROVE SwitchWin
  BY <1>1, PortScanValues, Zenon DEF PortScan!SwitchWin, PortScan!Host!SwitchWin,
         PortScan!Host!Pos, PortScan!Host!Rows, PortScan!Host!tableVars,
         PortScan!Host!clockVars, SwitchWin, Lanes, Pos, Rows, tableVars, clockVars
<1>2. ASSUME PortScan!RecvKeys PROVE RecvKeys
  BY <1>2, PortScanValues, PortScanTable, Zenon DEF PortScan!RecvKeys,
         PortScan!Host!RecvKeys, PortScan!Host!Address, PortScan!Host!Pos,
         PortScan!Host!Rows, PortScan!Host!tableVars, PortScan!Host!clockVars, RecvKeys,
         Address, Pos, Rows, tableVars, clockVars
<1>3. ASSUME PortScan!SendRequests PROVE SendRequests
  BY <1>3, Zenon DEF PortScan!SendRequests, PortScan!Host!SendRequests, PortScan!Host!Pos,
         PortScan!Host!Rows, PortScan!Host!tableVars, PortScan!Host!clockVars, SendRequests,
         Pos, Rows, tableVars, clockVars
<1>4. ASSUME PortScan!Answered PROVE AnswerQuery
  BY <1>4, Zenon DEF PortScan!Answered, PortScan!Host!AnswerQuery, PortScan!Host!Pos,
         PortScan!Host!Rows, PortScan!Host!tableVars, PortScan!Host!clockVars, AnswerQuery,
         Pos, Rows, tableVars, clockVars
<1>5. ASSUME PortScan!WriteHotKey PROVE WriteHotKey
  BY <1>5, PortScanValues, Zenon DEF PortScan!WriteHotKey, PortScan!Host!WriteHotKey,
         PortScan!Host!SwitchRow, PortScan!Host!Pos, PortScan!Host!Rows,
         PortScan!Host!tableVars, PortScan!Host!clockVars, WriteHotKey, SwitchRow, Pos,
         Rows, tableVars, clockVars
<1>6. ASSUME PortScan!RecvKeyVals PROVE RecvKeyVals
  BY <1>6, PortScanValues, PortScanTable, Zenon DEF PortScan!RecvKeyVals, PortScan!NextMsg,
         PortScan!Host!RecvKeyVals, PortScan!Host!DoneSent, PortScan!Host!Pos,
         PortScan!Host!Rows, PortScan!Host!tableVars, PortScan!Host!clockVars, RecvKeyVals,
         Pos, Rows, tableVars, clockVars
<1>7. ASSUME PortScan!MergeSliding PROVE MergeSliding
  BY <1>7, PortScanValues, Zenon DEF PortScan!MergeSliding, PortScan!Host!MergeSliding,
         PortScan!Host!DelEpochPos, PortScan!Host!FoundDel, PortScan!Host!Compare,
         PortScan!Host!Pos, PortScan!Host!Rows, PortScan!Host!tableVars,
         PortScan!Host!clockVars, MergeSliding, DelEpochPos, Adds, Finds, Pos, Rows,
         tableVars, clockVars
<1>8. ASSUME PortScan!MergeTumbling PROVE MergeTumbling
  BY <1>8, PortScanValues, Zenon DEF PortScan!MergeTumbling, PortScan!Host!MergeTumbling,
         PortScan!Host!LastOfWindow, PortScan!Host!Compare, PortScan!Host!Pos,
         PortScan!Host!Rows, PortScan!Host!tableVars, PortScan!Host!clockVars,
         MergeTumbling, Adds, Finds, Pos, Rows, tableVars, clockVars
<1>9. ASSUME PortScan!RecvDone PROVE RecvDone
  BY <1>9, PortScanValues, PortScanTable, Zenon DEF PortScan!RecvDone,
         PortScan!Host!RecvDone, PortScan!Host!ClearedRow, PortScan!Host!DelEpochPos,
         PortScan!Host!NextEpochPos, PortScan!Host!NoCounts, PortScan!Host!Pos,
         PortScan!Host!Rows, PortScan!Host!tableVars, PortScan!Host!clockVars, RecvDone,
         ClearedRow, DelEpochPos, NextEpochPos, Lanes, Pos, Rows, tableVars, clockVars
<1> QED BY <1>1, <1>2, <1>3, <1>4, <1>5, <1>6, <1>7, <1>8, <1>9, Zenon DEF PortScan!Next,
         AnyStep

LEMMA SshBruteValues ==
  ASSUME query = "ssh-brute"
  PROVE  /\ Zero = SshBrute!Val /\ Sample = SshBrute!Samples /\ HotKeys = {}
         /\ \A x, y : Add(x, y) = SshBrute!AddEpi32(x, y) /\ Sub(x, y) = SshBrute!SubEpi32(x, y)
         /\ \A v : (Abnormal(v) <=> SshBrute!Compared(v)) /\ (Suspect(v) <=> SshBrute!Forced(v))
         /\ \A v : Vanished(v) <=> SshBrute!Vanished(v)
         /\ Compared = Pos
         /\ Deletable = valid \ pin
  BY DEF Zero, Sample, HotKeys, Add, Sub, Abnormal, Suspect, Vanished, Compared, Deletable,
         SshBrute!Vanished, Ddos!Val,
         SshBrute!Val, Ddos!Samples, SshBrute!Samples, Ddos!AddEpi32, SshBrute!AddEpi32,
         Ddos!SubEpi32, SshBrute!SubEpi32, Ddos!Compared, SshBrute!Compared, Ddos!Attacked,
         SshBrute!Forced

LEMMA SshBruteTable ==
  /\ \A K : SshBrute!Host!InsKeys(K) <=> InsKeys(K)
  /\ SshBrute!Host!InsertInput <=> InsertInput({})
  /\ SshBrute!Host!Remembered = RememberedOn(DOMAIN SshBrute!Val)
<1>1. \A S : SshBrute!Host!Cardinality(S) = Cardinality(S)
  BY DEF SshBrute!Host!Cardinality, Cardinality
<1>2. \A K : SshBrute!Host!InsKeys(K) <=> InsKeys(K)
  BY <1>1, Zenon DEF SshBrute!Host!InsKeys, SshBrute!Host!Places, SshBrute!Host!Pos,
         SshBrute!Host!IsInjective, InsKeys, Places, Pos, IsInjective
<1>3. SshBrute!Host!InsertInput <=> InsertInput({})
  BY <1>1, Zenon DEF SshBrute!Host!InsertInput, SshBrute!Host!Pinned, SshBrute!Host!Pos,
         SshBrute!Host!IsInjective, InsertInput, Pinned, Pos, IsInjective
<1>4. SshBrute!Host!Remembered = RememberedOn(DOMAIN SshBrute!Val)
  BY Zenon DEF SshBrute!Host!Remembered, SshBrute!Host!Total, SshBrute!Host!Plus,
         SshBrute!Host!FoldFunction, SshBrute!Host!FoldFunctionOnSet,
         SshBrute!Host!MapThenFoldSet, RememberedOn, TotalOn, Plus, FoldFunction,
         FoldFunctionOnSet, MapThenFoldSet
<1> QED BY <1>2, <1>3, <1>4

LEMMA SshBruteInit ==
  ASSUME query = "ssh-brute", SshBrute!Init
  PROVE  Construct /\ InsertInput(HotKeys)
<1>1. Construct
  BY SshBruteValues DEF SshBrute!Init, SshBrute!Server, SshBrute!Host!Construct,
         SshBrute!Host!NoCounts, SshBrute!Host!Pos, SshBrute!Host!Rows, Construct, Pos, Rows
<1>2. InsertInput(HotKeys)
  BY SshBruteValues, SshBruteTable, Zenon DEF SshBrute!Init, SshBrute!InsKeys
<1> QED BY <1>1, <1>2

LEMMA SshBruteStep ==
  ASSUME query = "ssh-brute", SshBrute!Next
  PROVE  AnyStep
<1>1. ASSUME SshBrute!SwitchWin PROVE SwitchWin
  BY <1>1, SshBruteValues, Zenon DEF SshBrute!SwitchWin, SshBrute!Host!SwitchWin,
         SshBrute!Host!Pos, SshBrute!Host!Rows, SshBrute!Host!tableVars,
         SshBrute!Host!clockVars, SwitchWin, Lanes, Pos, Rows, tableVars, clockVars
<1>2. ASSUME SshBrute!RecvKeys PROVE RecvKeys
  BY <1>2, SshBruteValues, SshBruteTable, Zenon DEF SshBrute!RecvKeys,
         SshBrute!Host!RecvKeys, SshBrute!Host!Address, SshBrute!Host!Pos,
         SshBrute!Host!Rows, SshBrute!Host!tableVars, SshBrute!Host!clockVars, RecvKeys,
         Address, Pos, Rows, tableVars, clockVars
<1>3. ASSUME SshBrute!SendRequests PROVE SendRequests
  BY <1>3, Zenon DEF SshBrute!SendRequests, SshBrute!Host!SendRequests, SshBrute!Host!Pos,
         SshBrute!Host!Rows, SshBrute!Host!tableVars, SshBrute!Host!clockVars, SendRequests,
         Pos, Rows, tableVars, clockVars
<1>4. ASSUME SshBrute!Answered PROVE AnswerQuery
  BY <1>4, Zenon DEF SshBrute!Answered, SshBrute!Host!AnswerQuery, SshBrute!Host!Pos,
         SshBrute!Host!Rows, SshBrute!Host!tableVars, SshBrute!Host!clockVars, AnswerQuery,
         Pos, Rows, tableVars, clockVars
<1>5. ASSUME SshBrute!RecvKeyVals PROVE RecvKeyVals
  BY <1>5, SshBruteValues, SshBruteTable, Zenon DEF SshBrute!RecvKeyVals, SshBrute!NextMsg,
         SshBrute!Host!RecvKeyVals, SshBrute!Host!DoneSent, SshBrute!Host!Pos,
         SshBrute!Host!Rows, SshBrute!Host!tableVars, SshBrute!Host!clockVars, RecvKeyVals,
         Pos, Rows, tableVars, clockVars
<1>6. ASSUME SshBrute!MergeSliding PROVE MergeSliding
  BY <1>6, SshBruteValues, Zenon DEF SshBrute!MergeSliding, SshBrute!Host!MergeSliding,
         SshBrute!Host!DelEpochPos, SshBrute!Host!FoundDel, SshBrute!Host!Compare,
         SshBrute!Host!Pos, SshBrute!Host!Rows, SshBrute!Host!tableVars,
         SshBrute!Host!clockVars, MergeSliding, DelEpochPos, Adds, Finds, Pos, Rows,
         tableVars, clockVars
<1>7. ASSUME SshBrute!MergeTumbling PROVE MergeTumbling
  BY <1>7, SshBruteValues, Zenon DEF SshBrute!MergeTumbling, SshBrute!Host!MergeTumbling,
         SshBrute!Host!LastOfWindow, SshBrute!Host!Compare, SshBrute!Host!Pos,
         SshBrute!Host!Rows, SshBrute!Host!tableVars, SshBrute!Host!clockVars,
         MergeTumbling, Adds, Finds, Pos, Rows, tableVars, clockVars
<1>8. ASSUME SshBrute!RecvDone PROVE RecvDone
  BY <1>8, SshBruteValues, SshBruteTable, Zenon DEF SshBrute!RecvDone,
         SshBrute!Host!RecvDone, SshBrute!Host!ClearedRow, SshBrute!Host!DelEpochPos,
         SshBrute!Host!NextEpochPos, SshBrute!Host!NoCounts, SshBrute!Host!Pos,
         SshBrute!Host!Rows, SshBrute!Host!tableVars, SshBrute!Host!clockVars, RecvDone,
         ClearedRow, DelEpochPos, NextEpochPos, Lanes, Pos, Rows, tableVars, clockVars
<1> QED BY <1>1, <1>2, <1>3, <1>4, <1>5, <1>6, <1>7, <1>8, Zenon DEF SshBrute!Next, AnyStep

-----------------------------------------------------------------------------
(* The values of a query, and what does not change with its state.         *)
LEMMA ValueFacts ==
  ASSUME query \in Programs
  PROVE  /\ \E n \in 1 .. 3 : Lanes = 1 .. n
         /\ Zero \in [Lanes -> {0}] /\ Zero \in Values
         /\ Sample \subseteq [Lanes -> 0 .. 2] /\ Sample \subseteq Values
         /\ HotKeys \subseteq Keys
<1> USE QueryAssumption DEF Lanes, Values, HotKeys
<1>1. CASE query = "syn-flood"
  <2>1. Zero = SynFlood!Val /\ Sample = SynFlood!Samples
    BY <1>1, SynFloodValues
  <2>2. Zero = <<0, 0, 0>> /\ Sample = {<<1, 1, 0>>, <<0, 0, 1>>}
    BY <2>1 DEF SynFlood!Val, SynFlood!Samples
  <2> QED BY <2>2
<1>2. CASE query = "completed-flow"
  <2>1. Zero = CompletedFlow!Val /\ Sample = CompletedFlow!Samples
    BY <1>2, CompletedFlowValues
  <2>2. Zero = <<0, 0>> /\ Sample = {<<2, 1>>, <<0, 1>>}
    BY <2>1 DEF CompletedFlow!Val, CompletedFlow!Samples
  <2> QED BY <2>2
<1>3. CASE query = "slowloris-attack"
  <2>1. Zero = Slowloris!Val /\ Sample = Slowloris!Samples
    BY <1>3, SlowlorisValues
  <2>2. Zero = <<0, 0>> /\ Sample = {<<2, 1>>, <<2, 0>>, <<1, 1>>}
    BY <2>1 DEF Slowloris!Val, Slowloris!Samples
  <2> QED BY <2>2
<1>4. CASE query \notin {"syn-flood", "completed-flow", "slowloris-attack"}
  <2>1. Zero = Ddos!Val /\ Sample = Ddos!Samples
    BY <1>4 DEF Zero, Sample
  <2>2. Zero = <<0>> /\ Sample = {<<1>>, <<2>>}
    BY <2>1 DEF Ddos!Val, Ddos!Samples
  <2> QED BY <2>2
<1> QED BY <1>1, <1>2, <1>3, <1>4

LEMMA ZeroIsLeast ==
  ASSUME query \in Programs
  PROVE  \A v \in Values : (\A i \in Lanes : v[i] = 0) => v = Zero
<1>1. Zero \in [Lanes -> {0}]
  BY ValueFacts
<1> QED BY <1>1 DEF Values

LEMMA QueryStays ==
  ASSUME query' = query
  PROVE  /\ Zero' = Zero /\ Lanes' = Lanes /\ Values' = Values /\ HotKeys' = HotKeys
         /\ Sample' = Sample
         /\ \A v : Suspect(v)' <=> Suspect(v)
<1>1. Zero' = Zero /\ HotKeys' = HotKeys /\ Sample' = Sample
  BY DEF Zero, HotKeys, Sample
<1>2. Lanes' = Lanes
  BY <1>1 DEF Lanes
<1>3. Values' = Values
  BY <1>2 DEF Values
<1>4. \A v : Suspect(v)' <=> Suspect(v)
  BY Zenon DEF Suspect
<1> QED BY <1>1, <1>2, <1>3, <1>4

-----------------------------------------------------------------------------
(* Rows of a ring.                                                         *)
LEMMA Wrap ==
  ASSUME NEW n \in Nat \ {0}, NEW x \in 0 .. n - 1
  PROVE  x % n = x /\ (x + n) % n = x
  OBVIOUS

LEMMA WrapType ==
  ASSUME NEW n \in Nat \ {0}, NEW x \in Int
  PROVE  x % n \in 0 .. n - 1
  OBVIOUS

LEMMA NextRow ==
  ASSUME NEW n \in Nat \ {0}, NEW x \in 0 .. n - 1
  PROVE  /\ (x + 1) % n = IF x = n - 1 THEN 0 ELSE x + 1
         /\ (((x + 1) % n) + n - 1) % n = x
<1>1. CASE x = n - 1
  BY <1>1, Wrap
<1>2. CASE x # n - 1
  BY <1>2, Wrap
<1> QED BY <1>1, <1>2

LEMMA RowAgoIs ==
  ASSUME curEpochPos \in 0 .. NEPOCH_BUF - 1, NEW j \in 0 .. NEPOCH_BUF
  PROVE  RowAgo(j) = IF j <= curEpochPos THEN curEpochPos - j ELSE curEpochPos + NEPOCH_BUF - j
<1>1. CASE j <= curEpochPos
  <2> DEFINE x == curEpochPos - j
  <2>1. x \in 0 .. NEPOCH_BUF - 1 /\ NEPOCH_BUF \in Nat \ {0}
    BY <1>1, QueryAssumption
  <2>2. RowAgo(j) = (x + NEPOCH_BUF) % NEPOCH_BUF
    <3>1. curEpochPos + (NEPOCH_BUF - j) = x + NEPOCH_BUF
      BY <2>1
    <3> QED BY <3>1 DEF RowAgo
  <2> HIDE DEF x
  <2>3. (x + NEPOCH_BUF) % NEPOCH_BUF = x
    BY <2>1, Wrap
  <2> QED BY <1>1, <2>2, <2>3 DEF x
<1>2. CASE j > curEpochPos
  <2> DEFINE x == curEpochPos + (NEPOCH_BUF - j)
  <2>1. x \in 0 .. NEPOCH_BUF - 1 /\ NEPOCH_BUF \in Nat \ {0}
    BY <1>2, QueryAssumption
  <2>2. RowAgo(j) = x % NEPOCH_BUF
    BY DEF RowAgo
  <2> HIDE DEF x
  <2>3. x % NEPOCH_BUF = x
    BY <2>1, Wrap
  <2> QED BY <1>2, <2>1, <2>2, <2>3, QueryAssumption DEF x
<1> QED BY <1>1, <1>2

-----------------------------------------------------------------------------
(* h.addKey of the keys K one after the other.                             *)
LEMMA Occupied ==
  ASSUME Typed, TableRight
  PROVE  LET held == {k \in Keys : Held(k)}
         IN  /\ IsFiniteSet(held) /\ IsFiniteSet(valid)
             /\ Cardinality(held) = Cardinality(valid)
             /\ \A j, k \in held : posOf[j] = posOf[k] => j = k
<1> DEFINE held == {k \in Keys : Held(k)}
           f == [k \in held |-> posOf[k]]
<1>1. IsFiniteSet(held)
  BY QueryAssumption, FS_Subset
<1>2. \A k \in held : posOf[k] \in valid /\ keys[posOf[k]] = k
  BY DEF TableRight
<1>3. f \in Surjection(held, valid)
  <2>1. f \in [held -> valid]
    BY <1>2
  <2>2. \A p \in valid : keys[p] \in held /\ posOf[keys[p]] = p
    BY QueryAssumption DEF TableRight, Typed, Held, Pos
  <2> QED BY <2>1, <2>2 DEF Surjection
<1>4. f \in Injection(held, valid)
  <2>1. \A j, k \in held : f[j] = f[k] => j = k
    BY <1>2
  <2>2. f \in [held -> valid]
    BY <1>2
  <2> HIDE DEF f, held
  <2> QED BY <2>1, <2>2 DEF Injection, IsInjective
<1> HIDE DEF f
<1>5. IsFiniteSet(valid) /\ Cardinality(valid) = Cardinality(held)
  <2> HIDE DEF held
  <2> QED BY <1>1, <1>3, <1>4, FS_Surjection
<1> QED BY <1>1, <1>2, <1>5

(* Where the keys K go that have no position yet: each to one of its own,  *)
(* which no key has.                                                       *)
LEMMA PlacesRight ==
  ASSUME Typed, TableRight, NEW K \in SUBSET Keys, NEW place \in Places(K)
  PROVE  /\ place \in [Keys -> Pos \cup {NoPos}]
         /\ \A k \in Keys : Held(k) \/ k \notin K => place[k] = posOf[k]
         /\ \A k \in K : place[k] \in Pos /\ (~Held(k) => place[k] \notin valid)
         /\ \A j, k \in Keys : place[k] # NoPos /\ place[j] = place[k] => j = k
         /\ ~sliding => LET v == valid \cup {place[k] : k \in K}
                        IN  v = 0 .. Cardinality(v) - 1
<1> DEFINE new == {k \in K : posOf[k] = NoPos}
           held == {k \in Keys : Held(k)}
           n == Cardinality(valid)
           m == Cardinality(new)
           free == IF sliding THEN Pos \ {posOf[k] : k \in Keys} ELSE n .. n + m - 1
<1>1. PICK f \in [new -> free] :
        /\ place = [k \in Keys |-> IF k \in new THEN f[k] ELSE posOf[k]]
        /\ \A j, k \in new : f[j] = f[k] => j = k
  BY Zenon DEF Places, IsInjective
<1>2. /\ IsFiniteSet(held) /\ IsFiniteSet(valid) /\ Cardinality(held) = n
      /\ \A j, k \in held : posOf[j] = posOf[k] => j = k
  BY Occupied
<1>3. IsFiniteSet(new) /\ new \cap held = {} /\ new \cup held \subseteq Keys
  BY QueryAssumption, FS_Subset DEF Held
<1>4. n \in Nat /\ m \in Nat /\ n + m <= NPos
  <2>1. Cardinality(new \cup held) = m + n - Cardinality({})
    <3> HIDE DEF new, held, n
    <3> QED BY <1>2, <1>3, FS_Union
  <2>2. Cardinality(new \cup held) <= Cardinality(Keys)
    <3> HIDE DEF new, held
    <3> QED BY <1>3, QueryAssumption, FS_Subset
  <2>3. n \in Nat /\ m \in Nat /\ Cardinality(Keys) \in Nat /\ Cardinality({}) = 0
    <3> HIDE DEF new
    <3> QED BY <1>2, <1>3, QueryAssumption, FS_CardinalityType, FS_EmptySet
  <2> HIDE DEF new, held, n, m
  <2> QED BY <2>1, <2>2, <2>3, QueryAssumption
<1> HIDE DEF n, m
<1>5. free \subseteq Pos /\ free \cap valid = {}
  <2>1. CASE sliding
    <3>1. \A p \in valid : \E k \in Keys : p = posOf[k]
      BY DEF TableRight
    <3> QED BY <2>1, <3>1
  <2>2. CASE ~sliding
    <3>1. valid = 0 .. n - 1
      BY <2>2 DEF TableRight, n
    <3> QED BY <2>2, <3>1, <1>4, QueryAssumption DEF Pos
  <2> QED BY <2>1, <2>2
<1>6. NoPos \notin Pos
  BY QueryAssumption DEF Pos
<1>7. \A k \in held : posOf[k] \in valid
  BY DEF TableRight
<1>8. \A k \in new : place[k] = f[k] /\ f[k] \in Pos /\ f[k] \notin valid
  BY <1>1, <1>5
<1>9. \A k \in Keys \ new : place[k] = posOf[k]
  BY <1>1
<1>10. \A k \in K : k \notin new => k \in held
  BY DEF Held
<1>11. \A k \in Keys : Held(k) <=> k \in held
  OBVIOUS
<1>12. place \in [Keys -> Pos \cup {NoPos}]
  <2> HIDE DEF new
  <2>1. posOf \in [Keys -> Pos \cup {NoPos}]
    BY DEF Typed
  <2> QED BY <1>1, <1>8, <2>1
<1>13. \A j, k \in Keys : place[k] # NoPos /\ place[j] = place[k] => j = k
  <2>1. TAKE j \in Keys, k \in Keys
  <2>2. HAVE place[k] # NoPos /\ place[j] = place[k]
  <2>3. j \in new \/ j \in held
    BY <2>2, <1>9 DEF Held
  <2>4. k \in new \/ k \in held
    BY <2>2, <1>9 DEF Held
  <2> HIDE DEF new, held
  <2> QED BY <2>2, <2>3, <2>4, <1>1, <1>2, <1>3, <1>7, <1>8, <1>9
<1>14. ASSUME ~sliding
       PROVE  LET v == valid \cup {place[k] : k \in K} IN v = 0 .. Cardinality(v) - 1
  <2> DEFINE v == valid \cup {place[k] : k \in K}
  <2>1. free = n .. n + m - 1 /\ valid = 0 .. n - 1
    BY <1>14 DEF TableRight, n
  <2>2. IsFiniteSet(free) /\ Cardinality(free) = m
    <3> HIDE DEF free
    <3>1. n \in Int /\ n + m - 1 \in Int /\ m \in Nat
      BY <1>4
    <3> QED BY <2>1, <3>1, FS_Interval
  <2>3. f \in Injection(new, free)
    BY <1>1 DEF Injection, IsInjective
  <2>4. f \in Surjection(new, free)
    <3> HIDE DEF new, free
    <3> QED BY <2>2, <2>3, FS_Injection DEF m
  <2>5. \A p \in free : \E k \in new : place[k] = p
    <3> HIDE DEF free
    <3> QED BY <2>4, <1>8 DEF Surjection
  <2>6. \A k \in K : place[k] \in valid \/ place[k] \in free
    <3> HIDE DEF free, new, held
    <3> QED BY <1>1, <1>7, <1>8, <1>9, <1>10
  <2>7. v = 0 .. n + m - 1
    <3>1. v = valid \cup free
      <4> HIDE DEF free, held
      <4> QED BY <2>5, <2>6
    <3> HIDE DEF v, free
    <3> QED BY <3>1, <2>1, <1>4
  <2>8. Cardinality(v) = n + m
    <3> DEFINE top == n + m - 1
    <3>1. top \in Int /\ 0 \in Int /\ top >= -1 /\ n + m = top + 1 /\ v = 0 .. top
      BY <1>4, <2>7
    <3> HIDE DEF v, top
    <3>2. Cardinality(0 .. top) = IF 0 > top THEN 0 ELSE top - 0 + 1
      BY <3>1, FS_Interval
    <3> QED BY <3>1, <3>2
  <2>9. v = 0 .. Cardinality(v) - 1
    <3> HIDE DEF v
    <3> QED BY <1>4, <2>7, <2>8
  <2> QED BY <2>9, Zenon
<1>15. \A k \in K : place[k] \in Pos /\ (~Held(k) => place[k] \notin valid)
  <2>1. valid \subseteq Pos
    BY DEF Typed
  <2> HIDE DEF new, held, free
  <2> QED BY <2>1, <1>7, <1>8, <1>9, <1>10, <1>11
<1>16. \A k \in Keys : Held(k) \/ k \notin K => place[k] = posOf[k]
  BY <1>9 DEF Held
<1> QED BY <1>12, <1>13, <1>14, <1>15, <1>16

LEMMA InsKeysRight ==
  ASSUME Typed, TableRight, query' = query, sliding' = sliding,
         NEW K \in SUBSET Keys, InsKeys(K)
  PROVE  /\ posOf' \in [Keys -> Pos \cup {NoPos}] /\ keys' \in [Pos -> Keys \cup {NoKey}]
         /\ valid' \subseteq Pos /\ pin' = pin
         /\ \A k \in Keys : Held(k) \/ k \notin K => posOf'[k] = posOf[k]
         /\ \A k \in K : posOf'[k] \in Pos /\ (~Held(k) => posOf'[k] \notin valid)
         /\ \A j, k \in Keys : posOf'[k] # NoPos /\ posOf'[j] = posOf'[k] => j = k
         /\ valid' = valid \cup {posOf'[k] : k \in K}
         /\ TableRight'
<1> DEFINE place == posOf'
<1>1. /\ place \in [Keys -> Pos \cup {NoPos}]
      /\ \A k \in Keys : Held(k) \/ k \notin K => place[k] = posOf[k]
      /\ \A k \in K : place[k] \in Pos /\ (~Held(k) => place[k] \notin valid)
      /\ \A j, k \in Keys : place[k] # NoPos /\ place[j] = place[k] => j = k
      /\ ~sliding => LET v == valid \cup {place[k] : k \in K}
                     IN  v = 0 .. Cardinality(v) - 1
  <2>1. place \in Places(K)
    BY DEF InsKeys
  <2> HIDE DEF place
  <2> QED BY <2>1, PlacesRight
<1>2. valid' = valid \cup {place[k] : k \in K} /\ pin' = pin
  BY DEF InsKeys
<1>3. keys' = [p \in Pos |-> IF \E k \in K : place[k] = p
                             THEN CHOOSE k \in K : place[k] = p ELSE keys[p]]
  BY DEF InsKeys
<1>4. NoPos \notin Pos
  BY QueryAssumption DEF Pos
<1>5. \A k \in K : keys'[place[k]] = k
  <2> SUFFICES ASSUME NEW k \in K PROVE keys'[place[k]] = k
    OBVIOUS
  <2> DEFINE p == place[k]
             j == CHOOSE x \in K : place[x] = p
  <2>1. j \in K /\ place[j] = p
    OBVIOUS
  <2>2. keys'[p] = j
    BY <1>1, <1>3
  <2> HIDE DEF j, place
  <2> QED BY <1>1, <1>4, <2>1, <2>2
<1>6. \A p \in Pos : (\A k \in K : place[k] # p) => keys'[p] = keys[p]
  BY <1>3
<1> HIDE DEF place
<1>7. valid' \subseteq Pos
  BY <1>1, <1>2 DEF Typed
<1>8. keys' \in [Pos -> Keys \cup {NoKey}]
  <2>1. \A p \in Pos : keys'[p] \in Keys \cup {NoKey}
    <3> TAKE p \in Pos
    <3>1. CASE \E k \in K : place[k] = p
      BY <1>5, <3>1
    <3>2. CASE \A k \in K : place[k] # p
      BY <1>6, <3>2 DEF Typed
    <3> QED BY <3>1, <3>2
  <2>2. DOMAIN keys' = Pos /\ keys' = [p \in DOMAIN keys' |-> keys'[p]]
    BY <1>3
  <2> QED BY <2>1, <2>2
<1>9. ASSUME NEW k \in Keys, place[k] # NoPos
      PROVE  place[k] \in valid' /\ keys'[place[k]] = k
  <2>1. CASE k \in K
    BY <1>2, <1>5, <2>1
  <2>2. CASE k \notin K
    <3>1. place[k] = posOf[k] /\ posOf[k] \in valid /\ keys[posOf[k]] = k
      BY <1>1, <1>9, <2>2 DEF TableRight, Held
    <3>2. \A j \in K : place[j] # place[k]
      BY <1>1, <1>9, <2>2
    <3>3. place[k] \in Pos
      BY <1>1, <1>9
    <3> QED BY <1>2, <1>6, <3>1, <3>2, <3>3
  <2> QED BY <2>1, <2>2
<1>10. ASSUME NEW p \in valid'
       PROVE  keys'[p] \in Keys /\ place[keys'[p]] = p
  <2>1. CASE \E k \in K : place[k] = p
    BY <1>5, <2>1
  <2>2. CASE \A k \in K : place[k] # p
    <3>1. p \in valid
      BY <1>2, <2>2
    <3>2. keys'[p] = keys[p] /\ keys[p] \in Keys /\ posOf[keys[p]] = p
      BY <1>6, <2>2, <3>1 DEF Typed, TableRight
    <3>3. Held(keys[p])
      BY <1>4, <3>1, <3>2 DEF Typed, Held
    <3> QED BY <1>1, <3>2, <3>3
  <2> QED BY <2>1, <2>2
<1>11. \A k \in HotKeys : place[k] # NoPos /\ (sliding => place[k] \in pin)
  <2>1. HotKeys \subseteq Keys
    BY ValueFacts DEF Typed
  <2>2. \A k \in HotKeys : Held(k) /\ (sliding => posOf[k] \in pin)
    BY DEF TableRight
  <2> QED BY <1>1, <2>1, <2>2 DEF Held
<1>12. ~sliding => valid' = 0 .. Cardinality(valid') - 1
  BY <1>1, <1>2
<1>13. TableRight'
  <2>1. HotKeys' = HotKeys
    BY QueryStays
  <2>2. \A k \in Keys : Held(k)' <=> place[k] # NoPos
    BY DEF Held, place
  <2>3. place = posOf'
    BY DEF place
  <2>4. \A k \in Keys : Held(k)' => posOf'[k] \in valid' /\ keys'[posOf'[k]] = k
    BY <1>9, <2>2, <2>3
  <2>5. \A p \in valid' : keys'[p] \in Keys /\ posOf'[keys'[p]] = p
    BY <1>10, <2>3
  <2>6. HotKeys \subseteq Keys
    BY ValueFacts DEF Typed
  <2>7. \A k \in HotKeys' : Held(k)' /\ (sliding' => posOf'[k] \in pin')
    BY <1>2, <1>11, <2>1, <2>2, <2>3, <2>6
  <2> QED BY <1>12, <2>4, <2>5, <2>7 DEF TableRight
<1> QED BY <1>1, <1>2, <1>7, <1>8, <1>13 DEF place

(* The first table, of the keys of the input file.                         *)
LEMMA InsertInputRight ==
  ASSUME query \in Programs, sliding \in BOOLEAN, InsertInput(HotKeys)
  PROVE  /\ posOf \in [Keys -> Pos \cup {NoPos}] /\ keys \in [Pos -> Keys \cup {NoKey}]
         /\ valid \subseteq Pos /\ pin \subseteq Pos
         /\ TableRight
<1> DEFINE hot == HotKeys
           n == Cardinality(hot)
<1>1. PICK place \in [hot -> 0 .. n - 1] :
        /\ \A j, k \in hot : place[j] = place[k] => j = k
        /\ posOf = [k \in Keys |-> IF k \in hot THEN place[k] ELSE NoPos]
        /\ keys = [p \in Pos |-> IF p \in Pinned(hot, place)
                                 THEN CHOOSE k \in hot : place[k] = p ELSE NoKey]
        /\ valid = Pinned(hot, place)
        /\ pin = IF sliding THEN Pinned(hot, place) ELSE {}
  BY Zenon DEF InsertInput, IsInjective
<1> DEFINE V == Pinned(hot, place)
<1>2. hot \subseteq Keys
  BY ValueFacts
<1>3. IsFiniteSet(hot) /\ n \in Nat /\ n <= NPos
  <2> HIDE DEF hot
  <2> QED BY <1>2, QueryAssumption, FS_Subset, FS_CardinalityType
<1>4. V \subseteq Pos /\ \A p \in V : \E k \in hot : place[k] = p
  BY <1>3, QueryAssumption DEF Pinned, Pos
<1>5. \A k \in hot : place[k] \in V
  BY DEF Pinned
<1>6. NoPos \notin Pos
  BY QueryAssumption DEF Pos
<1>7. \A k \in hot : keys[place[k]] = k
  <2> SUFFICES ASSUME NEW k \in hot PROVE keys[place[k]] = k
    OBVIOUS
  <2> DEFINE p == place[k]
             j == CHOOSE x \in hot : place[x] = p
  <2>1. j \in hot /\ place[j] = p
    OBVIOUS
  <2>2. p \in V /\ p \in Pos
    BY <1>4, <1>5
  <2> HIDE DEF hot
  <2>3. keys[p] = j
    BY <1>1, <2>2
  <2> HIDE DEF j
  <2> QED BY <1>1, <2>1, <2>3
<1>8. ~sliding => valid = 0 .. Cardinality(valid) - 1
  <2> DEFINE top == n - 1
  <2>1. top \in Int /\ 0 \in Int /\ n = top + 1
    BY <1>3
  <2>2. IsFiniteSet(0 .. top) /\ Cardinality(0 .. top) = n
    <3> HIDE DEF n, top
    <3> QED BY <1>3, <2>1, FS_Interval
  <2>3. place \in Injection(hot, 0 .. top)
    BY <1>1 DEF Injection, IsInjective
  <2>4. place \in Surjection(hot, 0 .. top)
    <3> HIDE DEF hot, top
    <3> QED BY <2>2, <2>3, FS_Injection
  <2>5. V = 0 .. top
    <3> HIDE DEF hot, top
    <3> QED BY <1>1, <1>5, <2>4 DEF Surjection, Pinned
  <2>6. Cardinality(V) = n
    <3> HIDE DEF V
    <3> QED BY <2>2, <2>5
  <2>7. V = 0 .. Cardinality(V) - 1
    <3> HIDE DEF V, n
    <3> QED BY <2>5, <2>6
  <2> QED BY <1>1, <2>7
<1> HIDE DEF V, hot, n
<1>9. valid = V /\ pin \subseteq V
  BY <1>1 DEF V
<1>10. \A k \in hot : posOf[k] = place[k]
  BY <1>1, <1>2
<1>11. \A k \in Keys \ hot : posOf[k] = NoPos
  BY <1>1
<1>12. posOf \in [Keys -> Pos \cup {NoPos}]
  BY <1>1, <1>4, <1>5
<1>13. keys \in [Pos -> Keys \cup {NoKey}]
  <2>1. \A p \in Pos : keys[p] \in Keys \cup {NoKey}
    <3> TAKE p \in Pos
    <3>1. CASE p \in V
      BY <1>2, <1>4, <1>7, <3>1
    <3>2. CASE p \notin V
      BY <1>1, <3>2 DEF V
    <3> QED BY <3>1, <3>2
  <2>2. keys = [p \in Pos |-> keys[p]]
    BY <1>1
  <2> QED BY <2>1, <2>2
<1>14. \A k \in Keys : Held(k) => posOf[k] \in valid /\ keys[posOf[k]] = k
  BY <1>5, <1>7, <1>9, <1>10, <1>11 DEF Held
<1>15. \A p \in valid : keys[p] \in Keys /\ posOf[keys[p]] = p
  BY <1>2, <1>4, <1>7, <1>9, <1>10
<1>16. \A k \in HotKeys : Held(k) /\ (sliding => posOf[k] \in pin)
  <2>1. sliding => pin = V
    BY <1>1 DEF V
  <2> QED BY <2>1, <1>4, <1>5, <1>6, <1>10 DEF Held, hot
<1> QED BY <1>4, <1>8, <1>9, <1>12, <1>13, <1>14, <1>15, <1>16 DEF TableRight
-----------------------------------------------------------------------------
(* The vector additions work lane by lane, in lanes of one width.          *)
LEMMA LaneByLane ==
  ASSUME query \in Programs
  PROVE  \E w \in {Width16, Width32} : \A x, y :
           /\ Add(x, y) = [i \in Lanes |-> (x[i] + y[i]) % w]
           /\ Sub(x, y) = [i \in Lanes |-> (x[i] - y[i]) % w]
<1>1. CASE query = "syn-flood"
  <2>1. Lanes = 1 .. 3
    BY <1>1, SynFloodValues DEF SynFlood!Val, Lanes
  <2>2. \A x, y : /\ Add(x, y) = [i \in 1 .. 3 |-> (x[i] + y[i]) % Width16]
                  /\ Sub(x, y) = [i \in 1 .. 3 |-> (x[i] - y[i]) % Width16]
    BY <1>1, SynFloodValues, Zenon DEF SynFlood!AddEpi16, SynFlood!SubEpi16
  <2> QED BY <2>1, <2>2, Zenon
<1>2. CASE query = "completed-flow"
  <2>1. Lanes = 1 .. 2
    BY <1>2, CompletedFlowValues DEF CompletedFlow!Val, Lanes
  <2>2. \A x, y : /\ Add(x, y) = [i \in 1 .. 2 |-> (x[i] + y[i]) % Width16]
                  /\ Sub(x, y) = [i \in 1 .. 2 |-> (x[i] - y[i]) % Width16]
    BY <1>2, CompletedFlowValues, Zenon DEF CompletedFlow!AddEpi16, CompletedFlow!SubEpi16
  <2> QED BY <2>1, <2>2, Zenon
<1>3. CASE query = "slowloris-attack"
  <2>1. Lanes = 1 .. 2
    BY <1>3, SlowlorisValues DEF Slowloris!Val, Lanes
  <2>2. \A x, y : /\ Add(x, y) = [i \in 1 .. 2 |-> (x[i] + y[i]) % Width32]
                  /\ Sub(x, y) = [i \in 1 .. 2 |-> (x[i] - y[i]) % Width32]
    BY <1>3, SlowlorisValues, Zenon DEF Slowloris!AddEpi32, Slowloris!SubEpi32
  <2> QED BY <2>1, <2>2, Zenon
<1>4. CASE query \notin {"syn-flood", "completed-flow", "slowloris-attack"}
  <2>1. Lanes = 1 .. 1
    BY <1>4 DEF Zero, Ddos!Val, Lanes
  <2>2. \A x, y : Add(x, y) = Ddos!AddEpi32(x, y) /\ Sub(x, y) = Ddos!SubEpi32(x, y)
    BY <1>4 DEF Add, Sub
  <2>3. \A a : <<a>> = [i \in 1 .. 1 |-> a]
    OBVIOUS
  <2>4. \A x, y : /\ Add(x, y) = [i \in 1 .. 1 |-> (x[1] + y[1]) % Width32]
                  /\ Sub(x, y) = [i \in 1 .. 1 |-> (x[1] - y[1]) % Width32]
    BY <2>2, <2>3 DEF Ddos!AddEpi32, Ddos!SubEpi32
  <2>5. \A i \in 1 .. 1 : i = 1
    OBVIOUS
  <2>6. \A x, y : /\ Add(x, y) = [i \in Lanes |-> (x[i] + y[i]) % Width32]
                  /\ Sub(x, y) = [i \in Lanes |-> (x[i] - y[i]) % Width32]
    BY <2>1, <2>4, <2>5, Zenon
  <2> QED BY <2>6
<1> QED BY <1>1, <1>2, <1>3, <1>4

LEMMA AddType ==
  ASSUME query \in Programs, NEW x \in Values, NEW y \in Values
  PROVE  Add(x, y) \in Values /\ Sub(x, y) \in Values
<1>1. PICK w \in {Width16, Width32} :
        /\ Add(x, y) = [i \in Lanes |-> (x[i] + y[i]) % w]
        /\ Sub(x, y) = [i \in Lanes |-> (x[i] - y[i]) % w]
  BY LaneByLane
<1>2. w \in Nat \ {0}
  BY QueryAssumption
<1>3. \A i \in Lanes : (x[i] + y[i]) % w \in Nat /\ (x[i] - y[i]) % w \in Nat
  BY <1>2 DEF Values
<1> QED BY <1>1, <1>3 DEF Values

-----------------------------------------------------------------------------
(* The programs in one form.                                               *)
LEMMA InitForm ==
  ASSUME Init
  PROVE  query \in Programs /\ Construct /\ InsertInput(HotKeys)
<1> USE DEF Programs
<1> QED BY SynFloodInit, CompletedFlowInit, SlowlorisInit, SuperspreaderInit, DdosInit,
           PortScanInit, SshBruteInit DEF Init

LEMMA NextForm ==
  ASSUME Next
  PROVE  AnyStep /\ query' = query
  BY SynFloodStep, CompletedFlowStep, SlowlorisStep, SuperspreaderStep, DdosStep,
     PortScanStep, SshBruteStep DEF Next

LEMMA RowType == \A r \in Rows : r \in 0 .. NEPOCH_BUF - 1
  BY QueryAssumption DEF Rows

LEMMA ClearedRowType == sliding \in BOOLEAN /\ curEpochPos \in Rows => ClearedRow \in Rows
<1> SUFFICES ASSUME sliding, curEpochPos \in Rows PROVE DelEpochPos \in Rows
  BY DEF ClearedRow, Rows
<1>1. curEpochPos + (NEPOCH_BUF - (NEpoch - 1)) \in Int
  BY QueryAssumption DEF Rows
<1> QED BY <1>1, QueryAssumption, WrapType DEF DelEpochPos, Rows

-----------------------------------------------------------------------------
(* The sum of what is kept, lane by lane.  What a fold computes is a       *)
(* function on the sets that are left, and there is one such function.     *)
FoldStep(k, f, s) ==
  IF s = {} THEN counts[k]
  ELSE Plus(Lanes, past[CHOOSE x \in s : TRUE][k], f[s \ {CHOOSE x \in s : TRUE}])

Folded(k, f) == f = [s \in SUBSET DOMAIN past |-> FoldStep(k, f, s)]

LEMMA LaneSumType ==
  ASSUME query \in Programs, NEW s \in Seq([Keys -> Values]), NEW k \in Keys, NEW i \in Lanes
  PROVE  /\ [j \in 1 .. Len(s) |-> s[j][k][i]] \in [1 .. Len(s) -> Nat]
         /\ IsFiniteSet(1 .. Len(s))
         /\ LaneSum(s, k, i) \in Nat
<1> DEFINE g == [j \in 1 .. Len(s) |-> s[j][k][i]]
<1>1. g \in [1 .. Len(s) -> Nat]
  <2>1. \A j \in 1 .. Len(s) : s[j] \in [Keys -> Values]
    OBVIOUS
  <2> QED BY <2>1 DEF Values
<1>2. IsFiniteSet(1 .. Len(s))
  BY FS_Interval
<1> HIDE DEF g
<1>3. Total(g) \in Nat
  BY <1>1, <1>2, TermsBelowTotal
<1> QED BY <1>1, <1>2, <1>3 DEF LaneSum, g

LEMMA WindowTotalIs ==
  ASSUME Typed, NEW k \in Keys
  PROVE  /\ WindowTotal(k) = [i \in Lanes |-> counts[k][i] + LaneSum(past, k, i)]
         /\ WindowTotal(k) \in Values
<1> DEFINE D == DOMAIN past
           g(i) == [j \in 1 .. Len(past) |-> past[j][k][i]]
           F == [i \in Lanes |-> CHOOSE f : SumsUp(g(i), f, D) /\ Total(g(i)) = f[D]]
           h == [s \in SUBSET D |-> [i \in Lanes |-> counts[k][i] + F[i][s]]]
<1>1. D = 1 .. Len(past) /\ query \in Programs /\ past \in Seq([Keys -> Values])
  BY DEF Typed
<1>0. IsFiniteSet(D)
  BY <1>1, FS_Interval
<1>2. counts[k] \in Values /\ counts[k] = [i \in Lanes |-> counts[k][i]]
  BY DEF Typed, Values
<1>3. \A i \in Lanes : g(i) \in [D -> Nat]
  BY <1>1, LaneSumType
<1>4. ASSUME NEW i \in Lanes
      PROVE  SumsUp(g(i), F[i], D) /\ Total(g(i)) = F[i][D]
  <2>1. DOMAIN g(i) = D
    BY <1>1
  <2> HIDE DEF g, D
  <2>2. \E f : SumsUp(g(i), f, D) /\ Total(g(i)) = f[D]
    BY <1>0, <2>1, TotalSumsUp
  <2> QED BY <2>2
<1>5. ASSUME NEW i \in Lanes
      PROVE  /\ F[i][{}] = 0
             /\ \A s \in SUBSET D : F[i][s] \in Int /\ \A x \in s : F[i][s] = g(i)[x] + F[i][s \ {x}]
  <2> HIDE DEF F, D, g
  <2>1. g(i) \in [D -> Int] /\ SumsUp(g(i), F[i], D)
    BY <1>3, <1>4
  <2>2. F[i][{}] = 0
    BY <2>1 DEF SumsUp, Step
  <2>3. \A s \in SUBSET D : F[i][s] \in Int /\ \A x \in s : F[i][s] = g(i)[x] + F[i][s \ {x}]
    <3> DEFINE G == g(i)
               e == F[i]
    <3>1. G \in [D -> Int] /\ SumsUp(G, e, D)
      BY <2>1
    <3> HIDE DEF G, e
    <3>2. \A s \in SUBSET D : e[s] \in Int /\ \A x \in s : e[s] = G[x] + e[s \ {x}]
      BY <1>0, <3>1, AnyOrder
    <3> QED BY <3>2 DEF G, e
  <2> QED BY <2>2, <2>3
<1>6. \A i \in Lanes, x \in D : g(i)[x] = past[x][k][i]
  BY <1>1
<1>7. \A i \in Lanes : F[i][D] = LaneSum(past, k, i)
  BY <1>4 DEF LaneSum
<1> HIDE DEF F, g
<1>8. ASSUME NEW s \in SUBSET D, NEW f, \A r \in SUBSET s : r # s => f[r] = h[r]
      PROVE  FoldStep(k, f, s) = h[s]
  <2>1. CASE s = {}
    <3>1. \A i \in Lanes : counts[k][i] + F[i][s] = counts[k][i]
      BY <2>1, <1>2, <1>5 DEF Values
    <3> QED BY <2>1, <3>1, <1>2 DEF FoldStep
  <2>2. CASE s # {}
    <3> DEFINE x == CHOOSE y \in s : TRUE
    <3>1. x \in s /\ s \ {x} \in SUBSET s /\ s \ {x} # s /\ s \ {x} \in SUBSET D
      BY <2>2
    <3> HIDE DEF x
    <3>2. f[s \ {x}] = [i \in Lanes |-> counts[k][i] + F[i][s \ {x}]]
      BY <1>8, <3>1
    <3>3. \A i \in Lanes : past[x][k][i] + f[s \ {x}][i] = counts[k][i] + F[i][s]
      <4> TAKE i \in Lanes
      <4>1. F[i][s] = past[x][k][i] + F[i][s \ {x}] /\ F[i][s \ {x}] \in Int
        <5>1. x \in D /\ g(i)[x] = past[x][k][i]
          BY <1>6, <3>1
        <5> HIDE DEF D
        <5> QED BY <1>5, <3>1, <5>1
      <4>2. counts[k][i] \in Nat /\ past[x][k][i] \in Int
        <5>1. g(i)[x] \in Nat
          BY <1>3, <3>1
        <5> QED BY <1>2, <1>6, <3>1, <5>1 DEF Values
      <4> QED BY <3>2, <4>1, <4>2
    <3>4. FoldStep(k, f, s) = [i \in Lanes |-> past[x][k][i] + f[s \ {x}][i]]
      BY <2>2 DEF FoldStep, Plus, x
    <3> QED BY <3>3, <3>4
  <2> QED BY <2>1, <2>2
<1> HIDE DEF h
<1>9. Folded(k, h)
  <2>1. \A s \in SUBSET D : FoldStep(k, h, s) = h[s]
    BY <1>8
  <2>2. h = [s \in SUBSET D |-> h[s]]
    BY DEF h
  <2> QED BY <2>1, <2>2 DEF Folded
<1>10. ASSUME NEW f, Folded(k, f)
       PROVE  f[D] = h[D]
  <2> DEFINE T == {s \in SUBSET D : f[s] = h[s]}
  <2>1. ASSUME NEW s \in SUBSET D, \A r \in SUBSET s : r # s => r \in T
        PROVE  s \in T
    <3>1. f[s] = FoldStep(k, f, s)
      BY <1>10 DEF Folded
    <3>2. \A r \in SUBSET s : r # s => f[r] = h[r]
      BY <2>1
    <3> QED BY <1>8, <3>1, <3>2
  <2> HIDE DEF T, D
  <2>2. SUBSET D \subseteq T
    BY <1>0, <2>1, SubsetInduction
  <2> QED BY <2>2 DEF T
<1>11. WindowTotal(k) = (CHOOSE f : Folded(k, f))[D]
  BY Zenon DEF WindowTotal, TotalOn, FoldFunction, FoldFunctionOnSet, MapThenFoldSet, Folded, FoldStep
<1>12. WindowTotal(k) = h[D]
  BY <1>9, <1>10, <1>11
<1>13. h[D] = [i \in Lanes |-> counts[k][i] + F[i][D]]
  BY DEF h
<1>14. WindowTotal(k) = [i \in Lanes |-> counts[k][i] + LaneSum(past, k, i)]
  BY <1>7, <1>12, <1>13
<1>15. \A i \in Lanes : counts[k][i] + LaneSum(past, k, i) \in Nat
  <2>1. \A i \in Lanes : counts[k][i] \in Nat /\ LaneSum(past, k, i) \in Nat
    BY <1>1, <1>2, LaneSumType DEF Values
  <2> QED BY <2>1
<1> QED BY <1>14, <1>15 DEF Values

LEMMA RememberedType ==
  ASSUME Typed
  PROVE  RememberedOn(Lanes) \in Seq([Keys -> Values])
<1>1. CASE sliding
  <2>1. past \in Seq([Keys -> Values]) /\ counts \in [Keys -> Values]
    BY DEF Typed
  <2> DEFINE V == [Keys -> Values]
  <2>2. \A s \in Seq(V), c \in V : Append(s, c) \in Seq(V) /\ Tail(Append(s, c)) \in Seq(V)
    <3> HIDE DEF V
    <3> TAKE s \in Seq(V), c \in V
    <3>1. Append(s, c) \in Seq(V)
      OBVIOUS
    <3>2. Len(Append(s, c)) = Len(s) + 1
      OBVIOUS
    <3>3. Append(s, c) # <<>>
      <4>1. Len(s) \in Nat /\ Len(<<>>) = 0
        OBVIOUS
      <4> QED BY <3>2, <4>1
    <3> QED BY <3>1, <3>3
  <2> QED BY <1>1, <2>1, <2>2 DEF RememberedOn
<1>2. CASE ~sliding
  <2> DEFINE c == [k \in Keys |-> WindowTotal(k)]
  <2>1. c \in [Keys -> Values]
    BY WindowTotalIs
  <2>2. RememberedOn(Lanes) = <<c>>
    BY <1>2 DEF RememberedOn, WindowTotal
  <2> HIDE DEF c
  <2> QED BY <2>1, <2>2
<1> QED BY <1>1, <1>2 DEF Typed
-----------------------------------------------------------------------------
(* The state of the program that runs is well-formed.                      *)
LEMMA TypedInit ==
  ASSUME query \in Programs, Construct, InsertInput(HotKeys)
  PROVE  Typed
<1>1. Zero \in Values
  BY ValueFacts
<1>2. epochData \in [Rows -> [Pos -> Values]] /\ mergedData \in [Pos -> Values]
      /\ counts \in [Keys -> Values]
  BY <1>1 DEF Construct
<1>3. curEpoch \in 0 .. NEpoch - 1 /\ curEpochPos \in Rows /\ epoch \in Rows
  BY QueryAssumption DEF Construct, Rows
<1>4. past \in Seq([Keys -> Values])
  <2> past = <<>>
    BY DEF Construct
  <2> QED OBVIOUS
<1> QED BY <1>2, <1>3, <1>4, InsertInputRight DEF Typed, Construct

LEMMA RowWrite ==
  ASSUME epochData \in [Rows -> [Pos -> Values]], NEW r \in Rows, NEW p \in Pos, NEW v \in Values
  PROVE  [epochData EXCEPT ![r][p] = v] \in [Rows -> [Pos -> Values]]
<1> HIDE DEF Values, Rows, Pos
<1> QED OBVIOUS

LEMMA QueryRow ==
  ASSUME Typed, QueriesRight, NEW q \in requests
  PROVE  q.row \in Rows /\ q.pos \in Pos /\ q.key \in Keys /\ q.row = curEpochPos /\ q.pos = posOf[q.key]
  BY DEF Typed, QueriesRight

LEMMA SwitchRowIs ==
  ASSUME Typed, ClockRight, pc = "recvKeyVals"
  PROVE  SwitchRow = curEpochPos
<1>1. CASE sliding
  <2>1. epoch = (curEpochPos + 1) % NEPOCH_BUF
    BY <1>1 DEF ClockRight, Started
  <2>2. curEpochPos \in 0 .. NEPOCH_BUF - 1
    BY RowType DEF Typed
  <2> QED BY <1>1, <2>1, <2>2, QueryAssumption, NextRow DEF SwitchRow
<1>2. CASE ~sliding
  BY <1>2 DEF SwitchRow, Typed, Rows
<1> QED BY <1>1, <1>2

(* What a merge adds up to, and what it leaves.                            *)
LEMMA AddsType ==
  ASSUME Typed, NEW row \in Rows, NEW added, Adds(row, added)
  PROVE  added \in [Pos -> Values]
<1>1. \A p \in Pos : mergedData[p] \in Values /\ epochData[row][p] \in Values
  BY DEF Typed
<1>2. \A p \in Pos : added[p] \in Values
  BY <1>1, AddType DEF Adds, Typed
<1>3. added = [p \in Pos |-> added[p]]
  BY DEF Adds
<1> HIDE DEF Values
<1> QED BY <1>2, <1>3

LEMMA MergeSlidingIs ==
  ASSUME Typed, MergeSliding
  PROVE  \E added \in [Pos -> Values] :
           /\ Adds(curEpochPos, added)
           /\ mergedData' \in [Pos -> Values]
           /\ \A p \in Pos : mergedData'[p] = Sub(added[p], epochData[DelEpochPos][p])
           /\ Finds(Compared, added, abnormalKeys')
           /\ DelEpochPos \in Rows
<1>1. PICK added : /\ Adds(curEpochPos, added)
                   /\ mergedData' = [p \in Pos |-> mergedData'[p]]
                   /\ \A p \in Pos : mergedData'[p] = Sub(added[p], epochData[DelEpochPos][p])
                   /\ Finds(Compared, added, abnormalKeys')
  BY Zenon DEF MergeSliding
<1>2. added \in [Pos -> Values]
  BY <1>1, AddsType DEF Typed
<1>3. DelEpochPos \in Rows
  BY ClearedRowType DEF Typed, MergeSliding, ClearedRow
<1>4. \A p \in Pos : mergedData'[p] \in Values
  <2>1. \A p \in Pos : added[p] \in Values /\ epochData[DelEpochPos][p] \in Values
    BY <1>2, <1>3 DEF Typed
  <2> QED BY <1>1, <2>1, AddType DEF Typed
<1>5. mergedData' \in [Pos -> Values]
  <2> HIDE DEF Values
  <2> QED BY <1>1, <1>4
<1> QED BY <1>1, <1>2, <1>3, <1>5

LEMMA WriteOne ==
  ASSUME epochData \in [Rows -> [Pos -> Values]], NEW r \in Rows, NEW p \in Pos, NEW v,
         epochData' = [epochData EXCEPT ![r][p] = v]
  PROVE  /\ epochData'[r][p] = v
         /\ \A s \in Rows, q \in Pos : s # r \/ q # p => epochData'[s][q] = epochData[s][q]
<1> HIDE DEF Values, Rows, Pos
<1> QED OBVIOUS

LEMMA WriteRow ==
  ASSUME epochData \in [Rows -> [Pos -> Values]], NEW r \in Rows, NEW row,
         epochData' = [epochData EXCEPT ![r] = row]
  PROVE  /\ epochData'[r] = row
         /\ \A s \in Rows : s # r => epochData'[s] = epochData[s]
<1> HIDE DEF Values, Rows, Pos
<1> QED OBVIOUS

LEMMA ZeroValue ==
  ASSUME query \in Programs
  PROVE  Add(Zero, Zero) = Zero /\ Sub(Zero, Zero) = Zero /\ ~Abnormal(Zero)
<1> USE QueryAssumption
<1>1. Add(Zero, Zero) = Zero /\ Sub(Zero, Zero) = Zero
  <2>1. PICK w \in {Width16, Width32} :
          /\ Add(Zero, Zero) = [i \in Lanes |-> (Zero[i] + Zero[i]) % w]
          /\ Sub(Zero, Zero) = [i \in Lanes |-> (Zero[i] - Zero[i]) % w]
    BY LaneByLane
  <2>2. Zero \in [Lanes -> {0}] /\ w \in Nat \ {0}
    BY ValueFacts
  <2>3. \A i \in Lanes : (Zero[i] + Zero[i]) % w = 0 /\ (Zero[i] - Zero[i]) % w = 0 /\ Zero[i] = 0
    BY <2>2
  <2>4. Zero = [i \in Lanes |-> 0]
    BY <2>2
  <2> QED BY <2>1, <2>3, <2>4
<1>2. ~Abnormal(Zero)
  <2>0. 0 % Width32 = 0
    BY Wrap
  <2>1. CASE query = "syn-flood"
    BY <2>0, <2>1, SynFloodValues DEF SynFlood!Val, SynFlood!Compared, SynFlood!Diff
  <2>2. CASE query = "completed-flow"
    BY <2>0, <2>2, CompletedFlowValues DEF CompletedFlow!Val, CompletedFlow!Compared, CompletedFlow!Diff
  <2>3. CASE query = "slowloris-attack"
    BY <2>3, SlowlorisValues DEF Slowloris!Val, Slowloris!Compared
  <2>4. CASE query \notin {"syn-flood", "completed-flow", "slowloris-attack"}
    BY <2>4 DEF Zero, Abnormal, Ddos!Val, Ddos!Compared
  <2> QED BY <2>1, <2>2, <2>3, <2>4
<1> QED BY <1>1, <1>2

(* What a comparison finds are keys, since a position that was never used  *)
(* adds up to zero.                                                        *)
LEMMA FindsType ==
  ASSUME Typed, UnusedClear, NEW P \in SUBSET Pos, NEW row \in Rows, NEW added, Adds(row, added),
         NEW K, Finds(P, added, K)
  PROVE  K \subseteq Keys
<1> SUFFICES ASSUME NEW k \in K PROVE k \in Keys
  OBVIOUS
<1>1. PICK p \in P : keys[p] = k /\ Abnormal(added[p])
  BY DEF Finds
<1>2. query \in Programs /\ keys[p] \in Keys \cup {NoKey}
  BY DEF Typed
<1>3. Unused(p) => added[p] = Zero
  BY <1>2, ZeroValue DEF UnusedClear, Adds
<1> QED BY <1>1, <1>2, <1>3, ZeroValue DEF Unused

LEMMA TypedStep ==
  ASSUME Typed, Structure, AnyStep, query' = query
  PROVE  Typed'
<1> USE QueryAssumption
<1>1. Values' = Values /\ Zero \in Values /\ Sample \subseteq Values /\ HotKeys \subseteq Keys
  BY QueryStays, ValueFacts DEF Typed
<1>2. CASE SwitchWin
  <2>1. counts' \in [Keys -> Values]
    BY <1>1, <1>2 DEF SwitchWin
  <2> QED BY <1>1, <1>2, <2>1 DEF SwitchWin, Typed, tableVars, clockVars, Rows
<1>3. CASE RecvKeys
  <2>1. unsent \in SUBSET Keys /\ InsKeys(unsent) /\ TableRight
    BY <1>3 DEF Typed, RecvKeys, Structure
  <2>2. /\ posOf' \in [Keys -> Pos \cup {NoPos}] /\ keys' \in [Pos -> Keys \cup {NoKey}]
        /\ valid' \subseteq Pos /\ pin' \subseteq Pos
        /\ \A k \in unsent : posOf'[k] \in Pos
    BY <1>3, <2>1, InsKeysRight DEF Typed, RecvKeys, InsKeys
  <2>3. requests' \subseteq [key : Keys, row : 0 .. NEPOCH_BUF - 1, pos : Pos]
    <3>1. curEpochPos \in 0 .. NEPOCH_BUF - 1
      BY RowType DEF Typed
    <3> QED BY <1>3, <2>1, <2>2, <3>1 DEF RecvKeys, Address
  <2> QED BY <1>1, <1>3, <2>2, <2>3 DEF RecvKeys, Typed, clockVars, Rows
<1>4. CASE SendRequests
  <2>1. epoch' \in Rows
    <3>1. epoch \in Rows /\ (sliding => epoch \in 0 .. NEPOCH_BUF - 1)
      BY DEF Typed, Rows
    <3>2. sliding => (epoch + 1) % NEPOCH_BUF \in 0 .. NEPOCH_BUF - 1
      <4> SUFFICES ASSUME sliding PROVE (epoch + 1) % NEPOCH_BUF \in 0 .. NEPOCH_BUF - 1
        OBVIOUS
      <4>1. epoch + 1 \in Int
        BY <3>1
      <4> QED BY <4>1, WrapType
    <3> QED BY <1>4, <3>1, <3>2 DEF SendRequests, Rows
  <2> QED BY <1>1, <1>4, <2>1 DEF SendRequests, Typed, tableVars, Rows
<1>5. CASE AnswerQuery
  <2>1. PICK q \in requests : /\ requests' = requests \ {q}
                              /\ epochData' = [epochData EXCEPT ![q.row][q.pos] = counts[q.key]]
    BY <1>5 DEF AnswerQuery
  <2>2. q.row \in Rows /\ q.pos \in Pos /\ q.key \in Keys
    BY QueryRow DEF Structure
  <2>3. epochData' \in [Rows -> [Pos -> Values]]
    <3>1. counts[q.key] \in Values /\ epochData \in [Rows -> [Pos -> Values]]
      BY <2>2 DEF Typed
    <3> QED BY <2>1, <2>2, <3>1, RowWrite
  <2>4. requests' \subseteq requests
    BY <2>1
  <2> QED BY <1>1, <1>5, <2>3, <2>4 DEF AnswerQuery, Typed, tableVars, clockVars, Rows
<1>6. CASE WriteHotKey
  <2>1. PICK k \in unsent \cap HotKeys : /\ unsent' = unsent \ {k}
                                         /\ epochData' = [epochData EXCEPT ![SwitchRow][posOf[k]] = counts[k]]
    BY <1>6 DEF WriteHotKey
  <2>2. SwitchRow \in Rows
    BY <1>6, SwitchRowIs DEF Typed, Structure, WriteHotKey
  <2>3. k \in Keys /\ posOf[k] \in Pos
    BY <1>1 DEF Structure, TableRight, Held, Typed
  <2>4. epochData' \in [Rows -> [Pos -> Values]]
    <3>1. counts[k] \in Values /\ epochData \in [Rows -> [Pos -> Values]]
      BY <2>3 DEF Typed
    <3> QED BY <2>1, <2>2, <2>3, <3>1, RowWrite
  <2>5. unsent' \subseteq Keys
    BY <2>1 DEF Typed
  <2> QED BY <1>1, <1>6, <2>4, <2>5 DEF WriteHotKey, Typed, tableVars, clockVars, Rows
<1>7. CASE RecvKeyVals
  <2>1. unsent \in SUBSET Keys /\ InsKeys(unsent) /\ TableRight
    BY <1>7 DEF Typed, RecvKeyVals, Structure
  <2>2. /\ posOf' \in [Keys -> Pos \cup {NoPos}] /\ keys' \in [Pos -> Keys \cup {NoKey}]
        /\ valid' \subseteq Pos /\ pin' \subseteq Pos
    BY <1>7, <2>1, InsKeysRight DEF Typed, RecvKeyVals, InsKeys
  <2>3. epochData' \in [Rows -> [Pos -> Values]]
    <3> DEFINE row == [p \in Pos |-> IF \E k \in unsent : posOf'[k] = p
                         THEN counts[CHOOSE k \in unsent : posOf'[k] = p] ELSE epochData[curEpochPos][p]]
    <3>1. row \in [Pos -> Values]
      BY <2>1 DEF Typed
    <3>2. epochData' = [epochData EXCEPT ![curEpochPos] = row]
      BY <1>7 DEF RecvKeyVals
    <3> HIDE DEF row
    <3> QED BY <3>1, <3>2 DEF Typed
  <2> QED BY <1>1, <1>7, <2>2, <2>3 DEF RecvKeyVals, Typed, clockVars, Rows
<1>8. CASE MergeSliding
  <2>1. PICK added \in [Pos -> Values] :
          /\ Adds(curEpochPos, added)
          /\ mergedData' \in [Pos -> Values]
          /\ Finds(Compared, added, abnormalKeys')
    BY <1>8, MergeSlidingIs
  <2>2. abnormalKeys' \subseteq Keys
    <3>1. Compared \subseteq Pos /\ UnusedClear /\ curEpochPos \in Rows
      BY DEF Compared, Structure, Typed
    <3> QED BY <2>1, <3>1, FindsType
  <2>3. posOf' \in [Keys -> Pos \cup {NoPos}]
    <3>1. \A k \in Keys : posOf'[k] \in {posOf[k], NoPos}
      BY <1>8 DEF MergeSliding
    <3>2. \A k \in Keys : posOf'[k] \in Pos \cup {NoPos}
      BY <3>1 DEF Typed
    <3>3. posOf' = [k \in Keys |-> posOf'[k]]
      BY <1>8 DEF MergeSliding
    <3> HIDE DEF Pos
    <3> QED BY <3>2, <3>3
  <2>4. valid' \subseteq Pos
    BY <1>8 DEF MergeSliding, Typed
  <2> QED BY <1>1, <1>8, <2>1, <2>2, <2>3, <2>4 DEF MergeSliding, Typed, clockVars, Rows
<1>9. CASE MergeTumbling
  <2>1. 0 \in Rows /\ Adds(0, mergedData')
    BY <1>9 DEF MergeTumbling, Rows
  <2>2. mergedData' \in [Pos -> Values]
    BY <2>1, AddsType
  <2>3. abnormalKeys' \subseteq Keys
    <3>1. valid \subseteq Pos /\ UnusedClear
      BY DEF Structure, Typed
    <3> QED BY <1>9, <2>1, <3>1, FindsType DEF MergeTumbling
  <2> QED BY <1>1, <1>9, <2>2, <2>3 DEF MergeTumbling, Typed, tableVars, clockVars, Rows
<1>10. CASE RecvDone
  <2>1. PICK clear \in [Pos -> {Zero}] : epochData' = [epochData EXCEPT ![ClearedRow] = clear]
    BY <1>10 DEF RecvDone
  <2>2. epochData' \in [Rows -> [Pos -> Values]]
    <3>1. clear \in [Pos -> Values]
      BY <1>1
    <3> HIDE DEF Values, Pos, Rows
    <3> QED BY <2>1, <3>1 DEF Typed
  <2>3. curEpoch' \in 0 .. NEpoch - 1
    <3>1. curEpoch + 1 \in Int /\ NEpoch \in Nat \ {0}
      BY DEF Typed
    <3>2. (curEpoch + 1) % NEpoch \in 0 .. NEpoch - 1
      BY <3>1, WrapType
    <3> QED BY <1>10, <3>2 DEF RecvDone
  <2>4. curEpochPos' \in Rows
    <3>1. CASE sliding
      <4>1. curEpochPos + 1 \in Int
        BY RowType DEF Typed
      <4> QED BY <1>10, <3>1, <4>1, WrapType DEF RecvDone, NextEpochPos, Rows
    <3>2. CASE ~sliding
      BY <1>10, <3>2 DEF RecvDone, NextEpochPos, Rows
    <3> QED BY <3>1, <3>2
  <2>5. counts' \in [Keys -> Values]
    BY <1>1, <1>10 DEF RecvDone
  <2>6. past' \in Seq([Keys -> Values])
    BY <1>10, RememberedType DEF RecvDone
  <2>7. Rows' = Rows
    BY <1>10 DEF RecvDone, Rows
  <2> QED BY <1>1, <1>10, <2>2, <2>3, <2>4, <2>5, <2>6, <2>7 DEF RecvDone, Typed, tableVars
<1> QED BY <1>2, <1>3, <1>4, <1>5, <1>6, <1>7, <1>8, <1>9, <1>10 DEF AnyStep
-----------------------------------------------------------------------------
(* The table, keys and valid agree.                                        *)
LEMMA TableStep ==
  ASSUME Typed, Structure, AnyStep, query' = query
  PROVE  TableRight'
<1>1. HotKeys' = HotKeys /\ HotKeys \subseteq Keys /\ TableRight
  BY QueryStays, ValueFacts DEF Typed, Structure
<1>2. CASE UNCHANGED <<sliding, tableVars>>
  BY <1>1, <1>2 DEF TableRight, Held, tableVars
<1>3. CASE RecvKeys
  <2>1. unsent \in SUBSET Keys /\ InsKeys(unsent) /\ sliding' = sliding
    BY <1>3 DEF Typed, RecvKeys
  <2> QED BY <1>1, <2>1, InsKeysRight
<1>4. CASE RecvKeyVals
  <2>1. unsent \in SUBSET Keys /\ InsKeys(unsent) /\ sliding' = sliding
    BY <1>4 DEF Typed, RecvKeyVals
  <2> QED BY <1>1, <2>1, InsKeysRight
<1>5. CASE MergeSliding
  <2>1. /\ sliding /\ sliding' /\ valid' \subseteq valid /\ keys' = keys /\ pin' = pin
        /\ \A p \in valid : p \notin valid' => p \in Deletable
        /\ \A k \in Keys : posOf'[k] = IF \E p \in valid \ valid' : keys[p] = k
                                       THEN NoPos ELSE posOf[k]
    BY <1>5 DEF MergeSliding
  <2>2. /\ \A k \in Keys : Held(k) => posOf[k] \in valid /\ keys[posOf[k]] = k
        /\ \A p \in valid : keys[p] \in Keys /\ posOf[keys[p]] = p
        /\ \A k \in HotKeys : Held(k) /\ posOf[k] \in pin
    BY <1>1, <2>1 DEF TableRight
  <2>3. \A k \in Keys : Held(k)' => posOf'[k] \in valid' /\ keys'[posOf'[k]] = k
    BY <2>1, <2>2 DEF Held
  <2>4. \A p \in valid' : keys'[p] \in Keys /\ posOf'[keys'[p]] = p
    BY <2>1, <2>2
  <2>5. ASSUME NEW k \in HotKeys PROVE Held(k)' /\ posOf'[k] \in pin'
    <3>1. Deletable = valid \ pin
      BY DEF HotKeys, Deletable
    <3>2. \A p \in valid \ valid' : keys[p] # k
      BY <2>1, <2>2, <3>1
    <3>3. posOf'[k] = posOf[k]
      BY <1>1, <2>1, <3>2
    <3> QED BY <2>1, <2>2, <3>3 DEF Held
  <2> QED BY <1>1, <2>1, <2>3, <2>4, <2>5 DEF TableRight
<1> QED BY <1>2, <1>3, <1>4, <1>5 DEF AnyStep, SwitchWin, SendRequests, AnswerQuery,
           WriteHotKey, MergeTumbling, RecvDone

LEMMA ClockStep ==
  ASSUME Typed, Structure, AnyStep, query' = query
  PROVE  ClockRight'
<1>1. ClockRight
  BY DEF Structure
<1>2. CASE UNCHANGED <<sliding, clockVars>> /\ (Started' <=> Started)
  BY <1>1, <1>2 DEF ClockRight, clockVars
<1>3. CASE SendRequests
  BY <1>1, <1>3 DEF SendRequests, ClockRight, Started
<1>4. CASE RecvDone
  BY <1>1, <1>4 DEF RecvDone, ClockRight, Started, NextEpochPos
<1> QED BY <1>2, <1>3, <1>4 DEF AnyStep, SwitchWin, RecvKeys, AnswerQuery, WriteHotKey,
           RecvKeyVals, MergeSliding, MergeTumbling, Started

LEMMA QueriesStep ==
  ASSUME Typed, Structure, AnyStep, query' = query
  PROVE  QueriesRight'
<1>1. QueriesRight
  BY DEF Structure
<1>2. CASE RecvKeys
  <2>1. unsent \in SUBSET Keys /\ InsKeys(unsent) /\ sliding' = sliding /\ TableRight
    BY <1>2 DEF Typed, RecvKeys, Structure
  <2>2. \A k \in unsent : posOf'[k] \in Pos
    BY <2>1, InsKeysRight
  <2>3. NoPos \notin Pos
    BY QueryAssumption DEF Pos
  <2>4. \A q \in requests' : /\ q.key \in unsent /\ q.pos = posOf'[q.key] /\ q.row = curEpochPos
                             /\ posOf'[q.key] # NoPos
    BY <1>2, <2>2, <2>3 DEF RecvKeys, Address
  <2>5. \A k \in unsent' : k \notin unsent
    BY <1>2 DEF RecvKeys
  <2> QED BY <1>2, <2>4, <2>5 DEF QueriesRight, RecvKeys, Asked, Held, clockVars
<1>3. CASE AnswerQuery
  <2>1. requests' \subseteq requests
    BY <1>3 DEF AnswerQuery
  <2> QED BY <1>1, <1>3, <2>1 DEF QueriesRight, AnswerQuery, Asked, Held, tableVars, clockVars
<1>4. CASE WriteHotKey
  <2>1. unsent' \subseteq unsent
    BY <1>4 DEF WriteHotKey
  <2> QED BY <1>1, <1>4, <2>1 DEF QueriesRight, WriteHotKey, Asked, Held, tableVars, clockVars
<1>5. CASE SendRequests
  BY <1>1, <1>5 DEF QueriesRight, SendRequests, Asked, Held, tableVars
<1>6. CASE SwitchWin \/ RecvKeyVals \/ MergeSliding \/ MergeTumbling \/ RecvDone
  <2>1. requests = {} /\ requests' = {}
    BY <1>1, <1>6 DEF QueriesRight, SwitchWin, RecvKeyVals, MergeSliding, MergeTumbling, RecvDone
  <2> QED BY <2>1 DEF QueriesRight, Asked
<1> QED BY <1>2, <1>3, <1>4, <1>5, <1>6 DEF AnyStep

LEMMA ToComeStep ==
  ASSUME Typed, Structure, AnyStep, query' = query
  PROVE  ToCome'
<1>1. Zero' = Zero /\ ToCome
  BY QueryStays DEF Structure
<1>2. CASE SwitchWin
  BY <1>1, <1>2 DEF ToCome, SwitchWin
<1>3. ASSUME RecvKeys \/ RecvKeyVals
      PROVE  \A k \in Keys : Held(k) \/ k \in unsent => Held(k)'
  <2>1. unsent \in SUBSET Keys /\ InsKeys(unsent) /\ sliding' = sliding /\ TableRight
    BY <1>3 DEF Typed, RecvKeys, RecvKeyVals, Structure
  <2>2. /\ \A k \in Keys : Held(k) \/ k \notin unsent => posOf'[k] = posOf[k]
        /\ \A k \in unsent : posOf'[k] \in Pos
    BY <2>1, InsKeysRight
  <2> QED BY <2>2, QueryAssumption DEF Held, Pos
<1>4. CASE RecvKeys
  <2>1. \A k \in unsent' : counts'[k] # Zero
    BY <1>4 DEF RecvKeys
  <2>2. \A k \in Keys : Held(k)' \/ k \in unsent' \/ counts'[k] = Zero
    BY <1>3, <1>4 DEF RecvKeys
  <2> QED BY <1>1, <1>4, <2>1, <2>2 DEF ToCome, RecvKeys
<1>5. CASE RecvKeyVals
  BY <1>1, <1>3, <1>5 DEF ToCome, RecvKeyVals
<1>6. CASE SendRequests \/ AnswerQuery
  BY <1>1, <1>6 DEF ToCome, SendRequests, AnswerQuery, Held, tableVars
<1>7. CASE WriteHotKey
  <2>1. \A k \in HotKeys : Held(k)
    BY DEF Structure, TableRight
  <2> QED BY <1>1, <1>7, <2>1 DEF ToCome, WriteHotKey, Held, tableVars
<1>8. CASE MergeSliding \/ MergeTumbling
  BY <1>1, <1>8 DEF ToCome, MergeSliding, MergeTumbling
<1>9. CASE RecvDone
  <2>1. counts' = [k \in Keys |-> Zero]
    BY <1>9 DEF RecvDone
  <2> QED BY <1>1, <1>9, <2>1 DEF ToCome, RecvDone
<1> QED BY <1>2, <1>4, <1>5, <1>6, <1>7, <1>8, <1>9 DEF AnyStep

LEMMA UnusedStep ==
  ASSUME Typed, Structure, AnyStep, query' = query
  PROVE  UnusedClear'
<1>1. /\ Zero' = Zero /\ UnusedClear /\ query \in Programs
      /\ epochData \in [Rows -> [Pos -> Values]]
      /\ Rows' = Rows
  BY QueryStays DEF Structure, Typed, AnyStep, SwitchWin, RecvKeys, SendRequests, AnswerQuery,
     WriteHotKey, RecvKeyVals, MergeSliding, MergeTumbling, RecvDone, Rows
<1>2. CASE SwitchWin \/ SendRequests
  BY <1>1, <1>2 DEF UnusedClear, Unused, SwitchWin, SendRequests, tableVars
<1>3. ASSUME InsKeys(unsent), NEW p \in Pos
      PROVE  /\ Unused(p)' => Unused(p)
             /\ Unused(p)' => \A k \in unsent : posOf'[k] # p
  <2>1. keys'[p] = IF \E k \in unsent : posOf'[k] = p
                   THEN CHOOSE k \in unsent : posOf'[k] = p ELSE keys[p]
    BY <1>3 DEF InsKeys
  <2>2. unsent \subseteq Keys
    BY DEF Typed
  <2> HIDE DEF Pos
  <2>3. (\E k \in unsent : posOf'[k] = p) => keys'[p] \in Keys
    BY <2>1, <2>2
  <2> QED BY <2>1, <2>3, QueryAssumption DEF Unused
<1>4. CASE RecvKeys
  BY <1>1, <1>3, <1>4 DEF UnusedClear, RecvKeys
<1>5. ASSUME NEW k \in Keys, Held(k)
      PROVE  posOf[k] \in Pos /\ ~Unused(posOf[k])
  BY <1>5, QueryAssumption DEF Structure, TableRight, Held, Unused, Typed
<1>6. CASE AnswerQuery
  <2>1. PICK q \in requests : epochData' = [epochData EXCEPT ![q.row][q.pos] = counts[q.key]]
    BY <1>6 DEF AnswerQuery
  <2>2. q.row \in Rows /\ q.pos \in Pos /\ ~Unused(q.pos)
    BY <1>5, QueryRow DEF Structure, QueriesRight
  <2>3. \A r \in Rows, p \in Pos : p # q.pos => epochData'[r][p] = epochData[r][p]
    BY <1>1, <2>1, <2>2, WriteOne
  <2> QED BY <1>1, <1>6, <2>2, <2>3 DEF UnusedClear, Unused, AnswerQuery, tableVars
<1>7. CASE WriteHotKey
  <2>1. PICK k \in unsent \cap HotKeys : epochData' = [epochData EXCEPT ![SwitchRow][posOf[k]] = counts[k]]
    BY <1>7 DEF WriteHotKey
  <2>2. SwitchRow \in Rows
    BY <1>7, SwitchRowIs DEF Typed, Structure, WriteHotKey
  <2>3. posOf[k] \in Pos /\ ~Unused(posOf[k])
    <3> k \in Keys /\ Held(k)
      BY DEF Typed, Structure, TableRight
    <3> QED BY <1>5
  <2>4. \A r \in Rows, p \in Pos : p # posOf[k] => epochData'[r][p] = epochData[r][p]
    BY <1>1, <2>1, <2>2, <2>3, WriteOne
  <2> QED BY <1>1, <1>7, <2>3, <2>4 DEF UnusedClear, Unused, WriteHotKey, tableVars
<1>8. CASE RecvKeyVals
  <2> DEFINE row == [p \in Pos |-> IF \E k \in unsent : posOf'[k] = p
                       THEN counts[CHOOSE k \in unsent : posOf'[k] = p] ELSE epochData[curEpochPos][p]]
  <2>1. epochData' = [epochData EXCEPT ![curEpochPos] = row] /\ curEpochPos \in Rows
    BY <1>8 DEF RecvKeyVals, Typed
  <2>2. \A p \in Pos : (\A k \in unsent : posOf'[k] # p) => row[p] = epochData[curEpochPos][p]
    OBVIOUS
  <2> HIDE DEF row
  <2>3. epochData'[curEpochPos] = row /\ \A r \in Rows : r # curEpochPos => epochData'[r] = epochData[r]
    BY <1>1, <2>1, WriteRow
  <2>4. \A r \in Rows, p \in Pos : (\A k \in unsent : posOf'[k] # p) => epochData'[r][p] = epochData[r][p]
    BY <2>2, <2>3
  <2>5. \A p \in Pos : Unused(p)' => Unused(p) /\ \A k \in unsent : posOf'[k] # p
    BY <1>3, <1>8 DEF RecvKeyVals
  <2> QED BY <1>1, <1>8, <2>4, <2>5 DEF UnusedClear, RecvKeyVals
<1>9. ASSUME NEW row \in Rows, NEW added, Adds(row, added), NEW p \in Pos, Unused(p)
      PROVE  added[p] = Zero
  BY <1>1, <1>9, ZeroValue DEF Adds, UnusedClear
<1>10. CASE MergeSliding
  <2>1. PICK added \in [Pos -> Values] :
          /\ Adds(curEpochPos, added)
          /\ \A p \in Pos : mergedData'[p] = Sub(added[p], epochData[DelEpochPos][p])
          /\ DelEpochPos \in Rows
    BY <1>10, MergeSlidingIs
  <2>2. \A p \in Pos : Unused(p) => mergedData'[p] = Zero
    BY <1>1, <1>9, <2>1, ZeroValue DEF UnusedClear, Typed
  <2> QED BY <1>1, <1>10, <2>2 DEF UnusedClear, Unused, MergeSliding
<1>11. CASE MergeTumbling
  <2>1. 0 \in Rows /\ Adds(0, mergedData')
    BY <1>11 DEF MergeTumbling, Rows
  <2>2. \A p \in Pos : Unused(p) => mergedData'[p] = Zero
    BY <1>9, <2>1
  <2> QED BY <1>1, <1>11, <2>2 DEF UnusedClear, Unused, MergeTumbling, tableVars
<1>12. CASE RecvDone
  <2>1. PICK clear \in [Pos -> {Zero}] : epochData' = [epochData EXCEPT ![ClearedRow] = clear]
    BY <1>12 DEF RecvDone
  <2>2. ClearedRow \in Rows
    BY ClearedRowType DEF Typed
  <2>3. epochData'[ClearedRow] = clear /\ \A r \in Rows : r # ClearedRow => epochData'[r] = epochData[r]
    BY <1>1, <2>1, <2>2, WriteRow
  <2>4. \A p \in Pos : clear[p] = Zero
    OBVIOUS
  <2>5. \A r \in Rows, p \in Pos : epochData'[r][p] \in {Zero, epochData[r][p]}
    BY <2>3, <2>4
  <2> QED BY <1>1, <1>12, <2>5 DEF UnusedClear, Unused, RecvDone, tableVars
<1> QED BY <1>2, <1>4, <1>6, <1>7, <1>8, <1>10, <1>11, <1>12 DEF AnyStep

LEMMA StructureInit ==
  ASSUME query \in Programs, Construct, InsertInput(HotKeys)
  PROVE  Structure
<1>1. TableRight
  BY InsertInputRight DEF Construct
<1>2. ClockRight /\ QueriesRight
  BY DEF Construct, ClockRight, Started, QueriesRight, Asked
<1>3. ToCome
  BY DEF Construct, ToCome
<1>4. UnusedClear
  BY DEF Construct, UnusedClear
<1> QED BY <1>1, <1>2, <1>3, <1>4 DEF Structure

LEMMA StructureStep ==
  ASSUME Typed, Structure, AnyStep, query' = query
  PROVE  Structure'
  BY TableStep, ClockStep, QueriesStep, ToComeStep, UnusedStep DEF Structure
-----------------------------------------------------------------------------
(* What MCQueries says of the program that runs, from the invariant.        *)
LEMMA SynFloodSays ==
  ASSUME query = "syn-flood", Typed
  PROVE  /\ SynFlood!Host!TypeOK
         /\ Structure => SynFlood!Host!AddressesRight
<1>1. Zero = SynFlood!Val
  BY SynFloodValues
<1>2. SynFlood!Host!TypeOK
  BY <1>1 DEF Typed, SynFlood!Host!TypeOK, SynFlood!Host!Query, SynFlood!Host!Values,
     SynFlood!Host!Pos, SynFlood!Host!Rows, Pos, Rows, Values, Lanes
<1>3. Structure => SynFlood!Host!AddressesRight
  BY SwitchRowIs DEF Structure, QueriesRight, SynFlood!Host!AddressesRight,
     SynFlood!Host!SwitchRow, SwitchRow
<1> QED BY <1>2, <1>3

LEMMA CompletedFlowSays ==
  ASSUME query = "completed-flow", Typed
  PROVE  /\ CompletedFlow!Host!TypeOK
         /\ Structure => CompletedFlow!Host!AddressesRight
<1>1. Zero = CompletedFlow!Val
  BY CompletedFlowValues
<1>2. CompletedFlow!Host!TypeOK
  BY <1>1 DEF Typed, CompletedFlow!Host!TypeOK, CompletedFlow!Host!Query,
     CompletedFlow!Host!Values, CompletedFlow!Host!Pos, CompletedFlow!Host!Rows, Pos,
     Rows, Values, Lanes
<1>3. Structure => CompletedFlow!Host!AddressesRight
  BY SwitchRowIs DEF Structure, QueriesRight, CompletedFlow!Host!AddressesRight,
     CompletedFlow!Host!SwitchRow, SwitchRow
<1> QED BY <1>2, <1>3

LEMMA SlowlorisSays ==
  ASSUME query = "slowloris-attack", Typed
  PROVE  /\ Slowloris!Host!TypeOK
         /\ Structure => Slowloris!Host!AddressesRight
<1>1. Zero = Slowloris!Val
  BY SlowlorisValues
<1>2. Slowloris!Host!TypeOK
  BY <1>1 DEF Typed, Slowloris!Host!TypeOK, Slowloris!Host!Query, Slowloris!Host!Values,
     Slowloris!Host!Pos, Slowloris!Host!Rows, Pos, Rows, Values, Lanes
<1>3. Structure => Slowloris!Host!AddressesRight
  BY SwitchRowIs DEF Structure, QueriesRight, Slowloris!Host!AddressesRight,
     Slowloris!Host!SwitchRow, SwitchRow
<1> QED BY <1>2, <1>3

LEMMA SuperspreaderSays ==
  ASSUME query = "superspreader", Typed
  PROVE  /\ Superspreader!Host!TypeOK
         /\ Structure => Superspreader!Host!AddressesRight
<1>1. Zero = Superspreader!Val
  BY SuperspreaderValues
<1>2. Superspreader!Host!TypeOK
  BY <1>1 DEF Typed, Superspreader!Host!TypeOK, Superspreader!Host!Query,
     Superspreader!Host!Values, Superspreader!Host!Pos, Superspreader!Host!Rows, Pos,
     Rows, Values, Lanes
<1>3. Structure => Superspreader!Host!AddressesRight
  BY SwitchRowIs DEF Structure, QueriesRight, Superspreader!Host!AddressesRight,
     Superspreader!Host!SwitchRow, SwitchRow
<1> QED BY <1>2, <1>3

LEMMA DdosSays ==
  ASSUME query = "ddos", Typed
  PROVE  /\ Ddos!Host!TypeOK
         /\ Structure => Ddos!Host!AddressesRight
<1>1. Zero = Ddos!Val
  BY DdosValues
<1>2. Ddos!Host!TypeOK
  BY <1>1 DEF Typed, Ddos!Host!TypeOK, Ddos!Host!Query, Ddos!Host!Values, Ddos!Host!Pos,
     Ddos!Host!Rows, Pos, Rows, Values, Lanes
<1>3. Structure => Ddos!Host!AddressesRight
  BY SwitchRowIs DEF Structure, QueriesRight, Ddos!Host!AddressesRight,
     Ddos!Host!SwitchRow, SwitchRow
<1> QED BY <1>2, <1>3

LEMMA PortScanSays ==
  ASSUME query = "port-scan", Typed
  PROVE  /\ PortScan!Host!TypeOK
         /\ Structure => PortScan!Host!AddressesRight
<1>1. Zero = PortScan!Val
  BY PortScanValues
<1>2. PortScan!Host!TypeOK
  BY <1>1 DEF Typed, PortScan!Host!TypeOK, PortScan!Host!Query, PortScan!Host!Values,
     PortScan!Host!Pos, PortScan!Host!Rows, Pos, Rows, Values, Lanes
<1>3. Structure => PortScan!Host!AddressesRight
  BY SwitchRowIs DEF Structure, QueriesRight, PortScan!Host!AddressesRight,
     PortScan!Host!SwitchRow, SwitchRow
<1> QED BY <1>2, <1>3

LEMMA SshBruteSays ==
  ASSUME query = "ssh-brute", Typed
  PROVE  /\ SshBrute!Host!TypeOK
         /\ Structure => SshBrute!Host!AddressesRight
<1>1. Zero = SshBrute!Val
  BY SshBruteValues
<1>2. SshBrute!Host!TypeOK
  BY <1>1 DEF Typed, SshBrute!Host!TypeOK, SshBrute!Host!Query, SshBrute!Host!Values,
     SshBrute!Host!Pos, SshBrute!Host!Rows, Pos, Rows, Values, Lanes
<1>3. Structure => SshBrute!Host!AddressesRight
  BY SwitchRowIs DEF Structure, QueriesRight, SshBrute!Host!AddressesRight,
     SshBrute!Host!SwitchRow, SwitchRow
<1> QED BY <1>2, <1>3

LEMMA InvariantStep ==
  ASSUME Typed /\ Structure, [Next]_vars
  PROVE  (Typed /\ Structure)'
<1>1. CASE Next
  BY <1>1, NextForm, TypedStep, StructureStep
<1>2. CASE UNCHANGED vars
  <2>1. UNCHANGED <<query, sliding, pc, posOf, keys, valid, pin, epochData, mergedData, abnormalKeys,
                    curEpoch, curEpochPos, epoch, requests, unsent, counts, past>>
    BY <1>2 DEF vars, queryVars, tableVars, clockVars
  <2>2. Zero' = Zero /\ Lanes' = Lanes /\ Values' = Values /\ HotKeys' = HotKeys
    BY <2>1, QueryStays
  <2>3. Typed'
    BY <2>1, <2>2 DEF Typed, Rows
  <2>4. TableRight' /\ ClockRight' /\ QueriesRight'
    BY <2>1, <2>2 DEF Structure, TableRight, Held, ClockRight, Started, QueriesRight, Asked
  <2>5. ToCome' /\ UnusedClear'
    BY <2>1, <2>2 DEF Structure, ToCome, UnusedClear, Unused, Held, Rows
  <2> QED BY <2>3, <2>4, <2>5 DEF Structure
<1> QED BY <1>1, <1>2

LEMMA InvariantHolds == Spec => [](Typed /\ Structure)
<1>1. Init => Typed /\ Structure
  BY InitForm, TypedInit, StructureInit
<1>2. (Typed /\ Structure) /\ [Next]_vars => (Typed /\ Structure)'
  BY InvariantStep
<1> QED BY <1>1, <1>2, PTL DEF Spec

(* The state of every program stays well-formed: no index leaves its array, *)
(* no lane its type, and what a comparison finds is a key, also in a build *)
(* that looks at positions where none is.                                  *)
THEOREM QueriesTyped == Spec => []TypeOK
<1>1. Typed => TypeOK
  BY SynFloodSays, CompletedFlowSays, SlowlorisSays, SuperspreaderSays, DdosSays, PortScanSays,
     SshBruteSays DEF TypeOK
<1> QED BY <1>1, InvariantHolds, PTL

(* The switch writes a value where the controller looks for it: while a    *)
(* query is under way its key keeps its position, and the row that the     *)
(* switch adds to an address that it was given once is the row the         *)
(* controller merges next, though each counts its rows alone.              *)
THEOREM QueriesAddressed == Spec => []AddressesRight
<1>1. Typed /\ Structure => AddressesRight
  BY SynFloodSays, CompletedFlowSays, SlowlorisSays, SuperspreaderSays, DdosSays, PortScanSays,
     SshBruteSays DEF AddressesRight
<1> QED BY <1>1, InvariantHolds, PTL
-----------------------------------------------------------------------------
(* In lanes wide enough, a sum is a sum, and the comparison of the program *)
(* is the one that its query asks for.                                     *)
LEMMA FitsIn ==
  ASSUME query \in Programs, Fits, NEW x \in Values, NEW y \in Values
  PROVE  /\ (\A i \in Lanes : x[i] + y[i] < Width16) => Add(x, y) = [i \in Lanes |-> x[i] + y[i]]
         /\ (\A i \in Lanes : y[i] <= x[i] /\ x[i] < Width16) => Sub(x, y) = [i \in Lanes |-> x[i] - y[i]]
<1> USE QueryAssumption
<1>1. PICK w \in {Width16, Width32} :
        /\ Add(x, y) = [i \in Lanes |-> (x[i] + y[i]) % w]
        /\ Sub(x, y) = [i \in Lanes |-> (x[i] - y[i]) % w]
  BY LaneByLane
<1>2. w \in Nat \ {0} /\ Width16 <= w
  BY DEF Fits
<1>3. \A n \in Nat : n < Width16 => n % w = n
  <2> TAKE n \in Nat
  <2> HAVE n < Width16
  <2> n \in 0 .. w - 1
    BY <1>2
  <2> QED BY <1>2, Wrap
<1>4. \A i \in Lanes : x[i] \in Nat /\ y[i] \in Nat
  BY DEF Values
<1>5. ASSUME \A i \in Lanes : x[i] + y[i] < Width16
      PROVE  Add(x, y) = [i \in Lanes |-> x[i] + y[i]]
  <2>1. \A i \in Lanes : (x[i] + y[i]) % w = x[i] + y[i]
    BY <1>3, <1>4, <1>5
  <2> QED BY <1>1, <2>1
<1>6. ASSUME \A i \in Lanes : y[i] <= x[i] /\ x[i] < Width16
      PROVE  Sub(x, y) = [i \in Lanes |-> x[i] - y[i]]
  <2>1. \A i \in Lanes : (x[i] - y[i]) % w = x[i] - y[i]
    BY <1>3, <1>4, <1>6
  <2> QED BY <1>1, <2>1
<1> QED BY <1>5, <1>6

LEMMA Unsigned ==
  ASSUME Fits, NEW d \in Int, - Width16 < d, d < 2 * Width16
  PROVE  d % Width32 >= Threshold <=> d >= Threshold \/ d < 0
<1> USE QueryAssumption DEF Fits
<1>1. CASE d >= 0
  <2> d \in 0 .. Width32 - 1
    BY <1>1
  <2>1. d % Width32 = d
    BY Wrap
  <2> QED BY <1>1, <2>1
<1>2. CASE d < 0
  <2> DEFINE e == d + Width32
  <2>1. e \in 0 .. Width32 - 1 /\ e >= Threshold
    BY <1>2
  <2>2. d % Width32 = e
    BY <1>2, <2>1
  <2> QED BY <1>2, <2>1, <2>2
<1> QED BY <1>1, <1>2

LEMMA AbnormalIs ==
  ASSUME query \in Programs, Fits, NEW v \in Values, \A i \in Lanes : v[i] < Width16
  PROVE  Abnormal(v) <=> Suspect(v)
<1> USE QueryAssumption
<1>1. CASE query = "syn-flood"
  <2>1. Lanes = 1 .. 3
    BY <1>1, SynFloodValues DEF SynFlood!Val, Lanes
  <2>2. v[1] \in Nat /\ v[2] \in Nat /\ v[3] \in Nat /\ v[1] < Width16 /\ v[2] < Width16 /\ v[3] < Width16
    BY <2>1 DEF Values
  <2> DEFINE d == v[1] + v[2] - v[3]
  <2>3. d \in Int /\ - Width16 < d /\ d < 2 * Width16
    BY <2>2
  <2> HIDE DEF d
  <2>4. d % Width32 >= Threshold <=> d >= Threshold \/ d < 0
    BY <2>3, Unsigned
  <2> QED BY <1>1, <2>4, SynFloodValues, Zenon DEF d, SynFlood!Compared, SynFlood!FloodedOrNegative,
             SynFlood!Flooded, SynFlood!Diff
<1>2. CASE query = "completed-flow"
  <2>1. Lanes = 1 .. 2
    BY <1>2, CompletedFlowValues DEF CompletedFlow!Val, Lanes
  <2>2. v[1] \in Nat /\ v[2] \in Nat /\ v[1] < Width16 /\ v[2] < Width16
    BY <2>1 DEF Values
  <2> DEFINE d == v[1] - v[2]
  <2>3. d \in Int /\ - Width16 < d /\ d < 2 * Width16
    BY <2>2
  <2> HIDE DEF d
  <2>4. d % Width32 >= Threshold <=> d >= Threshold \/ d < 0
    BY <2>3, Unsigned
  <2> QED BY <1>2, <2>4, CompletedFlowValues, Zenon DEF d, CompletedFlow!Compared,
             CompletedFlow!UnfinishedOrNegative, CompletedFlow!Unfinished, CompletedFlow!Diff
<1>3. CASE query = "slowloris-attack"
  <2>1. Lanes = 1 .. 2
    BY <1>3, SlowlorisValues DEF Slowloris!Val, Lanes
  <2>2. v[2] \in 0 .. Width16 - 1
    BY <2>1 DEF Values
  <2>3. v[2] % Width16 = v[2]
    BY <2>2, Wrap
  <2> QED BY <1>3, <2>3, SlowlorisValues, Zenon DEF Slowloris!Compared, Slowloris!Slow
<1>4. CASE query \notin {"syn-flood", "completed-flow", "slowloris-attack"}
  BY <1>4 DEF Abnormal, Suspect, Ddos!Compared, Ddos!Attacked
<1> QED BY <1>1, <1>2, <1>3, <1>4

-----------------------------------------------------------------------------
(* The sum of a lane over a sequence of sub-windows.                       *)
LEMMA LaneSumEmpty ==
  ASSUME NEW k \in Keys, NEW i \in Lanes
  PROVE  LaneSum(<<>>, k, i) = 0
<1> DEFINE g == [j \in 1 .. Len(<<>>) |-> <<>>[j][k][i]]
<1>1. 1 .. Len(<<>>) = {}
  OBVIOUS
<1>2. IsFiniteSet(1 .. Len(<<>>)) /\ g \in [1 .. Len(<<>>) -> Int] /\ \A j \in 1 .. Len(<<>>) : g[j] = 0
  BY <1>1, FS_EmptySet
<1> HIDE DEF g
<1>3. Total(g) = 0
  BY <1>2, TotalOfZeros
<1> QED BY <1>3 DEF LaneSum, g

LEMMA LaneSumAppend ==
  ASSUME query \in Programs, NEW s \in Seq([Keys -> Values]), NEW c \in [Keys -> Values],
         NEW k \in Keys, NEW i \in Lanes
  PROVE  LaneSum(Append(s, c), k, i) = LaneSum(s, k, i) + c[k][i]
<1> DEFINE n == Len(s)
           t == Append(s, c)
           g == [j \in 1 .. Len(s) |-> s[j][k][i]]
           h == [j \in 1 .. Len(t) |-> t[j][k][i]]
<1>1. t \in Seq([Keys -> Values])
  <2> HIDE DEF Values
  <2> QED OBVIOUS
<1>2. n \in Nat /\ Len(t) = n + 1
  OBVIOUS
<1>3. t[n + 1] = c /\ \A j \in 1 .. n : t[j] = s[j]
  OBVIOUS
<1>4. h \in [1 .. Len(t) -> Nat] /\ IsFiniteSet(1 .. Len(t))
  <2> HIDE DEF t
  <2> QED BY <1>1, LaneSumType
<1>5. Restrict(h, 1 .. Len(t) \ {n + 1}) = g
  <2>1. 1 .. Len(t) \ {n + 1} = 1 .. n
    BY <1>2
  <2>2. \A j \in 1 .. n : h[j] = g[j]
    BY <1>2, <1>3
  <2>3. g = [j \in 1 .. n |-> g[j]]
    OBVIOUS
  <2> HIDE DEF g, h
  <2> QED BY <2>1, <2>2, <2>3 DEF Restrict
<1>6. n + 1 \in 1 .. Len(t) /\ h[n + 1] = c[k][i]
  BY <1>2, <1>3
<1> HIDE DEF g, h, n, t
<1>7. h \in [1 .. Len(t) -> Int]
  BY <1>4
<1>8. Total(h) = h[n + 1] + Total(Restrict(h, 1 .. Len(t) \ {n + 1})) /\ Total(h) \in Int
  BY <1>4, <1>6, <1>7, TakeOne
<1>9. Total(h) = c[k][i] + Total(g)
  BY <1>5, <1>6, <1>8
<1>10. LaneSum(s, k, i) \in Nat /\ c[k][i] \in Nat
  BY LaneSumType DEF Values
<1>11. Total(g) = LaneSum(s, k, i) /\ Total(h) = LaneSum(Append(s, c), k, i)
  BY DEF LaneSum, g, h, t
<1> QED BY <1>9, <1>10, <1>11

LEMMA LaneSumTail ==
  ASSUME query \in Programs, NEW s \in Seq([Keys -> Values]), s # <<>>, NEW k \in Keys, NEW i \in Lanes
  PROVE  /\ LaneSum(s, k, i) = s[1][k][i] + LaneSum(Tail(s), k, i)
         /\ s[1][k][i] \in Nat
<1> DEFINE n == Len(s)
           t == Tail(s)
           g == [j \in 1 .. Len(s) |-> s[j][k][i]]
           h == [j \in 1 .. Len(t) |-> t[j][k][i]]
           S == 1 .. Len(s) \ {1}
           r == Restrict(g, S)
           b == [j \in 1 .. Len(t) |-> j + 1]
<1>1. t \in Seq([Keys -> Values])
  <2> HIDE DEF Values
  <2> QED OBVIOUS
<1>2. n \in Nat \ {0} /\ Len(t) = n - 1 /\ n = Len(s)
  <2>1. Len(s) \in Nat
    OBVIOUS
  <2>2. Len(s) # 0
    OBVIOUS
  <2>3. Len(t) = Len(s) - 1
    OBVIOUS
  <2> QED BY <2>1, <2>2, <2>3
<1>3. \A j \in 1 .. Len(t) : t[j] = s[j + 1]
  OBVIOUS
<1>4. g \in [1 .. Len(s) -> Nat] /\ IsFiniteSet(1 .. Len(s))
  BY LaneSumType
<1>5. h \in [1 .. Len(t) -> Nat] /\ IsFiniteSet(1 .. Len(t))
  <2> HIDE DEF t
  <2> QED BY <1>1, LaneSumType
<1>6. Renames(b, h, 1 .. Len(t), r, S)
  <2>1. b \in [1 .. Len(t) -> S]
    BY <1>2
  <2>2. \A j, l \in 1 .. Len(t) : b[j] = b[l] => j = l
    OBVIOUS
  <2>3. \A x \in S : \E j \in 1 .. Len(t) : b[j] = x
    <3> TAKE x \in S
    <3>1. x - 1 \in 1 .. Len(t) /\ b[x - 1] = x
      BY <1>2
    <3> QED BY <3>1
  <2>4. \A j \in 1 .. Len(t) : h[j] = r[b[j]]
    <3> TAKE j \in 1 .. Len(t)
    <3>1. j + 1 \in S /\ b[j] = j + 1
      BY <1>2
    <3>2. r[j + 1] = g[j + 1]
      BY <3>1 DEF Restrict
    <3>3. g[j + 1] = s[j + 1][k][i]
      BY <3>1
    <3>4. h[j] = t[j][k][i]
      OBVIOUS
    <3> QED BY <1>3, <3>1, <3>2, <3>3, <3>4
  <2> HIDE DEF b, h, t, r, S
  <2> QED BY <2>1, <2>2, <2>3, <2>4 DEF Renames
<1>7. 1 \in 1 .. Len(s) /\ g[1] = s[1][k][i]
  BY <1>2
<1>8. S \in SUBSET (1 .. Len(s)) /\ IsFiniteSet(S)
  BY <1>4, FS_Subset
<1>9. r \in [S -> Int]
  BY <1>4, <1>8 DEF Restrict
<1> HIDE DEF g, h, t, r, S, b
<1>10. g \in [1 .. Len(s) -> Int] /\ h \in [1 .. Len(t) -> Int]
  BY <1>4, <1>5
<1>11. Total(h) = Total(r)
  BY <1>5, <1>6, <1>8, <1>9, <1>10, RenameTerms
<1>12. Total(g) = g[1] + Total(r)
  BY <1>4, <1>7, <1>10, TakeOne DEF r, S
<1>13. g[1] \in Nat
  BY <1>4, <1>7
<1> QED BY <1>7, <1>11, <1>12, <1>13 DEF LaneSum, g, h, t

LEMMA LaneSumBound ==
  ASSUME query \in Programs, NEW s \in Seq([Keys -> Values]), NEW k \in Keys, NEW i \in Lanes,
         \A j \in 1 .. Len(s) : s[j][k][i] <= 2
  PROVE  LaneSum(s, k, i) <= 2 * Len(s)
<1> DEFINE T == {n \in Nat : \A t \in Seq([Keys -> Values]) :
                   Len(t) = n /\ (\A j \in 1 .. n : t[j][k][i] <= 2) => LaneSum(t, k, i) <= 2 * n}
<1>1. 0 \in T
  <2>1. \A t \in Seq([Keys -> Values]) : Len(t) = 0 => t = <<>>
    <3> HIDE DEF Values
    <3> QED OBVIOUS
  <2> QED BY <2>1, LaneSumEmpty
<1>2. ASSUME NEW n \in Nat, n \in T PROVE n + 1 \in T
  <2> SUFFICES ASSUME NEW t \in Seq([Keys -> Values]), Len(t) = n + 1,
                      \A j \in 1 .. n + 1 : t[j][k][i] <= 2
               PROVE  LaneSum(t, k, i) <= 2 * (n + 1)
    BY <1>2
  <2> DEFINE r == Tail(t)
  <2>1. t # <<>>
    <3>1. Len(<<>>) = 0
      OBVIOUS
    <3> QED BY <3>1
  <2>2. r \in Seq([Keys -> Values]) /\ Len(r) = n /\ \A j \in 1 .. n : r[j] = t[j + 1]
    <3> HIDE DEF Values
    <3>1. r \in Seq([Keys -> Values])
      BY <2>1
    <3>2. Len(r) = n
      BY <2>1
    <3>3. \A j \in 1 .. n : r[j] = t[j + 1]
      BY <2>1
    <3> QED BY <3>1, <3>2, <3>3
  <2>3. \A j \in 1 .. n : r[j][k][i] <= 2
    BY <2>2
  <2>4. LaneSum(r, k, i) <= 2 * n
    <3> HIDE DEF r
    <3> QED BY <1>2, <2>2, <2>3
  <2>5. LaneSum(t, k, i) = t[1][k][i] + LaneSum(r, k, i) /\ t[1][k][i] \in Nat
    BY <2>1, LaneSumTail
  <2>6. t[1][k][i] <= 2
    BY <1>2
  <2>7. LaneSum(r, k, i) \in Nat
    <3> HIDE DEF r
    <3> QED BY <2>2, LaneSumType
  <2> QED BY <2>4, <2>5, <2>6, <2>7
<1>3. Len(s) \in Nat
  OBVIOUS
<1>4. Nat \subseteq T
  <2> HIDE DEF T
  <2> QED BY <1>1, <1>2, NaturalInduction
<1> QED BY <1>3, <1>4

LEMMA LaneSumZero ==
  ASSUME query \in Programs, NEW s \in Seq([Keys -> Values]), NEW k \in Keys
  PROVE  (\A i \in Lanes : LaneSum(s, k, i) = 0) <=> \A j \in 1 .. Len(s) : s[j][k] = Zero
<1> DEFINE g(i) == [j \in 1 .. Len(s) |-> s[j][k][i]]
<1>1. \A i \in Lanes : g(i) \in [1 .. Len(s) -> Nat] /\ IsFiniteSet(1 .. Len(s))
  BY LaneSumType
<1>2. \A j \in 1 .. Len(s) : s[j][k] \in Values
  <2> HIDE DEF Values
  <2> QED OBVIOUS
<1>3. Zero \in [Lanes -> {0}]
  BY ValueFacts
<1>4. ASSUME \A i \in Lanes : LaneSum(s, k, i) = 0, NEW j \in 1 .. Len(s)
      PROVE  s[j][k] = Zero
  <2>1. ASSUME NEW i \in Lanes PROVE s[j][k][i] = 0
    <3>1. Total(g(i)) = 0
      BY <1>4 DEF LaneSum
    <3>2. g(i)[j] = s[j][k][i]
      OBVIOUS
    <3> HIDE DEF g
    <3>3. \A l \in 1 .. Len(s) : g(i)[l] = 0
      BY <1>1, <3>1, ZerosOfTotal
    <3> QED BY <3>2, <3>3
  <2> QED BY <1>2, <2>1, ZeroIsLeast
<1>5. ASSUME \A j \in 1 .. Len(s) : s[j][k] = Zero, NEW i \in Lanes
      PROVE  LaneSum(s, k, i) = 0
  <2>1. \A j \in 1 .. Len(s) : g(i)[j] = 0
    BY <1>3, <1>5
  <2> HIDE DEF g
  <2>2. g(i) \in [1 .. Len(s) -> Int] /\ IsFiniteSet(1 .. Len(s))
    BY <1>1
  <2>3. Total(g(i)) = 0
    BY <2>1, <2>2, TotalOfZeros
  <2> QED BY <2>3 DEF LaneSum, g
<1> QED BY <1>4, <1>5
-----------------------------------------------------------------------------
(* The ring of a SLIDING build.                                            *)
LEMMA RowsOfRing ==
  ASSUME sliding, curEpochPos \in Rows
  PROVE  /\ RowAgo(0) = curEpochPos /\ RowAgo(NEpoch - 1) = DelEpochPos /\ ClearedRow = DelEpochPos
         /\ \A j \in 0 .. NEPOCH_BUF - 1 : RowAgo(j) \in Rows
         /\ \A j, l \in 0 .. NEPOCH_BUF - 1 : RowAgo(j) = RowAgo(l) => j = l
         /\ \A r \in Rows : \E j \in 0 .. NEPOCH_BUF - 1 : r = RowAgo(j)
<1> USE QueryAssumption
<1> DEFINE B == NEPOCH_BUF
           c == curEpochPos
<1>1. Rows = 0 .. B - 1 /\ c \in 0 .. B - 1 /\ B \in Nat \ {0}
  BY DEF Rows
<1>2. \A j \in 0 .. B - 1 : RowAgo(j) = IF j <= c THEN c - j ELSE c + B - j
  <2> TAKE j \in 0 .. B - 1
  <2> j \in 0 .. B
    BY <1>1
  <2> QED BY <1>1, RowAgoIs
<1> HIDE DEF B, c
<1>3. \A j \in 0 .. B - 1 : RowAgo(j) \in Rows
  BY <1>1, <1>2
<1>4. \A j, l \in 0 .. B - 1 : RowAgo(j) = RowAgo(l) => j = l
  BY <1>1, <1>2
<1>5. ASSUME NEW r \in Rows PROVE \E j \in 0 .. B - 1 : r = RowAgo(j)
  <2>1. CASE r <= c
    <3>1. c - r \in 0 .. B - 1 /\ RowAgo(c - r) = r
      BY <1>1, <1>2, <2>1
    <3> QED BY <3>1
  <2>2. CASE r > c
    <3>1. c + B - r \in 0 .. B - 1 /\ RowAgo(c + B - r) = r
      BY <1>1, <1>2, <2>2
    <3> QED BY <3>1
  <2> QED BY <1>1, <2>1, <2>2
<1>6. RowAgo(0) = c
  BY <1>1, <1>2
<1>7. RowAgo(NEpoch - 1) = DelEpochPos /\ ClearedRow = DelEpochPos
  BY DEF RowAgo, DelEpochPos, ClearedRow
<1> QED BY <1>3, <1>4, <1>5, <1>6, <1>7 DEF B, c

(* What leaves a window with its oldest sub-window, and what is kept.      *)
Latest == Append(past, counts)
Oldest(k) == IF Len(past) < NEpoch - 1 THEN Zero ELSE Latest[1][k]

LEMMA LatestIs ==
  ASSUME Typed
  PROVE  /\ Latest \in Seq([Keys -> Values]) /\ Latest # <<>>
         /\ Len(past) \in Nat /\ Len(Latest) = Len(past) + 1
         /\ Latest[Len(past) + 1] = counts
         /\ \A j \in 1 .. Len(past) : Latest[j] = past[j]
<1> DEFINE V == [Keys -> Values]
<1>1. past \in Seq(V) /\ counts \in V
  BY DEF Typed
<1> HIDE DEF V
<1>2. Latest \in Seq(V)
  BY <1>1 DEF Latest
<1>3. Len(past) \in Nat /\ Len(Latest) = Len(past) + 1
  BY <1>1 DEF Latest
<1>4. Latest # <<>>
  <2>1. Len(<<>>) = 0
    OBVIOUS
  <2> QED BY <1>3, <2>1
<1>5. Latest[Len(past) + 1] = counts /\ \A j \in 1 .. Len(past) : Latest[j] = past[j]
  BY <1>1 DEF Latest
<1> QED BY <1>2, <1>3, <1>4, <1>5 DEF V

LEMMA RememberedIs ==
  ASSUME Typed, sliding, Len(past) <= NEpoch - 1
  PROVE  LET s == RememberedOn(Lanes)
         IN  /\ Len(past) < NEpoch - 1 => s = Latest /\ Len(s) = Len(past) + 1
             /\ Len(past) = NEpoch - 1 => /\ Len(s) = Len(past)
                                          /\ \A j \in 1 .. Len(past) : s[j] = Latest[j + 1]
             /\ \A j \in 1 .. Len(s) : s[j] = counts \/ \E l \in 1 .. Len(past) : s[j] = past[l]
<1> DEFINE s == RememberedOn(Lanes)
           n == Len(past)
<1>1. /\ Latest # <<>> /\ n \in Nat /\ Len(Latest) = n + 1 /\ Latest[n + 1] = counts
      /\ \A j \in 1 .. n : Latest[j] = past[j]
  BY LatestIs
<1>2. Latest \in Seq([Keys -> Values])
  BY LatestIs
<1>3. CASE n < NEpoch - 1
  <2>1. s = Latest
    BY <1>3 DEF RememberedOn, Latest
  <2> HIDE DEF s
  <2>2. \A j \in 1 .. Len(s) : s[j] = counts \/ \E l \in 1 .. n : s[j] = past[l]
    <3> SUFFICES ASSUME NEW j \in 1 .. n + 1 PROVE Latest[j] = counts \/ \E l \in 1 .. n : Latest[j] = past[l]
      BY <1>1, <2>1
    <3> HIDE DEF n
    <3> QED BY <1>1
  <2> QED BY <1>1, <1>3, <2>1, <2>2 DEF s
<1>4. CASE n = NEpoch - 1
  <2>1. s = Tail(Latest)
    BY <1>4 DEF RememberedOn, Latest
  <2>2. Len(s) = n /\ \A j \in 1 .. n : s[j] = Latest[j + 1]
    <3> DEFINE V == [Keys -> Values]
               t == Latest
    <3>1. t \in Seq(V) /\ t # <<>> /\ Len(t) = n + 1
      BY <1>1, <1>2
    <3> HIDE DEF V, t, s
    <3>2. Len(Tail(t)) = Len(t) - 1
      BY <3>1
    <3>3. \A j \in 1 .. Len(t) - 1 : Tail(t)[j] = t[j + 1]
      BY <3>1
    <3> QED BY <1>1, <2>1, <3>1, <3>2, <3>3 DEF t
  <2> HIDE DEF s
  <2>3. \A j \in 1 .. n : s[j] = counts \/ \E l \in 1 .. n : s[j] = past[l]
    <3> TAKE j \in 1 .. n
    <3>1. CASE j = n
      BY <1>1, <2>2, <3>1
    <3>2. CASE j < n
      <4>1. j + 1 \in 1 .. n
        BY <1>1, <3>2
      <4>2. s[j] = past[j + 1]
        BY <1>1, <2>2, <4>1
      <4> QED BY <4>1, <4>2
    <3> QED BY <1>1, <3>1, <3>2
  <2> QED BY <1>1, <1>4, <2>2, <2>3 DEF s
<1> HIDE DEF s
<1> QED BY <1>1, <1>3, <1>4, QueryAssumption DEF s

LEMMA RememberedSum ==
  ASSUME Typed, sliding, Len(past) <= NEpoch - 1, NEW k \in Keys
  PROVE  /\ Oldest(k) \in Values
         /\ \A i \in Lanes : /\ LaneSum(RememberedOn(Lanes), k, i) = WindowTotal(k)[i] - Oldest(k)[i]
                             /\ LaneSum(RememberedOn(Lanes), k, i) \in Nat
<1>1. query \in Programs /\ past \in Seq([Keys -> Values]) /\ counts \in [Keys -> Values]
      /\ RememberedOn(Lanes) \in Seq([Keys -> Values])
  BY RememberedType DEF Typed
<1>2. ASSUME NEW i \in Lanes PROVE LaneSum(Latest, k, i) = WindowTotal(k)[i] /\ LaneSum(Latest, k, i) \in Nat
  <2>1. LaneSum(Latest, k, i) = LaneSum(past, k, i) + counts[k][i]
    BY <1>1, LaneSumAppend DEF Latest
  <2>2. LaneSum(past, k, i) \in Nat /\ counts[k][i] \in Nat
    BY <1>1, LaneSumType DEF Values
  <2>3. WindowTotal(k)[i] = counts[k][i] + LaneSum(past, k, i)
    BY WindowTotalIs
  <2> QED BY <2>1, <2>2, <2>3
<1>3. \A i \in Lanes : LaneSum(RememberedOn(Lanes), k, i) \in Nat
  BY <1>1, LaneSumType
<1>4. CASE Len(past) < NEpoch - 1
  <2>1. Oldest(k) = Zero /\ RememberedOn(Lanes) = Latest
    BY <1>4 DEF Oldest, RememberedOn, Latest
  <2>2. Zero \in Values /\ \A i \in Lanes : Zero[i] = 0
    BY <1>1, ValueFacts
  <2> QED BY <1>2, <2>1, <2>2
<1>5. CASE ~(Len(past) < NEpoch - 1)
  <2>1. Oldest(k) = Latest[1][k] /\ RememberedOn(Lanes) = Tail(Latest)
    BY <1>5 DEF Oldest, RememberedOn, Latest
  <2>2. Latest \in Seq([Keys -> Values]) /\ Latest # <<>>
    BY LatestIs
  <2>3. \A i \in Lanes : /\ LaneSum(Latest, k, i) = Latest[1][k][i] + LaneSum(Tail(Latest), k, i)
                         /\ Latest[1][k][i] \in Nat
    BY <1>1, <2>2, LaneSumTail
  <2>4. Latest[1] \in [Keys -> Values]
    <3>1. 1 \in 1 .. Len(Latest)
      BY LatestIs
    <3> HIDE DEF Values
    <3> QED BY <2>2, <3>1
  <2> QED BY <1>2, <1>3, <2>1, <2>3, <2>4
<1> QED BY <1>4, <1>5

(* What the rows hold when all values have arrived.                        *)
LEMMA RowsHold ==
  ASSUME Typed, sliding, RowsRight, Bounded, pc \in {"merge", "recvDone"}, NEW k \in Keys, Held(k)
  PROVE  /\ \A j \in 0 .. NEPOCH_BUF - 1 :
              epochData[RowAgo(j)][posOf[k]] = IF j = 0 THEN counts[k] ELSE Ago(j, k)
         /\ epochData[DelEpochPos][posOf[k]] = Oldest(k)
<1> USE QueryAssumption
<1>1. RowAgo(0) = curEpochPos /\ RowAgo(NEpoch - 1) = DelEpochPos
  BY RowsOfRing DEF Typed
<1>2. epochData[curEpochPos][posOf[k]] = counts[k]
  BY DEF RowsRight, Arrived
<1>3. \A j \in 0 .. NEPOCH_BUF - 1 :
        epochData[RowAgo(j)][posOf[k]] = IF j = 0 THEN counts[k] ELSE Ago(j, k)
  <2> TAKE j \in 0 .. NEPOCH_BUF - 1
  <2>1. CASE j = 0
    BY <1>1, <1>2, <2>1
  <2>2. CASE j # 0
    <3> j \in 1 .. NEPOCH_BUF - 1
      BY <2>2
    <3> QED BY <2>2 DEF RowsRight
  <2> QED BY <2>1, <2>2
<1>4. /\ Len(past) \in Nat /\ Len(past) <= NEpoch - 1 /\ Latest[Len(past) + 1] = counts
      /\ \A j \in 1 .. Len(past) : Latest[j] = past[j]
  BY LatestIs DEF Bounded
<1>5. NEpoch - 1 \in 0 .. NEPOCH_BUF - 1
  OBVIOUS
<1>6. Oldest(k) = IF NEpoch - 1 = 0 THEN counts[k] ELSE Ago(NEpoch - 1, k)
  <2>1. CASE Len(past) < NEpoch - 1
    BY <1>4, <2>1 DEF Oldest, Ago
  <2>2. CASE Len(past) = NEpoch - 1 /\ NEpoch - 1 = 0
    BY <1>4, <2>2 DEF Oldest
  <2>3. CASE Len(past) = NEpoch - 1 /\ NEpoch - 1 # 0
    <3>1. Len(past) + 1 - (NEpoch - 1) = 1 /\ 1 \in 1 .. Len(past)
      BY <1>4, <2>3
    <3>2. Ago(NEpoch - 1, k) = past[1][k] /\ Oldest(k) = Latest[1][k]
      BY <1>4, <2>3, <3>1 DEF Ago, Oldest
    <3> QED BY <1>4, <2>3, <3>1, <3>2
  <2> QED BY <1>4, <2>1, <2>2, <2>3
<1> QED BY <1>1, <1>3, <1>5, <1>6
-----------------------------------------------------------------------------
(* The merge adds up what each key had in the window, and zero where no    *)
(* key is.                                                                 *)
LEMMA MergeAdds ==
  ASSUME Typed, Structure, Exact, Fits, pc = "merge", NEW added, Adds(curEpochPos, added)
  PROVE  /\ \A k \in Keys : Held(k) => added[posOf[k]] = WindowTotal(k)
         /\ \A k \in Keys : ~Held(k) => WindowTotal(k) = Zero /\ counts[k] = Zero
         /\ \A k \in Keys, i \in Lanes : WindowTotal(k)[i] < Width16
         /\ \A p \in Pos \ valid : added[p] = Zero
<1> USE QueryAssumption
<1>1. /\ query \in Programs /\ past \in Seq([Keys -> Values]) /\ Len(past) \in Nat
      /\ Kept = past /\ curEpochPos \in Rows
  BY LatestIs DEF Typed, Kept
<1>2. ASSUME NEW k \in Keys
      PROVE  /\ WindowTotal(k) = [i \in Lanes |-> counts[k][i] + LaneSum(past, k, i)]
             /\ \A i \in Lanes : /\ counts[k][i] \in Nat /\ LaneSum(past, k, i) \in Nat
                                 /\ counts[k][i] <= 2
  <2>1. \A i \in Lanes : LaneSum(past, k, i) \in Nat
    BY <1>1, LaneSumType
  <2>2. counts[k] \in Values
    BY DEF Typed
  <2>3. \A i \in Lanes : counts[k][i] <= 2
    BY DEF Exact, Bounded
  <2> QED BY <2>1, <2>2, <2>3, WindowTotalIs DEF Values
<1>3. Zero \in [Lanes -> {0}]
  BY <1>1, ValueFacts
<1>4. ASSUME NEW k \in Keys, ~Held(k)
      PROVE  WindowTotal(k) = Zero /\ counts[k] = Zero
  <2>1. counts[k] = Zero
    BY <1>4 DEF Structure, ToCome
  <2>2. \A j \in 1 .. Len(past) : past[j][k] = Zero
    BY <1>1, <1>4 DEF Exact, FreeRight
  <2>3. \A i \in Lanes : LaneSum(past, k, i) = 0
    BY <1>1, <2>2, LaneSumZero
  <2>4. \A i \in Lanes : WindowTotal(k)[i] = 0
    BY <1>2, <1>3, <2>1, <2>3
  <2>5. WindowTotal(k) \in Values
    BY WindowTotalIs
  <2> QED BY <1>1, <2>1, <2>4, <2>5, ZeroIsLeast
<1>5. ASSUME NEW k \in Keys, Held(k)
      PROVE  /\ posOf[k] \in Pos
             /\ mergedData[posOf[k]] = [i \in Lanes |-> LaneSum(past, k, i)]
             /\ epochData[curEpochPos][posOf[k]] = counts[k]
  BY <1>1, <1>5 DEF Typed, Held, Exact, MergedRight, RowsRight, Arrived
<1>6. ASSUME NEW k \in Keys, NEW i \in Lanes PROVE WindowTotal(k)[i] < Width16
  <2>1. WindowTotal(k)[i] = counts[k][i] + LaneSum(past, k, i)
    BY <1>2
  <2>2. CASE ~Held(k)
    BY <1>3, <1>4, <2>2
  <2>3. CASE Held(k) /\ sliding
    <3>1. Len(past) <= NEpoch - 1 /\ \A j \in 1 .. Len(past) : past[j][k][i] <= 2
      BY <2>3 DEF Exact, Bounded
    <3>2. LaneSum(past, k, i) <= 2 * Len(past)
      BY <1>1, <3>1, LaneSumBound
    <3>3. counts[k][i] <= 2 /\ counts[k][i] \in Nat /\ LaneSum(past, k, i) \in Nat
      BY <1>2
    <3>4. Len(past) \in Nat /\ NEpoch \in Nat /\ 2 * NEpoch < Width16 /\ Width16 \in Nat
      BY <1>1, QueryAssumption DEF Fits
    <3> HIDE DEF Fits
    <3>5. 2 * Len(past) + 2 <= 2 * NEpoch
      BY <3>1, <3>4
    <3> QED BY <2>1, <3>2, <3>3, <3>4, <3>5
  <2>4. CASE Held(k) /\ ~sliding
    <3>1. mergedData[posOf[k]][i] < MaxTotal
      BY <1>5, <2>4 DEF Exact, Bounded
    <3>2. LaneSum(past, k, i) < MaxTotal
      BY <1>5, <2>4, <3>1
    <3> QED BY <1>2, <2>1, <3>2 DEF Fits
  <2> QED BY <2>2, <2>3, <2>4
<1>7. ASSUME NEW k \in Keys, Held(k) PROVE added[posOf[k]] = WindowTotal(k)
  <2> DEFINE p == posOf[k]
             x == mergedData[p]
             y == epochData[curEpochPos][p]
  <2>1. x \in Values /\ y \in Values
    BY <1>1, <1>5, <1>7 DEF Typed
  <2>2. added[p] = Add(x, y)
    BY <1>5, <1>7 DEF Adds
  <2>3. ASSUME NEW i \in Lanes
        PROVE  x[i] + y[i] = WindowTotal(k)[i] /\ x[i] + y[i] < Width16
    <3>1. x = [l \in Lanes |-> LaneSum(past, k, l)] /\ y = counts[k]
      BY <1>5, <1>7
    <3>2. WindowTotal(k)[i] = counts[k][i] + LaneSum(past, k, i)
      BY <1>2
    <3>3. counts[k][i] \in Nat /\ LaneSum(past, k, i) \in Nat
      BY <1>2
    <3> HIDE DEF x, y
    <3>4. x[i] = LaneSum(past, k, i) /\ y[i] = counts[k][i]
      BY <3>1
    <3> QED BY <1>6, <3>2, <3>3, <3>4
  <2>4. WindowTotal(k) = [i \in Lanes |-> WindowTotal(k)[i]]
    BY <1>2
  <2> HIDE DEF x, y
  <2>5. Add(x, y) = [i \in Lanes |-> x[i] + y[i]]
    BY <1>1, <2>1, <2>3, FitsIn
  <2> QED BY <2>2, <2>3, <2>4, <2>5
<1>8. \A p \in Pos \ valid : added[p] = Zero
  <2> SUFFICES ASSUME NEW p \in Pos \ valid PROVE added[p] = Zero
    OBVIOUS
  <2>1. mergedData[p] = Zero /\ epochData[curEpochPos][p] = Zero
    BY <1>1 DEF Exact, FreeRight
  <2> QED BY <1>1, <2>1, ZeroValue DEF Adds
<1> QED BY <1>4, <1>6, <1>7, <1>8

LEMMA FindsExactly ==
  ASSUME Typed, Structure, Fits, NEW added, NEW P \in SUBSET Pos, valid \subseteq P,
         NEW K, Finds(P, added, K),
         \A k \in Keys : Held(k) => added[posOf[k]] = WindowTotal(k),
         \A k \in Keys : ~Held(k) => WindowTotal(k) = Zero,
         \A k \in Keys, i \in Lanes : WindowTotal(k)[i] < Width16,
         \A p \in Pos \ valid : added[p] = Zero
  PROVE  K = {k \in Keys : Suspect(WindowTotal(k))}
<1>1. query \in Programs /\ ~Abnormal(Zero) /\ TableRight
  BY ZeroValue DEF Typed, Structure
<1>2. \A k \in Keys : Abnormal(WindowTotal(k)) <=> Suspect(WindowTotal(k))
  BY <1>1, AbnormalIs, WindowTotalIs
<1>3. ASSUME NEW k \in K PROVE k \in Keys /\ Suspect(WindowTotal(k))
  <2>1. PICK p \in P : keys[p] = k /\ Abnormal(added[p])
    BY DEF Finds
  <2>2. p \in valid
    BY <1>1, <2>1
  <2>3. k \in Keys /\ posOf[k] = p
    BY <1>1, <2>1, <2>2 DEF TableRight
  <2>4. Held(k)
    BY <2>3, QueryAssumption DEF Held, Pos
  <2> QED BY <1>2, <2>1, <2>3, <2>4
<1>4. ASSUME NEW k \in Keys, Suspect(WindowTotal(k)) PROVE k \in K
  <2>1. Abnormal(WindowTotal(k)) /\ Held(k)
    BY <1>1, <1>2, <1>4
  <2>2. posOf[k] \in P /\ keys[posOf[k]] = k
    BY <1>1, <2>1 DEF TableRight
  <2> QED BY <2>1, <2>2 DEF Finds
<1> QED BY <1>3, <1>4

(* A step that leaves the sub-windows as they are.                         *)
Window(lanes, c, s, k) == FoldFunction(LAMBDA x, sum : Plus(lanes, x[k], sum), c[k], s)

LEMMA WindowStays ==
  ASSUME query' = query, past' = past, counts' = counts, sliding' = sliding
  PROVE  /\ \A k : WindowTotal(k)' = WindowTotal(k)
         /\ RememberedOn(Lanes)' = RememberedOn(Lanes)
         /\ \A j, k : Ago(j, k)' = Ago(j, k)
         /\ Zero' = Zero /\ Lanes' = Lanes
<1>1. Zero' = Zero /\ Lanes' = Lanes
  BY QueryStays
<1>2. \A k : WindowTotal(k)' = WindowTotal(k)
  <2>1. \A k : WindowTotal(k) = Window(Lanes, counts, past, k)
    BY Zenon DEF WindowTotal, TotalOn, Window
  <2>2. \A k : WindowTotal(k)' = Window(Lanes', counts', past', k)
    BY Zenon DEF WindowTotal, TotalOn, Window, FoldFunction, FoldFunctionOnSet, MapThenFoldSet, Plus
  <2> QED BY <1>1, <2>1, <2>2, Zenon
<1>3. RememberedOn(Lanes)' = RememberedOn(Lanes)
  BY <1>2, Zenon DEF RememberedOn, WindowTotal
<1>4. \A j, k : Ago(j, k)' = Ago(j, k)
  BY <1>1 DEF Ago
<1> QED BY <1>1, <1>2, <1>3, <1>4

LEMMA SuspectStays ==
  ASSUME query' = query, NEW k, WindowTotal(k)' = WindowTotal(k)
  PROVE  Suspect(WindowTotal(k))' <=> Suspect(WindowTotal(k))
  BY Zenon DEF Suspect, SynFlood!FloodedOrNegative, SynFlood!Flooded, SynFlood!Diff,
     CompletedFlow!UnfinishedOrNegative, CompletedFlow!Unfinished, CompletedFlow!Diff,
     Slowloris!Slow, Slowloris!Ratio, Ddos!Attacked
-----------------------------------------------------------------------------
(* The contents of the rows and of mergedData, step by step.               *)
LEMMA ExactInit ==
  ASSUME query \in Programs, Construct, InsertInput(HotKeys)
  PROVE  Exact
<1>1. Typed /\ Structure
  BY TypedInit, StructureInit
<1>2. /\ pc = "idle" /\ past = <<>> /\ Kept = <<>> /\ Len(past) = 0
      /\ epochData \in [Rows -> [Pos -> {Zero}]] /\ mergedData \in [Pos -> {Zero}]
      /\ counts \in [Keys -> {Zero}] /\ curEpochPos \in Rows
      /\ Zero \in [Lanes -> {0}]
  BY <1>1, ValueFacts DEF Construct, Kept, Typed
<1>3. \A k \in Keys : Held(k) => posOf[k] \in Pos
  BY <1>1 DEF Typed, Held
<1>4. RowsRight
  <2>1. \A k \in Keys : Held(k) => epochData[curEpochPos][posOf[k]] = Zero /\ ~Arrived(k)
    BY <1>2, <1>3 DEF Arrived
  <2>2. \A j \in 1 .. NEPOCH_BUF - 1, k \in Keys : Ago(j, k) = Zero
    BY <1>2 DEF Ago
  <2>3. sliding => \A j \in 1 .. NEPOCH_BUF - 1, k \in Keys :
          Held(k) => epochData[RowAgo(j)][posOf[k]] = Zero
    BY <1>2, <1>3, RowsOfRing
  <2> QED BY <2>1, <2>2, <2>3 DEF RowsRight
<1>5. MergedRight
  <2>1. \A k \in Keys, i \in Lanes : LaneSum(Kept, k, i) = 0
    BY <1>2, LaneSumEmpty
  <2>2. \A k \in Keys : Held(k) => mergedData[posOf[k]] = Zero
    BY <1>2, <1>3
  <2>3. Zero = [i \in Lanes |-> 0]
    BY <1>2
  <2> QED BY <2>1, <2>2, <2>3 DEF MergedRight
<1>6. FreeRight
  BY <1>2 DEF FreeRight
<1>7. Bounded
  BY <1>2, QueryAssumption DEF Bounded
<1>8. Reported
  BY <1>2 DEF Reported
<1> QED BY <1>4, <1>5, <1>6, <1>7, <1>8 DEF Exact

LEMMA HeldAlone ==
  ASSUME Typed, TableRight
  PROVE  /\ \A k \in Keys : Held(k) => posOf[k] \in Pos /\ posOf[k] \in valid
         /\ \A j, k \in Keys : Held(j) /\ Held(k) /\ posOf[j] = posOf[k] => j = k
  BY DEF Typed, TableRight, Held

(* A key that the table does not hold had nothing in the sub-windows that  *)
(* are remembered.                                                         *)
LEMMA NothingBefore ==
  ASSUME Typed, FreeRight, pc # "recvDone", NEW k \in Keys, ~Held(k)
  PROVE  /\ \A j \in 1 .. NEPOCH_BUF - 1 : Ago(j, k) = Zero
         /\ \A i \in Lanes : LaneSum(past, k, i) = 0
<1>1. /\ \A j \in 1 .. Len(past) : past[j][k] = Zero
      /\ query \in Programs /\ past \in Seq([Keys -> Values]) /\ Len(past) \in Nat
  BY LatestIs DEF FreeRight, Kept, Typed
<1>2. ASSUME NEW j \in 1 .. NEPOCH_BUF - 1 PROVE Ago(j, k) = Zero
  <2>1. CASE j <= Len(past)
    <3> Len(past) + 1 - j \in 1 .. Len(past)
      BY <1>1, <2>1
    <3> QED BY <1>1, <2>1 DEF Ago
  <2>2. CASE ~(j <= Len(past))
    BY <2>2 DEF Ago
  <2> QED BY <2>1, <2>2
<1> QED BY <1>1, <1>2, LaneSumZero

(* A step inside switchWin that leaves the table and mergedData alone.     *)
LEMMA Frame ==
  ASSUME Typed, Exact, query' = query, pc \notin {"idle", "recvDone"}, pc' \notin {"idle", "recvDone"},
         UNCHANGED <<sliding, posOf, valid, mergedData, past, counts>>
  PROVE  /\ MergedRight' /\ Bounded' /\ Reported'
         /\ \A p \in Pos \ valid' : mergedData'[p] = Zero'
         /\ \A k \in Keys : ~Held(k)' => \A j \in 1 .. Len(Kept') : Kept'[j][k] = Zero'
<1>1. Zero' = Zero /\ Lanes' = Lanes /\ Kept = past /\ Kept' = past
  BY QueryStays DEF Kept
<1>2. MergedRight'
  BY <1>1 DEF Exact, MergedRight, Held
<1>3. Bounded'
  BY <1>1 DEF Exact, Bounded
<1>4. Reported'
  BY DEF Reported
<1> QED BY <1>1, <1>2, <1>3, <1>4 DEF Exact, FreeRight, Held

(* One value arrives in its row.                                           *)
LEMMA ArriveOne ==
  ASSUME Typed, Structure, Exact, query' = query, pc = "recvKeyVals", pc' = pc,
         UNCHANGED <<sliding, posOf, valid, mergedData, past, counts, curEpochPos>>,
         NEW k0 \in Keys, Held(k0), Arrived(k0)',
         epochData' = [epochData EXCEPT ![curEpochPos][posOf[k0]] = counts[k0]],
         \A k \in Keys : k # k0 => (Arrived(k)' <=> Arrived(k))
  PROVE  Exact'
<1> USE QueryAssumption
<1>1. /\ Zero' = Zero /\ \A j, k : Ago(j, k)' = Ago(j, k)
      /\ posOf[k0] \in Pos /\ posOf[k0] \in valid /\ curEpochPos \in Rows /\ Rows' = Rows
      /\ epochData \in [Rows -> [Pos -> Values]]
  BY WindowStays, HeldAlone DEF Structure, Typed, Rows
<1>2. /\ epochData'[curEpochPos][posOf[k0]] = counts[k0]
      /\ \A s \in Rows, q \in Pos : s # curEpochPos \/ q # posOf[k0] => epochData'[s][q] = epochData[s][q]
  BY <1>1, WriteOne
<1>3. \A k \in Keys : Held(k) => posOf[k] \in Pos /\ (k # k0 => posOf[k] # posOf[k0])
  BY HeldAlone DEF Structure
<1>4. RowsRight'
  <2>1. ASSUME NEW k \in Keys, Held(k)
        PROVE  epochData'[curEpochPos][posOf[k]] = IF Arrived(k)' THEN counts[k] ELSE Zero
    <3>1. CASE k = k0
      BY <1>2, <3>1
    <3>2. CASE k # k0
      <4>1. epochData'[curEpochPos][posOf[k]] = epochData[curEpochPos][posOf[k]]
        BY <1>1, <1>2, <1>3, <2>1, <3>2
      <4>2. epochData[curEpochPos][posOf[k]] = IF Arrived(k) THEN counts[k] ELSE Zero
        BY <2>1 DEF Exact, RowsRight
      <4> QED BY <3>2, <4>1, <4>2
    <3> QED BY <3>1, <3>2
  <2>2. ASSUME sliding, NEW j \in 1 .. NEPOCH_BUF - 1, NEW k \in Keys, Held(k)
        PROVE  epochData'[RowAgo(j)][posOf[k]] = Ago(j, k)
    <3>1. RowAgo(j) \in Rows /\ RowAgo(j) # curEpochPos
      BY <1>1, <2>2, RowsOfRing
    <3>2. epochData[RowAgo(j)][posOf[k]] = Ago(j, k)
      BY <2>2 DEF Exact, RowsRight
    <3> QED BY <1>2, <1>3, <2>2, <3>1, <3>2
  <2>3. \A j : RowAgo(j)' = RowAgo(j)
    BY DEF RowAgo
  <2> QED BY <1>1, <2>1, <2>2, <2>3 DEF RowsRight, Held
<1>5. FreeRight'
  <2>1. \A p \in Pos \ valid, r \in Rows : epochData'[r][p] = Zero
    <3>1. \A p \in Pos \ valid, r \in Rows : epochData[r][p] = Zero
      BY DEF Exact, FreeRight
    <3> QED BY <1>1, <1>2, <3>1
  <2> QED BY <1>1, <2>1, Frame DEF FreeRight
<1> QED BY <1>4, <1>5, Frame DEF Exact

(* Keys that the table did not hold take positions that are clear.         *)
LEMMA InsertFrame ==
  ASSUME Typed, Structure, Exact, query' = query,
         pc \notin {"idle", "recvDone"}, pc' \notin {"idle", "recvDone"},
         InsKeys(unsent), UNCHANGED <<sliding, mergedData, past, counts, curEpochPos>>
  PROVE  /\ MergedRight' /\ Bounded' /\ Reported' /\ valid \subseteq valid'
         /\ \A p \in Pos \ valid' : mergedData'[p] = Zero'
         /\ \A k \in Keys : ~Held(k)' => \A j \in 1 .. Len(Kept') : Kept'[j][k] = Zero'
         /\ \A k \in Keys : Held(k) => Held(k)' /\ posOf'[k] = posOf[k]
         /\ \A k \in Keys : Held(k)' /\ ~Held(k) =>
              /\ posOf'[k] \in Pos \ valid /\ k \in unsent
              /\ \A r \in Rows : epochData[r][posOf'[k]] = Zero
              /\ \A j \in 1 .. NEPOCH_BUF - 1 : Ago(j, k) = Zero
<1>1. Zero' = Zero /\ Lanes' = Lanes /\ Kept = past /\ Kept' = past
  BY QueryStays DEF Kept
<1>2. /\ \A k \in Keys : Held(k) \/ k \notin unsent => posOf'[k] = posOf[k]
      /\ \A k \in unsent : posOf'[k] \in Pos /\ (~Held(k) => posOf'[k] \notin valid)
      /\ valid' = valid \cup {posOf'[k] : k \in unsent}
  <2> unsent \in SUBSET Keys /\ TableRight
    BY DEF Typed, Structure
  <2> QED BY InsKeysRight
<1>3. \A k \in Keys : Held(k) => Held(k)' /\ posOf'[k] = posOf[k]
  BY <1>2 DEF Held
<1>4. ASSUME NEW k \in Keys, Held(k)', ~Held(k)
      PROVE  /\ posOf'[k] \in Pos \ valid /\ k \in unsent
             /\ \A r \in Rows : epochData[r][posOf'[k]] = Zero
             /\ mergedData[posOf'[k]] = Zero
             /\ \A j \in 1 .. NEPOCH_BUF - 1 : Ago(j, k) = Zero
             /\ \A i \in Lanes : LaneSum(past, k, i) = 0
  <2>1. k \in unsent
    BY <1>2, <1>4 DEF Held
  <2>2. posOf'[k] \in Pos \ valid
    BY <1>2, <1>4, <2>1
  <2> QED BY <1>4, <2>1, <2>2, NothingBefore DEF Exact, FreeRight
<1>5. MergedRight'
  <2>1. ASSUME NEW k \in Keys, Held(k)'
        PROVE  mergedData[posOf'[k]] = [i \in Lanes |-> LaneSum(past, k, i)]
    <3>1. CASE Held(k)
      BY <1>1, <1>3, <3>1 DEF Exact, MergedRight
    <3>2. CASE ~Held(k)
      <4>1. mergedData[posOf'[k]] = Zero /\ \A i \in Lanes : LaneSum(past, k, i) = 0
        BY <1>4, <2>1, <3>2
      <4>2. Zero = [i \in Lanes |-> 0]
        BY ValueFacts DEF Typed
      <4> QED BY <4>1, <4>2
    <3> QED BY <3>1, <3>2
  <2> QED BY <1>1, <2>1 DEF MergedRight
<1>6. Bounded'
  BY <1>1 DEF Exact, Bounded
<1>7. Reported'
  BY DEF Reported
<1>8. \A p \in Pos \ valid' : mergedData'[p] = Zero'
  BY <1>1, <1>2 DEF Exact, FreeRight
<1>9. \A k \in Keys : ~Held(k)' => \A j \in 1 .. Len(Kept') : Kept'[j][k] = Zero'
  BY <1>1, <1>3 DEF Exact, FreeRight
<1> QED BY <1>2, <1>3, <1>4, <1>5, <1>6, <1>7, <1>8, <1>9
-----------------------------------------------------------------------------
LEMMA SwitchWinExact ==
  ASSUME Typed, Structure, Exact, query' = query, SwitchWin
  PROVE  Exact'
<1>1. /\ pc = "idle" /\ pc' = "recvKeys" /\ Zero' = Zero /\ Lanes' = Lanes /\ Sample' = Sample
      /\ UNCHANGED <<sliding, posOf, valid, epochData, mergedData, curEpochPos, past>>
  BY QueryStays DEF SwitchWin, tableVars, clockVars
<1>2. Kept = past /\ Kept' = past
  BY <1>1 DEF Kept
<1>3. \A j, k : Ago(j, k)' = Ago(j, k) /\ RowAgo(j)' = RowAgo(j)
  BY <1>1 DEF Ago, RowAgo
<1>4. RowsRight'
  BY <1>1, <1>3 DEF Exact, RowsRight, Held, Arrived
<1>5. MergedRight'
  BY <1>1, <1>2 DEF Exact, MergedRight, Held
<1>6. FreeRight'
  <2> Rows' = Rows
    BY <1>1 DEF Rows
  <2> QED BY <1>1, <1>2 DEF Exact, FreeRight, Held
<1>7. Bounded'
  <2>1. \A k \in Keys, i \in Lanes : counts'[k][i] <= 2
    <3>1. Zero \in [Lanes -> {0}] /\ Sample \subseteq [Lanes -> 0 .. 2]
      BY ValueFacts DEF Typed
    <3>2. \A k \in Keys : counts'[k] \in Sample \cup {Zero}
      BY DEF SwitchWin
    <3> QED BY <3>1, <3>2
  <2>2. ~sliding => \A p \in Pos, i \in Lanes : mergedData[p][i] < MaxTotal
    BY DEF SwitchWin
  <2> QED BY <1>1, <2>1, <2>2 DEF Exact, Bounded
<1>8. Reported'
  BY <1>1 DEF Reported
<1> QED BY <1>4, <1>5, <1>6, <1>7, <1>8 DEF Exact

LEMMA RecvKeysExact ==
  ASSUME Typed, Structure, Exact, query' = query, RecvKeys
  PROVE  Exact'
<1>1. /\ pc = "recvKeys" /\ pc' = "request" /\ InsKeys(unsent)
      /\ UNCHANGED <<sliding, epochData, mergedData, curEpochPos, past, counts>>
  BY DEF RecvKeys, clockVars
<1>2. Zero' = Zero /\ Rows' = Rows /\ curEpochPos \in Rows /\ \A j, k : Ago(j, k)' = Ago(j, k)
  BY <1>1, WindowStays DEF Rows, Typed
<1>3. ASSUME NEW k \in Keys PROVE Arrived(k)' => counts[k] = Zero
  <2>1. Asked' = unsent
    <3>1. requests' = {Address(l, posOf'[l]) : l \in unsent}
      BY DEF RecvKeys
    <3>2. \A l \in unsent : Address(l, posOf'[l]).key = l
      BY DEF Address
    <3> QED BY <3>1, <3>2 DEF Asked
  <2>2. k \in unsent' <=> counts[k] # Zero /\ k \notin unsent
    BY DEF RecvKeys
  <2> QED BY <1>1, <2>1, <2>2 DEF Arrived
<1>4. RowsRight'
  <2>1. ASSUME NEW k \in Keys, Held(k)'
        PROVE  epochData[curEpochPos][posOf'[k]] = Zero
    <3>1. CASE Held(k)
      BY <1>1, <3>1, InsertFrame DEF Exact, RowsRight, Arrived
    <3>2. CASE ~Held(k)
      BY <1>1, <1>2, <2>1, <3>2, InsertFrame
    <3> QED BY <3>1, <3>2
  <2>2. ASSUME sliding, NEW j \in 1 .. NEPOCH_BUF - 1, NEW k \in Keys, Held(k)'
        PROVE  epochData[RowAgo(j)][posOf'[k]] = Ago(j, k)
    <3>1. CASE Held(k)
      BY <1>1, <2>2, <3>1, InsertFrame DEF Exact, RowsRight
    <3>2. CASE ~Held(k)
      <4>1. RowAgo(j) \in Rows
        BY <1>2, <2>2, RowsOfRing
      <4> QED BY <1>1, <2>2, <3>2, <4>1, InsertFrame
    <3> QED BY <3>1, <3>2
  <2>3. \A j : RowAgo(j)' = RowAgo(j)
    BY <1>1 DEF RowAgo
  <2> QED BY <1>1, <1>2, <1>3, <2>1, <2>2, <2>3 DEF RowsRight
<1>5. FreeRight'
  <2>1. \A p \in Pos \ valid', r \in Rows : epochData[r][p] = Zero
    BY <1>1, InsertFrame DEF Exact, FreeRight
  <2> QED BY <1>1, <1>2, <2>1, InsertFrame DEF FreeRight
<1> QED BY <1>1, <1>4, <1>5, InsertFrame DEF Exact

LEMMA SendRequestsExact ==
  ASSUME Typed, Structure, Exact, query' = query, SendRequests
  PROVE  Exact'
<1>1. /\ pc = "request" /\ pc' = "recvKeyVals"
      /\ UNCHANGED <<sliding, posOf, valid, epochData, mergedData, curEpochPos, past, counts,
                     requests, unsent>>
  BY DEF SendRequests, tableVars
<1>2. Zero' = Zero /\ Rows' = Rows /\ \A j, k : Ago(j, k)' = Ago(j, k) /\ RowAgo(j)' = RowAgo(j)
  BY <1>1, WindowStays DEF Rows, RowAgo
<1>3. RowsRight'
  BY <1>1, <1>2 DEF Exact, RowsRight, Held, Arrived, Asked
<1>4. FreeRight'
  BY <1>1, <1>2, Frame DEF Exact, FreeRight
<1> QED BY <1>1, <1>3, <1>4, Frame DEF Exact

LEMMA AnswerQueryExact ==
  ASSUME Typed, Structure, Exact, query' = query, AnswerQuery
  PROVE  Exact'
<1>1. PICK q \in requests : /\ requests' = requests \ {q}
                            /\ epochData' = [epochData EXCEPT ![q.row][q.pos] = counts[q.key]]
  BY DEF AnswerQuery
<1>2. /\ pc = "recvKeyVals" /\ pc' = pc
      /\ UNCHANGED <<sliding, posOf, valid, mergedData, past, counts, curEpochPos, unsent>>
  BY DEF AnswerQuery, tableVars, clockVars
<1> DEFINE k0 == q.key
<1>3. k0 \in Keys /\ Held(k0) /\ q.pos = posOf[k0] /\ q.row = curEpochPos /\ k0 \in Asked
  BY QueryRow DEF Structure, QueriesRight, Asked
<1>4. \A r \in requests : r.key = k0 => r = q
  <2>1. \A r \in requests : /\ r \in [key : Keys, row : 0 .. NEPOCH_BUF - 1, pos : Pos]
                            /\ r.pos = posOf[r.key] /\ r.row = curEpochPos
    BY QueryRow DEF Structure, Typed
  <2>2. \A r \in requests : r = [key |-> r.key, row |-> r.row, pos |-> r.pos]
    BY <2>1
  <2> HIDE DEF k0
  <2> QED BY <2>1, <2>2, <1>3 DEF k0
<1>5. Asked' = Asked \ {k0}
  BY <1>1, <1>4 DEF Asked
<1>6. k0 \notin unsent
  BY <1>3 DEF Structure, QueriesRight
<1> HIDE DEF k0
<1>7. Arrived(k0)' /\ \A k \in Keys : k # k0 => (Arrived(k)' <=> Arrived(k))
  BY <1>2, <1>5, <1>6 DEF Arrived
<1>8. epochData' = [epochData EXCEPT ![curEpochPos][posOf[k0]] = counts[k0]]
  BY <1>1, <1>3 DEF k0
<1> QED BY <1>2, <1>3, <1>7, <1>8, ArriveOne

LEMMA WriteHotKeyExact ==
  ASSUME Typed, Structure, Exact, query' = query, WriteHotKey
  PROVE  Exact'
<1>1. PICK k0 \in unsent \cap HotKeys :
        /\ unsent' = unsent \ {k0}
        /\ epochData' = [epochData EXCEPT ![SwitchRow][posOf[k0]] = counts[k0]]
  BY DEF WriteHotKey
<1>2. /\ pc = "recvKeyVals" /\ pc' = pc
      /\ UNCHANGED <<sliding, posOf, valid, mergedData, past, counts, curEpochPos, requests>>
  BY DEF WriteHotKey, tableVars, clockVars
<1>3. k0 \in Keys /\ Held(k0) /\ SwitchRow = curEpochPos
  BY <1>2, SwitchRowIs DEF Typed, Structure, TableRight
<1>4. k0 \notin Asked /\ Asked' = Asked
  BY <1>2 DEF Structure, QueriesRight, Asked
<1>5. Arrived(k0)' /\ \A k \in Keys : k # k0 => (Arrived(k)' <=> Arrived(k))
  BY <1>1, <1>2, <1>4 DEF Arrived
<1> QED BY <1>1, <1>2, <1>3, <1>5, ArriveOne

LEMMA RecvKeyValsExact ==
  ASSUME Typed, Structure, Exact, query' = query, RecvKeyVals
  PROVE  Exact'
<1> DEFINE row == [p \in Pos |-> IF \E k \in unsent : posOf'[k] = p
                     THEN counts[CHOOSE k \in unsent : posOf'[k] = p] ELSE epochData[curEpochPos][p]]
<1>1. /\ pc = "recvKeyVals" /\ pc' = "merge" /\ InsKeys(unsent) /\ requests = {} /\ unsent' = {}
      /\ UNCHANGED <<sliding, mergedData, curEpochPos, past, counts>>
      /\ epochData' = [epochData EXCEPT ![curEpochPos] = row]
  BY DEF RecvKeyVals, clockVars
<1>2. /\ Zero' = Zero /\ Rows' = Rows /\ curEpochPos \in Rows /\ \A j, k : Ago(j, k)' = Ago(j, k)
      /\ epochData \in [Rows -> [Pos -> Values]] /\ unsent \in SUBSET Keys
  BY <1>1, WindowStays DEF Rows, Typed
<1>3. /\ \A k \in unsent : posOf'[k] \in Pos
      /\ \A j, k \in Keys : posOf'[k] # NoPos /\ posOf'[j] = posOf'[k] => j = k
  <2> TableRight
    BY DEF Structure
  <2> QED BY <1>1, <1>2, InsKeysRight
<1>4. NoPos \notin Pos
  BY QueryAssumption DEF Pos
<1>5. \A k \in unsent : row[posOf'[k]] = counts[k]
  <2> SUFFICES ASSUME NEW k \in unsent PROVE row[posOf'[k]] = counts[k]
    OBVIOUS
  <2> DEFINE p == posOf'[k]
             j == CHOOSE x \in unsent : posOf'[x] = p
  <2>1. j \in unsent /\ posOf'[j] = p
    OBVIOUS
  <2>2. p \in Pos /\ row[p] = counts[j]
    BY <1>3
  <2> HIDE DEF j
  <2> QED BY <1>2, <1>3, <1>4, <2>1, <2>2
<1>6. \A p \in Pos : (\A k \in unsent : posOf'[k] # p) => row[p] = epochData[curEpochPos][p]
  OBVIOUS
<1> HIDE DEF row
<1>7. epochData'[curEpochPos] = row /\ \A r \in Rows : r # curEpochPos => epochData'[r] = epochData[r]
  BY <1>1, <1>2, WriteRow
<1>8. RowsRight'
  <2>1. ASSUME NEW k \in Keys, Held(k)'
        PROVE  epochData'[curEpochPos][posOf'[k]] = counts[k]
    <3>1. CASE k \in unsent
      BY <1>5, <1>7, <3>1
    <3>2. CASE k \notin unsent
      <4>1. Held(k) /\ posOf'[k] = posOf[k] /\ posOf[k] \in Pos
        <5>1. Held(k)
          BY <1>1, <2>1, <3>2, InsertFrame
        <5> QED BY <1>1, <5>1, InsertFrame, HeldAlone DEF Structure
      <4>2. \A j \in unsent : posOf'[j] # posOf'[k]
        BY <1>2, <1>3, <1>4, <3>2, <4>1
      <4>3. row[posOf[k]] = epochData[curEpochPos][posOf[k]]
        BY <1>6, <4>1, <4>2
      <4>4. Arrived(k)
        BY <1>1, <3>2 DEF Arrived, Asked
      <4>5. epochData[curEpochPos][posOf[k]] = counts[k]
        BY <4>1, <4>4 DEF Exact, RowsRight
      <4> QED BY <1>7, <4>1, <4>3, <4>5
    <3> QED BY <3>1, <3>2
  <2>2. ASSUME sliding, NEW j \in 1 .. NEPOCH_BUF - 1, NEW k \in Keys, Held(k)'
        PROVE  epochData'[RowAgo(j)][posOf'[k]] = Ago(j, k)
    <3>1. RowAgo(j) \in Rows /\ RowAgo(j) # curEpochPos
      <4>1. j \in 0 .. NEPOCH_BUF - 1 /\ 0 \in 0 .. NEPOCH_BUF - 1 /\ j # 0
        BY QueryAssumption
      <4> QED BY <1>2, <2>2, <4>1, RowsOfRing
    <3>2. CASE Held(k)
      BY <1>1, <1>7, <2>2, <3>1, <3>2, InsertFrame DEF Exact, RowsRight
    <3>3. CASE ~Held(k)
      BY <1>1, <1>7, <2>2, <3>1, <3>3, InsertFrame
    <3> QED BY <3>2, <3>3
  <2>3. (\A j : RowAgo(j)' = RowAgo(j)) /\ \A k : Arrived(k)'
    BY <1>1 DEF RowAgo, Arrived
  <2> QED BY <1>1, <1>2, <2>1, <2>2, <2>3 DEF RowsRight
<1>9. FreeRight'
  <2>1. \A p \in Pos \ valid' : \A k \in unsent : posOf'[k] # p
    BY <1>1 DEF InsKeys
  <2>2. \A p \in Pos \ valid', r \in Rows : epochData[r][p] = Zero
    BY <1>1, InsertFrame DEF Exact, FreeRight
  <2>3. \A p \in Pos \ valid', r \in Rows : epochData'[r][p] = Zero
    BY <1>2, <1>6, <1>7, <2>1, <2>2
  <2> QED BY <1>1, <1>2, <2>3, InsertFrame DEF FreeRight
<1> QED BY <1>1, <1>8, <1>9, InsertFrame DEF Exact
-----------------------------------------------------------------------------
(* The merge of a SLIDING build takes the oldest sub-window out again.      *)
LEMMA MergeLeaves ==
  ASSUME Typed, Structure, Exact, Fits, sliding, pc = "merge",
         NEW added \in [Pos -> Values], Adds(curEpochPos, added), NEW left,
         \A p \in Pos : left[p] = Sub(added[p], epochData[DelEpochPos][p])
  PROVE  /\ \A k \in Keys : Held(k) => left[posOf[k]] = [i \in Lanes |-> LaneSum(RememberedOn(Lanes), k, i)]
         /\ \A k \in Keys, i \in Lanes : Held(k) => LaneSum(RememberedOn(Lanes), k, i) \in 0 .. Width16 - 1
         /\ \A p \in Pos \ valid : left[p] = Zero
<1>1. query \in Programs /\ DelEpochPos \in Rows
  BY ClearedRowType DEF Typed, ClearedRow
<1>2. ASSUME NEW k \in Keys, Held(k)
      PROVE  /\ left[posOf[k]] = [i \in Lanes |-> LaneSum(RememberedOn(Lanes), k, i)]
             /\ \A i \in Lanes : LaneSum(RememberedOn(Lanes), k, i) \in 0 .. Width16 - 1
  <2> DEFINE x == WindowTotal(k)
             y == Oldest(k)
  <2>1. posOf[k] \in Pos
    BY <1>2, HeldAlone DEF Structure
  <2>2. added[posOf[k]] = x /\ \A i \in Lanes : x[i] < Width16
    BY <1>2, MergeAdds
  <2>3. epochData[DelEpochPos][posOf[k]] = y
    BY <1>2, RowsHold DEF Exact
  <2>4. left[posOf[k]] = Sub(x, y)
    BY <2>1, <2>2, <2>3
  <2>5. Len(past) <= NEpoch - 1
    BY DEF Exact, Bounded
  <2>6. /\ y \in Values
        /\ \A i \in Lanes : /\ LaneSum(RememberedOn(Lanes), k, i) = x[i] - y[i]
                            /\ LaneSum(RememberedOn(Lanes), k, i) \in Nat
    BY <2>5, RememberedSum
  <2>7. x \in Values
    BY WindowTotalIs
  <2> HIDE DEF x, y
  <2>8. \A i \in Lanes : y[i] <= x[i] /\ x[i] < Width16
    BY <2>2, <2>6, <2>7 DEF Values
  <2>9. Sub(x, y) = [i \in Lanes |-> x[i] - y[i]]
    BY <1>1, <2>6, <2>7, <2>8, FitsIn
  <2>10. ASSUME NEW i \in Lanes PROVE LaneSum(RememberedOn(Lanes), k, i) \in 0 .. Width16 - 1
    <3> DEFINE sum == LaneSum(RememberedOn(Lanes), k, i)
    <3>1. sum = x[i] - y[i] /\ sum \in Nat /\ x[i] < Width16
      BY <2>6, <2>8
    <3>2. x[i] \in Nat /\ y[i] \in Nat /\ Width16 \in Nat
      BY <2>6, <2>7, QueryAssumption DEF Values
    <3> HIDE DEF sum
    <3>3. sum \in 0 .. Width16 - 1
      BY <3>1, <3>2
    <3> QED BY <3>3 DEF sum
  <2> QED BY <2>4, <2>6, <2>9, <2>10
<1>3. \A p \in Pos \ valid : left[p] = Zero
  <2> SUFFICES ASSUME NEW p \in Pos \ valid PROVE left[p] = Zero
    OBVIOUS
  <2>1. added[p] = Zero
    BY MergeAdds
  <2>2. epochData[DelEpochPos][p] = Zero
    BY <1>1 DEF Exact, FreeRight
  <2> QED BY <1>1, <2>1, <2>2, ZeroValue
<1> QED BY <1>2, <1>3

(* A key of whom nothing is remembered has left its rows clear, but for the *)
(* one that is cleared next.                                               *)
LEMMA RowsLeft ==
  ASSUME Typed, sliding, Exact, pc = "merge", NEW k \in Keys, Held(k),
         \A j \in 1 .. Len(RememberedOn(Lanes)) : RememberedOn(Lanes)[j][k] = Zero
  PROVE  \A r \in Rows : r # ClearedRow => epochData[r][posOf[k]] = Zero
<1> USE QueryAssumption
<1> DEFINE s == RememberedOn(Lanes)
           n == Len(past)
<1>1. n \in Nat /\ n <= NEpoch - 1 /\ Latest[n + 1] = counts /\ \A j \in 1 .. n : Latest[j] = past[j]
  BY LatestIs DEF Exact, Bounded
<1>2. /\ n < NEpoch - 1 => s = Latest /\ Len(s) = n + 1
      /\ n = NEpoch - 1 => Len(s) = n /\ \A j \in 1 .. n : s[j] = Latest[j + 1]
  BY <1>1, RememberedIs
<1> HIDE DEF s
<1>3. ASSUME NEW j \in 0 .. NEPOCH_BUF - 1, j # NEpoch - 1
      PROVE  (IF j = 0 THEN counts[k] ELSE Ago(j, k)) = Zero
  <2>1. CASE j > n
    BY <1>1, <2>1 DEF Ago
  <2>2. CASE j <= n
    <3> DEFINE l == n + 1 - j
    <3>1. (IF j = 0 THEN counts[k] ELSE Ago(j, k)) = Latest[l][k]
      <4>1. CASE j = 0
        BY <1>1, <4>1
      <4>2. CASE j # 0
        <5>1. l \in 1 .. n
          BY <1>1, <2>2, <4>2
        <5> QED BY <1>1, <2>2, <4>2, <5>1 DEF Ago
      <4> QED BY <4>1, <4>2
    <3>2. CASE n < NEpoch - 1
      <4>1. l \in 1 .. Len(s)
        BY <1>1, <1>2, <2>2, <3>2
      <4> QED BY <1>2, <3>1, <3>2, <4>1 DEF s
    <3>3. CASE n = NEpoch - 1
      <4>1. l - 1 \in 1 .. n /\ (l - 1) + 1 = l
        <5>1. n \in Nat /\ j \in Nat /\ j < n
          BY <1>1, <1>3, <2>2, <3>3
        <5> HIDE DEF n
        <5> QED BY <5>1
      <4>2. s[l - 1] = Latest[l] /\ l - 1 \in 1 .. Len(s)
        BY <1>2, <3>3, <4>1
      <4> QED BY <3>1, <4>2 DEF s
    <3>4. n < NEpoch - 1 \/ n = NEpoch - 1
      <4>1. n \in Nat /\ n <= NEpoch - 1 /\ NEpoch \in Nat
        BY <1>1
      <4> HIDE DEF n
      <4> QED BY <4>1
    <3> QED BY <3>2, <3>3, <3>4
  <2> QED BY <1>1, <2>1, <2>2
<1>4. SUFFICES ASSUME NEW r \in Rows, r # ClearedRow PROVE epochData[r][posOf[k]] = Zero
  OBVIOUS
<1>5. /\ RowAgo(NEpoch - 1) = ClearedRow
      /\ \E j \in 0 .. NEPOCH_BUF - 1 : r = RowAgo(j)
  BY RowsOfRing DEF Typed
<1>6. PICK j \in 0 .. NEPOCH_BUF - 1 : r = RowAgo(j)
  BY <1>5
<1>7. j # NEpoch - 1
  BY <1>4, <1>5, <1>6
<1>8. epochData[RowAgo(j)][posOf[k]] = IF j = 0 THEN counts[k] ELSE Ago(j, k)
  BY RowsHold DEF Exact
<1> QED BY <1>3, <1>6, <1>7, <1>8

(* While no lane wraps, a key of whom nothing is left by the program's test *)
(* has nothing left, read as 16 bits or not.                               *)
LEMMA NothingLeft ==
  ASSUME query \in Programs, NEW v \in Values, \A i \in Lanes : v[i] < Width16, Vanished(v)
  PROVE  v = Zero
<1>1. CASE query = "slowloris-attack"
  <2>1. Lanes = {1, 2}
    BY <1>1, SlowlorisValues DEF Lanes, Slowloris!Val
  <2>2. v[1] = 0 /\ v[2] % Width16 = 0
    BY <1>1 DEF Vanished, Slowloris!Vanished
  <2>3. v[2] \in Nat /\ v[2] < Width16 /\ Width16 \in Nat
    BY <2>1, QueryAssumption DEF Values
  <2>4. v[2] = 0
    BY <2>2, <2>3
  <2>5. \A i \in Lanes : v[i] = 0
    BY <2>1, <2>2, <2>4
  <2> QED BY <2>5, ZeroIsLeast
<1>2. CASE query # "slowloris-attack"
  BY <1>2 DEF Vanished
<1> QED BY <1>1, <1>2

LEMMA MergeSlidingExact ==
  ASSUME Typed, Structure, Exact, Fits, query' = query, MergeSliding
  PROVE  Exact'
<1>1. PICK added \in [Pos -> Values] :
        /\ Adds(curEpochPos, added)
        /\ \A p \in Pos : mergedData'[p] = Sub(added[p], epochData[DelEpochPos][p])
        /\ Finds(Compared, added, abnormalKeys')
  BY MergeSlidingIs
<1>2. /\ pc = "merge" /\ pc' = "recvDone" /\ sliding
      /\ valid' \subseteq valid /\ \A p \in valid : p \notin valid' => Vanished(mergedData'[p])
      /\ \A k \in Keys : posOf'[k] = IF \E p \in valid \ valid' : keys[p] = k THEN NoPos ELSE posOf[k]
      /\ UNCHANGED <<sliding, keys, epochData, curEpochPos, curEpoch, past, counts>>
  BY DEF MergeSliding, clockVars
<1> DEFINE s == RememberedOn(Lanes)
<1>3. /\ Zero' = Zero /\ Lanes' = Lanes /\ Rows' = Rows /\ Kept = past /\ Kept' = s
      /\ \A k : WindowTotal(k)' = WindowTotal(k)
      /\ \A j, k : Ago(j, k)' = Ago(j, k) /\ RowAgo(j)' = RowAgo(j)
      /\ ClearedRow' = ClearedRow
  BY <1>2, WindowStays DEF Kept, Rows, RowAgo, ClearedRow, DelEpochPos
<1>4. /\ s \in Seq([Keys -> Values]) /\ query \in Programs
      /\ TableRight
  BY RememberedType DEF Typed, Structure
<1> HIDE DEF s
<1>5. /\ \A k \in Keys : Held(k) => mergedData'[posOf[k]] = [i \in Lanes |-> LaneSum(s, k, i)]
      /\ \A k \in Keys, i \in Lanes : Held(k) => LaneSum(s, k, i) \in 0 .. Width16 - 1
      /\ \A p \in Pos \ valid : mergedData'[p] = Zero
  BY <1>1, <1>2, MergeLeaves DEF s
<1>left. ASSUME NEW p \in valid \ valid' PROVE mergedData'[p] = Zero
  <2> DEFINE v == mergedData'[p]
  <2>1. Vanished(v)
    BY <1>2, <1>left
  <2>2. PICK k \in Keys : posOf[k] = p /\ Held(k)
    <3>1. p \in valid /\ p \in Pos
      BY <1>left DEF Typed
    <3>2. keys[p] \in Keys /\ posOf[keys[p]] = p
      BY <1>4, <3>1 DEF TableRight
    <3> QED BY <3>1, <3>2, QueryAssumption DEF Held, Pos
  <2>3. v = [i \in Lanes |-> LaneSum(s, k, i)]
    <3>1. mergedData'[posOf[k]] = [i \in Lanes |-> LaneSum(s, k, i)]
      BY <1>5, <2>2, Zenon
    <3> QED BY <2>2, <3>1, Zenon
  <2>4. \A i \in Lanes : LaneSum(s, k, i) \in 0 .. Width16 - 1
    BY <1>5, <2>2
  <2> HIDE DEF v
  <2>5. Width16 \in Nat
    BY QueryAssumption
  <2>6. \A i \in Lanes : v[i] \in Nat /\ v[i] < Width16
    BY <2>3, <2>4, <2>5
  <2>7. v \in Values
    BY <2>3, <2>6 DEF Values
  <2>8. v = Zero
    BY <1>4, <2>1, <2>6, <2>7, NothingLeft
  <2> QED BY <2>8 DEF v
<1>6. \A k \in Keys : Held(k)' => Held(k) /\ posOf'[k] = posOf[k]
  BY <1>2 DEF Held
<1>7. ASSUME NEW k \in Keys, Held(k), posOf[k] \notin valid'
      PROVE  \A j \in 1 .. Len(s) : s[j][k] = Zero
  <2>1. mergedData'[posOf[k]] = Zero
    BY <1>4, <1>7, <1>left DEF TableRight
  <2>2. Zero \in [Lanes -> {0}]
    BY <1>4, ValueFacts
  <2>3. Zero = [i \in Lanes |-> LaneSum(s, k, i)]
    BY <1>5, <1>7, <2>1
  <2>4. \A i \in Lanes : LaneSum(s, k, i) = Zero[i]
    BY <2>3
  <2> QED BY <1>4, <2>2, <2>4, LaneSumZero
<1>8. ASSUME NEW k \in Keys, ~Held(k)
      PROVE  \A j \in 1 .. Len(s) : s[j][k] = Zero
  <2>1. /\ counts[k] = Zero /\ \A j \in 1 .. Len(past) : past[j][k] = Zero
    BY <1>2, <1>3, <1>8 DEF Structure, ToCome, Exact, FreeRight
  <2>2. \A j \in 1 .. Len(s) : s[j] = counts \/ \E l \in 1 .. Len(past) : s[j] = past[l]
    <3> Len(past) <= NEpoch - 1
      BY <1>2 DEF Exact, Bounded
    <3> QED BY <1>2, RememberedIs DEF s
  <2> QED BY <2>1, <2>2
<1>9. RowsRight'
  BY <1>2, <1>3, <1>6 DEF Exact, RowsRight, Arrived
<1>10. MergedRight'
  BY <1>3, <1>5, <1>6 DEF MergedRight
<1>11. FreeRight'
  <2>1. \A p \in Pos \ valid' : mergedData'[p] = Zero
    BY <1>5, <1>left
  <2>2. ASSUME NEW p \in Pos \ valid', NEW r \in Rows, r # ClearedRow
        PROVE  epochData[r][p] = Zero
    <3>1. CASE p \notin valid
      BY <1>2, <2>2, <3>1 DEF Exact, FreeRight
    <3>2. CASE p \in valid
      <4>1. keys[p] \in Keys /\ posOf[keys[p]] = p /\ Held(keys[p])
        BY <1>4, <3>2, QueryAssumption DEF TableRight, Held, Pos
      <4>2. \A j \in 1 .. Len(s) : s[j][keys[p]] = Zero
        BY <1>7, <2>2, <4>1
      <4> QED BY <1>2, <2>2, <4>1, <4>2, RowsLeft DEF s
    <3> QED BY <3>1, <3>2
  <2>3. ASSUME NEW k \in Keys, ~Held(k)'
        PROVE  \A j \in 1 .. Len(s) : s[j][k] = Zero
    <3>1. CASE ~Held(k)
      BY <1>8, <3>1
    <3>2. CASE Held(k)
      <4>1. \E p \in valid \ valid' : keys[p] = k
        BY <1>2, <2>3, <3>2 DEF Held
      <4>2. posOf[k] \notin valid'
        BY <1>4, <4>1 DEF TableRight
      <4> QED BY <1>7, <3>2, <4>2
    <3> QED BY <3>1, <3>2
  <2> QED BY <1>2, <1>3, <2>1, <2>2, <2>3 DEF FreeRight
<1>12. Bounded'
  BY <1>2, <1>3 DEF Exact, Bounded
<1>13. Reported'
  <2>1. valid \subseteq Compared /\ Compared \in SUBSET Pos
    BY DEF Compared, Typed
  <2>2. abnormalKeys' = {k \in Keys : Suspect(WindowTotal(k))}
    BY <1>1, <1>2, <2>1, MergeAdds, FindsExactly
  <2>3. \A k \in Keys : Suspect(WindowTotal(k))' <=> Suspect(WindowTotal(k))
    BY <1>3, SuspectStays
  <2> QED BY <1>2, <2>2, <2>3 DEF Reported
<1> QED BY <1>9, <1>10, <1>11, <1>12, <1>13 DEF Exact

-----------------------------------------------------------------------------
(* The merge of the other build, which nothing leaves.                     *)
LEMMA MergeTumblingExact ==
  ASSUME Typed, Structure, Exact, Fits, query' = query, MergeTumbling
  PROVE  Exact'
<1>1. /\ pc = "merge" /\ pc' = "recvDone" /\ ~sliding
      /\ curEpochPos = 0 /\ Adds(curEpochPos, mergedData')
      /\ UNCHANGED <<sliding, posOf, keys, valid, epochData, curEpochPos, curEpoch, past, counts>>
  BY DEF MergeTumbling, tableVars, clockVars, Typed, Rows
<1> DEFINE c == [k \in Keys |-> WindowTotal(k)]
<1>2. /\ Zero' = Zero /\ Lanes' = Lanes /\ Rows' = Rows /\ Kept = past
      /\ \A k : WindowTotal(k)' = WindowTotal(k)
      /\ \A j, k : Ago(j, k)' = Ago(j, k)
  BY <1>1, WindowStays DEF Kept, Rows
<1>3. Kept' = <<c>>
  <2>1. Kept' = RememberedOn(Lanes)'
    BY <1>1 DEF Kept
  <2>2. RememberedOn(Lanes)' = RememberedOn(Lanes)
    BY <1>1, WindowStays
  <2>3. RememberedOn(Lanes) = <<c>>
    BY <1>1 DEF RememberedOn, WindowTotal
  <2> QED BY <2>1, <2>2, <2>3
<1>4. query \in Programs /\ c \in [Keys -> Values] /\ \A k \in Keys : c[k] = WindowTotal(k)
  BY WindowTotalIs DEF Typed
<1> HIDE DEF c
<1>5. ASSUME NEW k \in Keys PROVE WindowTotal(k) = [i \in Lanes |-> LaneSum(<<c>>, k, i)]
  <2>1. ASSUME NEW i \in Lanes PROVE LaneSum(<<c>>, k, i) = WindowTotal(k)[i]
    <3>1. <<>> \in Seq([Keys -> Values]) /\ Append(<<>>, c) = <<c>>
      <4> HIDE DEF Values
      <4> QED OBVIOUS
    <3>2. LaneSum(Append(<<>>, c), k, i) = LaneSum(<<>>, k, i) + c[k][i]
      BY <1>4, <3>1, LaneSumAppend
    <3>3. LaneSum(<<>>, k, i) = 0
      BY LaneSumEmpty
    <3>4. c[k] = WindowTotal(k) /\ c[k][i] \in Nat
      BY <1>4 DEF Values
    <3> QED BY <3>1, <3>2, <3>3, <3>4
  <2>2. WindowTotal(k) = [i \in Lanes |-> WindowTotal(k)[i]]
    BY WindowTotalIs
  <2> QED BY <2>1, <2>2
<1>6. RowsRight'
  BY <1>1, <1>2 DEF Exact, RowsRight, Arrived, Held
<1>7. MergedRight'
  <2>1. \A k \in Keys : Held(k) => mergedData'[posOf[k]] = WindowTotal(k)
    BY <1>1, MergeAdds
  <2> QED BY <1>1, <1>2, <1>3, <1>5, <2>1 DEF MergedRight, Held
<1>8. FreeRight'
  <2>1. \A p \in Pos \ valid : mergedData'[p] = Zero
    BY <1>1, MergeAdds
  <2>2. \A p \in Pos \ valid, r \in Rows : epochData[r][p] = Zero
    BY <1>1 DEF Exact, FreeRight
  <2>3. \A k \in Keys : ~Held(k) => \A j \in 1 .. Len(<<c>>) : <<c>>[j][k] = Zero
    <3>1. \A k \in Keys : ~Held(k) => c[k] = Zero
      BY <1>1, <1>4, MergeAdds
    <3>2. Len(<<c>>) = 1 /\ <<c>>[1] = c
      OBVIOUS
    <3> QED BY <3>1, <3>2
  <2> QED BY <1>1, <1>2, <1>3, <2>1, <2>2, <2>3 DEF FreeRight, Held
<1>9. Bounded'
  BY <1>1, <1>2 DEF Exact, Bounded
<1>10. Reported'
  <2>1. \A k \in Keys : Suspect(WindowTotal(k))' <=> Suspect(WindowTotal(k))
    BY <1>2, SuspectStays
  <2>2. CASE curEpoch = NEpoch - 1
    <3>1. Finds(valid, mergedData', abnormalKeys') /\ valid \in SUBSET Pos
      BY <2>2 DEF MergeTumbling, Typed
    <3>2. abnormalKeys' = {k \in Keys : Suspect(WindowTotal(k))}
      BY <1>1, <3>1, MergeAdds, FindsExactly
    <3> QED BY <1>1, <2>1, <2>2, <3>2 DEF Reported
  <2>3. CASE curEpoch # NEpoch - 1
    BY <1>1, <2>3 DEF Reported, MergeTumbling
  <2> QED BY <2>2, <2>3
<1> QED BY <1>6, <1>7, <1>8, <1>9, <1>10 DEF Exact
-----------------------------------------------------------------------------
(* The end of switchWin: each row grows older by one.                      *)
LEMMA NextRowAgo ==
  ASSUME Typed, sliding, curEpochPos' = NextEpochPos
  PROVE  /\ curEpochPos' = RowAgo(NEPOCH_BUF - 1)
         /\ \A j \in 1 .. NEPOCH_BUF - 1 : RowAgo(j)' = RowAgo(j - 1)
<1> USE QueryAssumption
<1> DEFINE B == NEPOCH_BUF
           c == curEpochPos
           d == curEpochPos'
<1>1. B \in Nat \ {0} /\ c \in 0 .. B - 1
  BY RowType DEF Typed
<1>2. d = IF c = B - 1 THEN 0 ELSE c + 1
  BY <1>1, NextRow DEF NextEpochPos
<1>3. \A j \in 0 .. B : RowAgo(j) = IF j <= c THEN c - j ELSE c + B - j
  BY <1>1, RowAgoIs
<1>4. \A j : RowAgo(j)' = (d + (B - j)) % B
  BY DEF RowAgo
<1>5. ASSUME NEW j \in 1 .. B - 1 PROVE RowAgo(j)' = RowAgo(j - 1)
  <2> HIDE DEF B, c, d
  <2>1. CASE c = B - 1
    <3>1. d + (B - j) = B - j /\ B - j \in 0 .. B - 1
      BY <1>1, <1>2, <2>1
    <3>2. RowAgo(j)' = B - j
      BY <1>1, <1>4, <3>1, Wrap
    <3>3. j - 1 \in 0 .. B /\ j - 1 <= c
      BY <1>1, <2>1
    <3> QED BY <1>1, <1>3, <2>1, <3>2, <3>3
  <2>2. CASE c # B - 1 /\ j <= c + 1
    <3>1. d + (B - j) = (c + 1 - j) + B /\ c + 1 - j \in 0 .. B - 1
      BY <1>1, <1>2, <2>2
    <3>2. RowAgo(j)' = c + 1 - j
      BY <1>1, <1>4, <3>1, Wrap
    <3>3. j - 1 \in 0 .. B /\ j - 1 <= c
      BY <1>1, <2>2
    <3> QED BY <1>1, <1>3, <3>2, <3>3
  <2>3. CASE c # B - 1 /\ j > c + 1
    <3>1. d + (B - j) = c + 1 + B - j /\ c + 1 + B - j \in 0 .. B - 1
      BY <1>1, <1>2, <2>3
    <3>2. RowAgo(j)' = c + 1 + B - j
      BY <1>1, <1>4, <3>1, Wrap
    <3>3. j - 1 \in 0 .. B /\ ~(j - 1 <= c)
      BY <1>1, <2>3
    <3> QED BY <1>1, <1>3, <3>2, <3>3
  <2> QED BY <1>1, <2>1, <2>2, <2>3
<1>6. d = RowAgo(B - 1)
  <2> HIDE DEF B, c, d
  <2>1. B - 1 \in 0 .. B
    BY <1>1
  <2> QED BY <1>1, <1>2, <1>3, <2>1
<1> QED BY <1>5, <1>6

LEMMA RecvDoneExact ==
  ASSUME Typed, Structure, Exact, query' = query, RecvDone
  PROVE  Exact'
<1> USE QueryAssumption
<1>1. PICK clear \in [Pos -> {Zero}] : epochData' = [epochData EXCEPT ![ClearedRow] = clear]
  BY DEF RecvDone
<1> DEFINE s == RememberedOn(Lanes)
           n == Len(past)
<1>2. /\ pc = "recvDone" /\ pc' = "idle" /\ curEpochPos' = NextEpochPos /\ past' = s
      /\ counts' \in [Keys -> {Zero}]
      /\ UNCHANGED <<sliding, posOf, valid, mergedData>>
  BY DEF RecvDone, tableVars
<1>3. /\ Zero' = Zero /\ Lanes' = Lanes /\ Rows' = Rows /\ Kept = s /\ Kept' = s
      /\ query \in Programs /\ curEpochPos \in Rows
      /\ epochData \in [Rows -> [Pos -> Values]]
  BY <1>2, QueryStays DEF Kept, Rows, Typed
<1> HIDE DEF s
<1>4. /\ epochData'[ClearedRow] = clear
      /\ \A r \in Rows : r # ClearedRow => epochData'[r] = epochData[r]
      /\ \A p \in Pos : clear[p] = Zero
      /\ ClearedRow \in Rows
  <2>1. ClearedRow \in Rows
    BY ClearedRowType DEF Typed
  <2> QED BY <1>1, <1>3, <2>1, WriteRow
<1>5. \A k \in Keys : (Held(k)' <=> Held(k)) /\ (Held(k) => posOf[k] \in Pos) /\ ~Arrived(k)'
  BY <1>2, HeldAlone DEF Held, Structure, Arrived
<1>6. ASSUME sliding
      PROVE  /\ n \in Nat /\ n <= NEpoch - 1 /\ NEpoch \in Nat /\ NEPOCH_BUF \in Nat
             /\ NEpoch - 1 \in 0 .. NEPOCH_BUF - 1
             /\ Latest[n + 1] = counts /\ \A j \in 1 .. n : Latest[j] = past[j]
             /\ n < NEpoch - 1 => s = Latest /\ Len(s) = n + 1
             /\ n = NEpoch - 1 => Len(s) = n /\ \A j \in 1 .. n : s[j] = Latest[j + 1]
             /\ \A j \in 1 .. Len(s) : s[j] = counts \/ \E l \in 1 .. n : s[j] = past[l]
             /\ RowAgo(NEpoch - 1) = ClearedRow
  <2>1. n <= NEpoch - 1
    BY <1>6 DEF Exact, Bounded
  <2> QED BY <1>3, <1>6, <2>1, LatestIs, RememberedIs, RowsOfRing DEF s
\* What the row of j sub-windows ago holds after the row of the oldest is cleared.
<1>7. ASSUME sliding, NEW j \in 0 .. NEPOCH_BUF - 1, NEW k \in Keys, Held(k)
      PROVE  epochData'[RowAgo(j)][posOf[k]] =
               IF j = NEpoch - 1 THEN Zero ELSE IF j = 0 THEN counts[k] ELSE Ago(j, k)
  <2>1. CASE j = NEpoch - 1
    BY <1>4, <1>5, <1>6, <1>7, <2>1
  <2>2. CASE j # NEpoch - 1
    <3>1. RowAgo(j) \in Rows /\ RowAgo(j) # ClearedRow
      BY <1>3, <1>6, <1>7, <2>2, RowsOfRing
    <3>2. epochData[RowAgo(j)][posOf[k]] = IF j = 0 THEN counts[k] ELSE Ago(j, k)
      BY <1>2, <1>7, RowsHold DEF Exact
    <3> QED BY <1>4, <2>2, <3>1, <3>2
  <2> QED BY <2>1, <2>2
<1>8. ASSUME NEW k \in Keys, Held(k)
      PROVE  epochData'[curEpochPos'][posOf[k]] = Zero
  <2>1. CASE sliding
    <3>1. curEpochPos' = RowAgo(NEPOCH_BUF - 1) /\ NEPOCH_BUF - 1 \in 0 .. NEPOCH_BUF - 1
      BY <1>2, <1>6, <2>1, NextRowAgo
    <3>2. NEPOCH_BUF - 1 # NEpoch - 1 => NEPOCH_BUF - 1 # 0 /\ ~(NEPOCH_BUF - 1 <= n)
      BY <1>6, <2>1
    <3>3. NEPOCH_BUF - 1 # NEpoch - 1 => Ago(NEPOCH_BUF - 1, k) = Zero
      BY <3>2 DEF Ago
    <3> QED BY <1>7, <1>8, <2>1, <3>1, <3>2, <3>3
  <2>2. CASE ~sliding
    <3>1. curEpochPos' = ClearedRow
      BY <1>2, <2>2 DEF NextEpochPos, ClearedRow
    <3> QED BY <1>4, <1>5, <1>8, <3>1
  <2> QED BY <2>1, <2>2
<1>9. ASSUME sliding, NEW j \in 1 .. NEPOCH_BUF - 1, NEW k \in Keys
      PROVE  Ago(j, k)' = IF j - 1 = NEpoch - 1 THEN Zero
                          ELSE IF j - 1 = 0 THEN counts[k] ELSE Ago(j - 1, k)
  <2>1. Ago(j, k)' = IF j <= Len(s) THEN s[Len(s) + 1 - j][k] ELSE Zero
    BY <1>2, <1>3 DEF Ago
  <2>2. CASE n < NEpoch - 1
    <3>1. s = Latest /\ Len(s) = n + 1
      BY <1>6, <1>9, <2>2
    <3>2. CASE j = 1
      <4>1. Len(s) + 1 - j = n + 1 /\ j <= Len(s) /\ j - 1 = 0 /\ j - 1 # NEpoch - 1
        BY <1>6, <1>9, <2>2, <3>1, <3>2
      <4> QED BY <1>6, <1>9, <2>1, <3>1, <4>1
    <3>3. CASE j # 1 /\ j <= n + 1
      <4>1. n \in Nat /\ j \in Int /\ 1 < j /\ j <= n + 1 /\ NEpoch \in Nat /\ Len(s) = n + 1
        BY <1>6, <1>9, <3>1, <3>3
      <4>2. /\ Len(s) + 1 - j = n + 1 - (j - 1) /\ j <= Len(s) /\ j - 1 # 0 /\ j - 1 # NEpoch - 1
            /\ n + 1 - (j - 1) \in 1 .. n /\ j - 1 <= n
        BY <2>2, <4>1
      <4>3. Ago(j - 1, k) = past[n + 1 - (j - 1)][k]
        BY <4>2 DEF Ago
      <4> QED BY <1>6, <1>9, <2>1, <3>1, <4>2, <4>3
    <3>4. CASE j # 1 /\ j > n + 1
      <4>1. ~(j <= Len(s)) /\ ~(j - 1 <= n) /\ j - 1 # 0
        BY <1>6, <1>9, <3>1, <3>4
      <4>2. Ago(j - 1, k) = Zero
        BY <4>1 DEF Ago
      <4> QED BY <2>1, <4>1, <4>2
    <3>5. j <= n + 1 \/ j > n + 1
      BY <1>6, <1>9
    <3> QED BY <3>2, <3>3, <3>4, <3>5
  <2>3. CASE n = NEpoch - 1
    <3>1. Len(s) = n /\ \A l \in 1 .. n : s[l] = Latest[l + 1]
      BY <1>6, <1>9, <2>3
    <3>2. CASE j > n
      <4>1. ~(j <= Len(s))
        BY <1>6, <1>9, <3>1, <3>2
      <4>2. CASE j - 1 = NEpoch - 1
        BY <2>1, <4>1, <4>2
      <4>3. CASE j - 1 # NEpoch - 1
        <5>1. ~(j - 1 <= n) /\ j - 1 # 0
          BY <1>6, <1>9, <2>3, <3>2, <4>3
        <5>2. Ago(j - 1, k) = Zero
          BY <5>1 DEF Ago
        <5> QED BY <2>1, <4>1, <4>3, <5>1, <5>2
      <4> QED BY <4>2, <4>3
    <3>3. CASE j <= n /\ j = 1
      <4>1. n \in 1 .. n /\ Len(s) + 1 - j = n /\ j <= Len(s) /\ j - 1 = 0 /\ j - 1 # NEpoch - 1
        BY <1>6, <1>9, <2>3, <3>1, <3>3
      <4>2. s[n] = counts
        BY <1>6, <1>9, <3>1, <4>1
      <4> QED BY <2>1, <4>1, <4>2
    <3>4. CASE j <= n /\ j # 1
      <4>1. /\ n + 1 - j \in 1 .. n /\ Len(s) + 1 - j = n + 1 - j /\ j <= Len(s) /\ j - 1 # 0
            /\ (n + 1 - j) + 1 = n + 1 - (j - 1) /\ n + 1 - (j - 1) \in 1 .. n
            /\ j - 1 # NEpoch - 1 /\ j - 1 <= n
        BY <1>6, <1>9, <2>3, <3>1, <3>4
      <4>2. s[n + 1 - j] = Latest[n + 1 - (j - 1)]
        BY <3>1, <4>1
      <4>3. Latest[n + 1 - (j - 1)] = past[n + 1 - (j - 1)]
        BY <1>6, <1>9, <4>1
      <4>4. Ago(j - 1, k) = past[n + 1 - (j - 1)][k]
        BY <4>1 DEF Ago
      <4> QED BY <2>1, <4>1, <4>2, <4>3, <4>4
    <3>5. j <= n \/ j > n
      BY <1>6, <1>9
    <3> QED BY <3>2, <3>3, <3>4, <3>5
  <2>4. n < NEpoch - 1 \/ n = NEpoch - 1
    BY <1>6, <1>9
  <2> QED BY <2>2, <2>3, <2>4
<1>10. RowsRight'
  <2>1. ASSUME sliding, NEW j \in 1 .. NEPOCH_BUF - 1, NEW k \in Keys, Held(k)
        PROVE  epochData'[RowAgo(j)'][posOf[k]] = Ago(j, k)'
    <3>1. RowAgo(j)' = RowAgo(j - 1) /\ j - 1 \in 0 .. NEPOCH_BUF - 1
      BY <1>2, <2>1, NextRowAgo
    <3> QED BY <1>7, <1>9, <2>1, <3>1
  <2> QED BY <1>2, <1>3, <1>5, <1>8, <2>1 DEF RowsRight
<1>11. MergedRight'
  BY <1>2, <1>3, <1>5 DEF Exact, MergedRight
<1>12. FreeRight'
  <2>1. \A p \in Pos \ valid, r \in Rows : epochData'[r][p] = Zero
    BY <1>2, <1>4 DEF Exact, FreeRight
  <2> QED BY <1>2, <1>3, <1>5, <2>1 DEF Exact, FreeRight
<1>13. Bounded'
  <2>1. \A k \in Keys, i \in Lanes : counts'[k][i] <= 2
    <3>1. Zero \in [Lanes -> {0}]
      BY <1>3, ValueFacts
    <3> QED BY <1>2, <3>1
  <2>2. sliding => /\ Len(s) <= NEpoch - 1
                   /\ \A j \in 1 .. Len(s), k \in Keys, i \in Lanes : s[j][k][i] <= 2
    <3> SUFFICES ASSUME sliding
                 PROVE  /\ Len(s) <= NEpoch - 1
                        /\ \A j \in 1 .. Len(s), k \in Keys, i \in Lanes : s[j][k][i] <= 2
      OBVIOUS
    <3>1. /\ \A k \in Keys, i \in Lanes : counts[k][i] <= 2
          /\ \A j \in 1 .. n, k \in Keys, i \in Lanes : past[j][k][i] <= 2
      BY DEF Exact, Bounded
    <3>2. \A j \in 1 .. Len(s) : s[j] = counts \/ \E l \in 1 .. n : s[j] = past[l]
      BY <1>6
    <3>3. Len(s) <= NEpoch - 1
      <4>1. /\ n \in Nat /\ n <= NEpoch - 1 /\ NEpoch \in Nat
            /\ n < NEpoch - 1 => Len(s) = n + 1
            /\ n = NEpoch - 1 => Len(s) = n
        BY <1>6
      <4> HIDE DEF n
      <4> QED BY <4>1
    <3> QED BY <3>1, <3>2, <3>3
  <2> QED BY <1>2, <1>3, <2>1, <2>2 DEF Bounded
<1>14. Reported'
  BY <1>2 DEF Reported
<1> QED BY <1>10, <1>11, <1>12, <1>13, <1>14 DEF Exact
LEMMA ExactStep ==
  ASSUME Typed, Structure, Exact, Fits, AnyStep, query' = query
  PROVE  Exact'
  BY SwitchWinExact, RecvKeysExact, SendRequestsExact, AnswerQueryExact, WriteHotKeyExact,
     RecvKeyValsExact, MergeSlidingExact, MergeTumblingExact, RecvDoneExact DEF AnyStep

LEMMA ExactStays ==
  ASSUME Typed, Exact, UNCHANGED vars
  PROVE  Exact'
<1>1. UNCHANGED <<query, sliding, pc, posOf, valid, epochData, mergedData, abnormalKeys,
                  curEpoch, curEpochPos, requests, unsent, counts, past>>
  BY DEF vars, queryVars, tableVars, clockVars
<1>2. /\ Zero' = Zero /\ Lanes' = Lanes /\ Rows' = Rows /\ Kept' = Kept /\ ClearedRow' = ClearedRow
      /\ \A j, k : Ago(j, k)' = Ago(j, k) /\ RowAgo(j)' = RowAgo(j)
      /\ \A k : WindowTotal(k)' = WindowTotal(k)
  BY <1>1, WindowStays DEF Rows, Kept, ClearedRow, DelEpochPos, RowAgo
<1>3. RowsRight' /\ MergedRight'
  BY <1>1, <1>2 DEF Exact, RowsRight, MergedRight, Held, Arrived, Asked
<1>4. FreeRight' /\ Bounded'
  BY <1>1, <1>2 DEF Exact, FreeRight, Bounded, Held
<1>5. Reported'
  <2>1. \A k \in Keys : Suspect(WindowTotal(k))' <=> Suspect(WindowTotal(k))
    BY <1>1, <1>2, SuspectStays
  <2> QED BY <1>1, <2>1 DEF Exact, Reported
<1> QED BY <1>3, <1>4, <1>5 DEF Exact

LEMMA ExactHolds == Fits => (Spec => [](Typed /\ Structure /\ Exact))
<1> SUFFICES ASSUME Fits PROVE Spec => [](Typed /\ Structure /\ Exact)
  OBVIOUS
<1>1. Init => Typed /\ Structure /\ Exact
  BY InitForm, TypedInit, StructureInit, ExactInit
<1>2. (Typed /\ Structure /\ Exact) /\ [Next]_vars => (Typed /\ Structure /\ Exact)'
  <2> SUFFICES ASSUME Typed /\ Structure /\ Exact, [Next]_vars
               PROVE  (Typed /\ Structure /\ Exact)'
    OBVIOUS
  <2>1. (Typed /\ Structure)'
    BY InvariantStep
  <2>2. Exact'
    BY NextForm, ExactStep, ExactStays
  <2> QED BY <2>1, <2>2
<1> QED BY <1>1, <1>2, PTL DEF Spec

LEMMA SynFloodExact ==
  ASSUME query = "syn-flood", Typed, Structure, Exact
  PROVE  SynFlood!Host!FreeIsClear /\ SynFlood!Host!ReportsExact
<1>1. Zero = SynFlood!Val /\ \A v : Suspect(v) <=> SynFlood!FloodedOrNegative(v)
  BY SynFloodValues
<1>2. SynFlood!Host!FreeIsClear
  BY <1>1 DEF Structure, TableRight, Held, Exact, FreeRight, SynFlood!Host!FreeIsClear,
     SynFlood!Host!Pos, SynFlood!Host!Rows, Pos, Rows
<1>3. \A k : SynFlood!Host!Total(k) = WindowTotal(k)
  <2>1. \A k : SynFlood!Host!Total(k) = TotalOn(DOMAIN SynFlood!Val, k)
    BY Zenon DEF SynFlood!Host!Total, SynFlood!Host!Plus, SynFlood!Host!FoldFunction,
         SynFlood!Host!FoldFunctionOnSet, SynFlood!Host!MapThenFoldSet, TotalOn, Plus,
         FoldFunction, FoldFunctionOnSet, MapThenFoldSet
  <2>2. DOMAIN SynFlood!Val = Lanes
    BY <1>1 DEF Lanes
  <2>3. \A l, k : l = Lanes => TotalOn(l, k) = WindowTotal(k)
    BY DEF WindowTotal
  <2> QED BY <2>1, <2>2, <2>3
<1>4. SynFlood!Host!ReportsExact
  BY <1>1, <1>3 DEF Exact, Reported, SynFlood!Host!ReportsExact,
     SynFlood!Host!LastOfWindow
<1> QED BY <1>2, <1>4

LEMMA CompletedFlowExact ==
  ASSUME query = "completed-flow", Typed, Structure, Exact
  PROVE  CompletedFlow!Host!FreeIsClear /\ CompletedFlow!Host!ReportsExact
<1>1. Zero = CompletedFlow!Val /\ \A v : Suspect(v) <=> CompletedFlow!UnfinishedOrNegative(v)
  BY CompletedFlowValues
<1>2. CompletedFlow!Host!FreeIsClear
  BY <1>1 DEF Structure, TableRight, Held, Exact, FreeRight,
     CompletedFlow!Host!FreeIsClear, CompletedFlow!Host!Pos, CompletedFlow!Host!Rows,
     Pos, Rows
<1>3. \A k : CompletedFlow!Host!Total(k) = WindowTotal(k)
  <2>1. \A k : CompletedFlow!Host!Total(k) = TotalOn(DOMAIN CompletedFlow!Val, k)
    BY Zenon DEF CompletedFlow!Host!Total, CompletedFlow!Host!Plus, CompletedFlow!Host!FoldFunction,
         CompletedFlow!Host!FoldFunctionOnSet, CompletedFlow!Host!MapThenFoldSet, TotalOn, Plus,
         FoldFunction, FoldFunctionOnSet, MapThenFoldSet
  <2>2. DOMAIN CompletedFlow!Val = Lanes
    BY <1>1 DEF Lanes
  <2>3. \A l, k : l = Lanes => TotalOn(l, k) = WindowTotal(k)
    BY DEF WindowTotal
  <2> QED BY <2>1, <2>2, <2>3
<1>4. CompletedFlow!Host!ReportsExact
  BY <1>1, <1>3 DEF Exact, Reported, CompletedFlow!Host!ReportsExact,
     CompletedFlow!Host!LastOfWindow
<1> QED BY <1>2, <1>4

LEMMA SlowlorisExact ==
  ASSUME query = "slowloris-attack", Typed, Structure, Exact
  PROVE  Slowloris!Host!FreeIsClear /\ Slowloris!Host!ReportsExact
<1>1. Zero = Slowloris!Val /\ \A v : Suspect(v) <=> Slowloris!Slow(v)
  BY SlowlorisValues
<1>2. Slowloris!Host!FreeIsClear
  BY <1>1 DEF Structure, TableRight, Held, Exact, FreeRight, Slowloris!Host!FreeIsClear,
     Slowloris!Host!Pos, Slowloris!Host!Rows, Pos, Rows
<1>3. \A k : Slowloris!Host!Total(k) = WindowTotal(k)
  <2>1. \A k : Slowloris!Host!Total(k) = TotalOn(DOMAIN Slowloris!Val, k)
    BY Zenon DEF Slowloris!Host!Total, Slowloris!Host!Plus, Slowloris!Host!FoldFunction,
         Slowloris!Host!FoldFunctionOnSet, Slowloris!Host!MapThenFoldSet, TotalOn, Plus,
         FoldFunction, FoldFunctionOnSet, MapThenFoldSet
  <2>2. DOMAIN Slowloris!Val = Lanes
    BY <1>1 DEF Lanes
  <2>3. \A l, k : l = Lanes => TotalOn(l, k) = WindowTotal(k)
    BY DEF WindowTotal
  <2> QED BY <2>1, <2>2, <2>3
<1>4. Slowloris!Host!ReportsExact
  BY <1>1, <1>3 DEF Exact, Reported, Slowloris!Host!ReportsExact,
     Slowloris!Host!LastOfWindow
<1> QED BY <1>2, <1>4

LEMMA SuperspreaderExact ==
  ASSUME query = "superspreader", Typed, Structure, Exact
  PROVE  Superspreader!Host!FreeIsClear /\ Superspreader!Host!ReportsExact
<1>1. Zero = Superspreader!Val /\ \A v : Suspect(v) <=> Superspreader!Spreads(v)
  BY SuperspreaderValues
<1>2. Superspreader!Host!FreeIsClear
  BY <1>1 DEF Structure, TableRight, Held, Exact, FreeRight,
     Superspreader!Host!FreeIsClear, Superspreader!Host!Pos, Superspreader!Host!Rows,
     Pos, Rows
<1>3. \A k : Superspreader!Host!Total(k) = WindowTotal(k)
  <2>1. \A k : Superspreader!Host!Total(k) = TotalOn(DOMAIN Superspreader!Val, k)
    BY Zenon DEF Superspreader!Host!Total, Superspreader!Host!Plus, Superspreader!Host!FoldFunction,
         Superspreader!Host!FoldFunctionOnSet, Superspreader!Host!MapThenFoldSet, TotalOn, Plus,
         FoldFunction, FoldFunctionOnSet, MapThenFoldSet
  <2>2. DOMAIN Superspreader!Val = Lanes
    BY <1>1 DEF Lanes
  <2>3. \A l, k : l = Lanes => TotalOn(l, k) = WindowTotal(k)
    BY DEF WindowTotal
  <2> QED BY <2>1, <2>2, <2>3
<1>4. Superspreader!Host!ReportsExact
  BY <1>1, <1>3 DEF Exact, Reported, Superspreader!Host!ReportsExact,
     Superspreader!Host!LastOfWindow
<1> QED BY <1>2, <1>4

LEMMA DdosExact ==
  ASSUME query = "ddos", Typed, Structure, Exact
  PROVE  Ddos!Host!FreeIsClear /\ Ddos!Host!ReportsExact
<1>1. Zero = Ddos!Val /\ \A v : Suspect(v) <=> Ddos!Attacked(v)
  BY DdosValues
<1>2. Ddos!Host!FreeIsClear
  BY <1>1 DEF Structure, TableRight, Held, Exact, FreeRight, Ddos!Host!FreeIsClear,
     Ddos!Host!Pos, Ddos!Host!Rows, Pos, Rows
<1>3. \A k : Ddos!Host!Total(k) = WindowTotal(k)
  <2>1. \A k : Ddos!Host!Total(k) = TotalOn(DOMAIN Ddos!Val, k)
    BY Zenon DEF Ddos!Host!Total, Ddos!Host!Plus, Ddos!Host!FoldFunction,
         Ddos!Host!FoldFunctionOnSet, Ddos!Host!MapThenFoldSet, TotalOn, Plus,
         FoldFunction, FoldFunctionOnSet, MapThenFoldSet
  <2>2. DOMAIN Ddos!Val = Lanes
    BY <1>1 DEF Lanes
  <2>3. \A l, k : l = Lanes => TotalOn(l, k) = WindowTotal(k)
    BY DEF WindowTotal
  <2> QED BY <2>1, <2>2, <2>3
<1>4. Ddos!Host!ReportsExact
  BY <1>1, <1>3 DEF Exact, Reported, Ddos!Host!ReportsExact, Ddos!Host!LastOfWindow
<1> QED BY <1>2, <1>4

LEMMA PortScanExact ==
  ASSUME query = "port-scan", Typed, Structure, Exact
  PROVE  PortScan!Host!FreeIsClear /\ PortScan!Host!ReportsExact
<1>1. Zero = PortScan!Val /\ \A v : Suspect(v) <=> PortScan!Scans(v)
  BY PortScanValues
<1>2. PortScan!Host!FreeIsClear
  BY <1>1 DEF Structure, TableRight, Held, Exact, FreeRight, PortScan!Host!FreeIsClear,
     PortScan!Host!Pos, PortScan!Host!Rows, Pos, Rows
<1>3. \A k : PortScan!Host!Total(k) = WindowTotal(k)
  <2>1. \A k : PortScan!Host!Total(k) = TotalOn(DOMAIN PortScan!Val, k)
    BY Zenon DEF PortScan!Host!Total, PortScan!Host!Plus, PortScan!Host!FoldFunction,
         PortScan!Host!FoldFunctionOnSet, PortScan!Host!MapThenFoldSet, TotalOn, Plus,
         FoldFunction, FoldFunctionOnSet, MapThenFoldSet
  <2>2. DOMAIN PortScan!Val = Lanes
    BY <1>1 DEF Lanes
  <2>3. \A l, k : l = Lanes => TotalOn(l, k) = WindowTotal(k)
    BY DEF WindowTotal
  <2> QED BY <2>1, <2>2, <2>3
<1>4. PortScan!Host!ReportsExact
  BY <1>1, <1>3 DEF Exact, Reported, PortScan!Host!ReportsExact,
     PortScan!Host!LastOfWindow
<1> QED BY <1>2, <1>4

LEMMA SshBruteExact ==
  ASSUME query = "ssh-brute", Typed, Structure, Exact
  PROVE  SshBrute!Host!FreeIsClear /\ SshBrute!Host!ReportsExact
<1>1. Zero = SshBrute!Val /\ \A v : Suspect(v) <=> SshBrute!Forced(v)
  BY SshBruteValues
<1>2. SshBrute!Host!FreeIsClear
  BY <1>1 DEF Structure, TableRight, Held, Exact, FreeRight, SshBrute!Host!FreeIsClear,
     SshBrute!Host!Pos, SshBrute!Host!Rows, Pos, Rows
<1>3. \A k : SshBrute!Host!Total(k) = WindowTotal(k)
  <2>1. \A k : SshBrute!Host!Total(k) = TotalOn(DOMAIN SshBrute!Val, k)
    BY Zenon DEF SshBrute!Host!Total, SshBrute!Host!Plus, SshBrute!Host!FoldFunction,
         SshBrute!Host!FoldFunctionOnSet, SshBrute!Host!MapThenFoldSet, TotalOn, Plus,
         FoldFunction, FoldFunctionOnSet, MapThenFoldSet
  <2>2. DOMAIN SshBrute!Val = Lanes
    BY <1>1 DEF Lanes
  <2>3. \A l, k : l = Lanes => TotalOn(l, k) = WindowTotal(k)
    BY DEF WindowTotal
  <2> QED BY <2>1, <2>2, <2>3
<1>4. SshBrute!Host!ReportsExact
  BY <1>1, <1>3 DEF Exact, Reported, SshBrute!Host!ReportsExact,
     SshBrute!Host!LastOfWindow
<1> QED BY <1>2, <1>4

(* Between two runs of switchWin a position that no key has is clear in     *)
(* mergedData and in every row, for the key that takes it next; so a key   *)
(* may lose its position and take another, and counts from zero there.     *)
THEOREM QueriesClear == Fits => (Spec => []FreeIsClear)
<1> SUFFICES ASSUME Fits PROVE Spec => []FreeIsClear
  OBVIOUS
<1>1. Typed /\ Structure /\ Exact => FreeIsClear
  BY SynFloodExact, CompletedFlowExact, SlowlorisExact, SuperspreaderExact, DdosExact,
     PortScanExact, SshBruteExact DEF FreeIsClear
<1> QED BY <1>1, ExactHolds, PTL

(* Every program reports exactly the keys whose exact sum its query asks   *)
(* for, or is negative where it compares unsigned numbers: whichever way   *)
(* the value of a key came in, and whatever positions it had.  The sum is  *)
(* that of the window in a SLIDING build; in the other, where nothing      *)
(* clears mergedData, it is that of all sub-windows since the start.       *)
THEOREM QueriesReport == Fits => (Spec => []ReportsExact)
<1> SUFFICES ASSUME Fits PROVE Spec => []ReportsExact
  OBVIOUS
<1>1. Typed /\ Structure /\ Exact => ReportsExact
  BY SynFloodExact, CompletedFlowExact, SlowlorisExact, SuperspreaderExact, DdosExact,
     PortScanExact, SshBruteExact DEF ReportsExact
<1> QED BY <1>1, ExactHolds, PTL
=============================================================================

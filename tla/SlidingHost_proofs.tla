------------------------- MODULE SlidingHost_proofs -------------------------
(***************************************************************************)
(* For any number of keys, positions, rows and sub-windows: the switch and *)
(* the controller never disagree on where a value goes.                    *)
(***************************************************************************)
EXTENDS SlidingHost, Sums_proofs, TLAPS

(* A remainder is what is left below the divisor, whatever the quotient.    *)
LEMMA RemainderUnique ==
  ASSUME NEW b \in Nat \ {0}, NEW q \in Int, NEW r \in 0 .. b - 1
  PROVE  (b * q + r) % b = r
<1> DEFINE a == b * q + r
           d == a \div b
           m == a % b
<1>1. a \in Int
  OBVIOUS
<1>2. d \in Int /\ m \in 0 .. b - 1 /\ a = b * d + m
  BY <1>1, SMT
<1> HIDE DEF a, d, m
<1>3. b * (q - d) = m - r
  BY <1>2, SMT DEF a
<1>4. q - d = 0
  <2>1. CASE q - d >= 1
    <3>1. b * (q - d) >= b
      BY <1>2, <2>1, SMT
    <3> QED BY <3>1, <1>2, <1>3
  <2>2. CASE q - d =< -1
    <3>1. b * (q - d) =< -b
      BY <1>2, <2>2, SMT
    <3> QED BY <3>1, <1>2, <1>3
  <2> QED BY <2>1, <2>2, <1>2
<1>5. m = r
  BY <1>2, <1>3, <1>4
<1> QED BY <1>5 DEF m, a

(* The epoch register wraps at a multiple of the number of rows.           *)
LEMMA EpochModIsRows == \E m \in Int : EpochMod = NEPOCH_BUF * m
<1> DEFINE m == EpochMod \div NEPOCH_BUF
<1>1. m \in Int /\ EpochMod = NEPOCH_BUF * m + (EpochMod % NEPOCH_BUF)
  BY SlidingHostAssumption, SMT
<1> HIDE DEF m
<1>2. NEPOCH_BUF * m \in Int
  BY <1>1, SlidingHostAssumption
<1>3. EpochMod = NEPOCH_BUF * m
  BY <1>1, <1>2, SlidingHostAssumption
<1> QED BY <1>1, <1>3

(* SwitchRow is one row behind the epoch, which counts modulo EpochMod.    *)
LEMMA RowOfNextEpoch ==
  ASSUME NEW e \in 0 .. EpochMod - 1
  PROVE  (((e + 1) % EpochMod) + EpochMod - 1) % NEPOCH_BUF = e % NEPOCH_BUF
<1>1. PICK m \in Int : EpochMod = NEPOCH_BUF * m
  BY EpochModIsRows
<1> DEFINE b == NEPOCH_BUF
           q == e \div b
           r == e % b
<1>2. b \in Nat \ {0} /\ q \in Int /\ r \in 0 .. b - 1 /\ e = b * q + r
  BY SlidingHostAssumption, SMT
<1> HIDE DEF q, r
<1>3. CASE e + 1 < EpochMod
  <2>1. (e + 1) % EpochMod = e + 1
    BY <1>3, SlidingHostAssumption, SMT
  <2>2. e + 1 + EpochMod - 1 = b * (q + m) + r
    BY <1>1, <1>2, SlidingHostAssumption, SMT
  <2>3. q + m \in Int
    BY <1>1, <1>2
  <2>4. (b * (q + m) + r) % b = r
    BY <1>2, <2>3, RemainderUnique
  <2> QED BY <2>1, <2>2, <2>4 DEF r
<1>4. CASE e + 1 = EpochMod
  <2>1. (e + 1) % EpochMod = 0
    BY <1>4, SlidingHostAssumption, SMT
  <2> QED BY <2>1, <1>4
<1> QED BY <1>3, <1>4, SlidingHostAssumption

LEMMA RowAfterSwitchRow ==
  ASSUME NEW e \in 0 .. EpochMod - 1
  PROVE  (((e + EpochMod - 1) % NEPOCH_BUF) + 1) % NEPOCH_BUF = e % NEPOCH_BUF
<1>1. PICK m \in Int : EpochMod = NEPOCH_BUF * m
  BY EpochModIsRows
<1> DEFINE b == NEPOCH_BUF
           f == e + EpochMod - 1
           q == f \div b
           r == f % b
<1>2. b \in Nat \ {0} /\ f \in Int
  BY SlidingHostAssumption
<1> HIDE DEF f
<1>3. q \in Int /\ r \in 0 .. b - 1 /\ f = b * q + r
  BY <1>2, SMT
<1> HIDE DEF q, r
<1>4. e = b * q + r - b * m + 1
  BY <1>1, <1>2, <1>3, SlidingHostAssumption DEF f
<1>5. CASE r + 1 < b
  <2>1. (r + 1) % b = r + 1
    BY <1>2, <1>3, <1>5, SMT
  <2>2. e = b * (q - m) + (r + 1)
    BY <1>1, <1>2, <1>3, <1>4, SMT
  <2>3. q - m \in Int /\ r + 1 \in 0 .. b - 1
    BY <1>1, <1>2, <1>3, <1>5
  <2>4. (b * (q - m) + (r + 1)) % b = r + 1
    BY <1>2, <2>3, RemainderUnique
  <2> QED BY <2>1, <2>2, <2>4 DEF r, f
<1>6. CASE r + 1 = b
  <2>1. (r + 1) % b = 0
    BY <1>2, <1>6, SMT
  <2>2. e = b * (q - m + 1) + 0
    BY <1>1, <1>2, <1>3, <1>4, <1>6, SMT
  <2>3. q - m + 1 \in Int /\ 0 \in 0 .. b - 1
    BY <1>1, <1>2, <1>3
  <2>4. (b * (q - m + 1) + 0) % b = 0
    BY <1>2, <2>3, RemainderUnique
  <2> QED BY <2>1, <2>2, <2>4 DEF r, f
<1> QED BY <1>3, <1>5, <1>6, <1>2

(* Initially only the pinned keys have a position, each its own.           *)
LEMMA InitEstablishes == Init => Addressing
<1> SUFFICES ASSUME Init PROVE Addressing
  OBVIOUS
<1> USE SlidingHostAssumption
<1>1. \A k \in HotKeys : HotPos[k] \in Pos /\ HotPos[k] \in Pinned /\ keys[HotPos[k]] = k
  BY DEF Init, Pinned
<1>2. \A p \in Pinned : /\ p \in Pos
                        /\ keys[p] \in HotKeys /\ HotPos[keys[p]] = p
  BY <1>1 DEF Pinned
<1>3. TypeOK
  <2>1. keys \in [Pos -> Keys \cup {NoKey}]
    BY <1>2 DEF Init
  <2>2. posOf \in [Keys -> Pos \cup {NoPos}] /\ valid \subseteq Pos /\ pin \subseteq Pos
    BY <1>1, <1>2 DEF Init
  <2>3. epoch \in 0 .. EpochMod - 1 /\ curEpochPos \in Ring
    BY DEF Init, Ring
  <2>4. counts \in [Keys -> Nat] /\ epochData \in [Ring -> [Pos -> Nat]] /\ mergedData \in [Pos -> Int]
    BY DEF Init, NoCounts
  <2> QED BY <2>1, <2>2, <2>3, <2>4 DEF Init, TypeOK
<1>4. TableAgrees
  BY <1>1, <1>2 DEF Init, TableAgrees
<1>5. Pinning /\ QueriesRight /\ Untaken
  BY DEF Init, Pinning, QueriesRight, Untaken
<1>6. InStep
  BY SMT DEF Init, InStep
<1> QED BY <1>3, <1>4, <1>5, <1>6 DEF Addressing

(* The hash table gives a key the position it has or one that nobody has.  *)
LEMMA InsKeyPreserves ==
  ASSUME Addressing, NEW k \in Keys, NEW p \in Pos, InsKey(k, p)
  PROVE  /\ TableAgrees' /\ Pinning'
         /\ posOf' \in [Keys -> Pos \cup {NoPos}] /\ keys' \in [Pos -> Keys \cup {NoKey}]
         /\ valid' \subseteq Pos /\ pin' = pin
         /\ posOf'[k] = p /\ keys'[p] = k
         /\ \A j \in Keys : posOf[j] # NoPos => posOf'[j] = posOf[j]
         /\ \A q \in Pos : keys'[q] = NoKey => keys[q] = NoKey
<1> USE SlidingHostAssumption DEF Addressing
<1>1. /\ posOf' = [posOf EXCEPT ![k] = p]
      /\ keys' = [keys EXCEPT ![p] = k]
      /\ valid' = valid \cup {p}
      /\ pin' = pin
  BY DEF InsKey
<1>2. /\ posOf \in [Keys -> Pos \cup {NoPos}] /\ keys \in [Pos -> Keys \cup {NoKey}]
      /\ valid \subseteq Pos
  BY DEF TypeOK
<1>3. /\ \A j \in Keys : posOf'[j] = IF j = k THEN p ELSE posOf[j]
      /\ \A q \in Pos : keys'[q] = IF q = p THEN k ELSE keys[q]
  BY <1>1, <1>2
<1>4. \A j \in Keys : posOf[j] = p => j = k
  BY <1>2 DEF InsKey, AddKey, TableAgrees
<1>5. posOf[k] # NoPos => posOf[k] = p
  BY DEF InsKey, AddKey
<1>6. TableAgrees'
  BY <1>1, <1>2, <1>3, <1>4, <1>5 DEF TableAgrees
<1>7. Pinning'
  BY <1>1, <1>3, <1>5 DEF Pinning
<1> QED BY <1>1, <1>2, <1>3, <1>5, <1>6, <1>7

(* A value that is put at the place of a key leaves untaken positions clear.*)
LEMMA PutPreserves ==
  ASSUME Addressing, NEW row \in Ring, NEW p \in Pos, NEW val \in Nat, Put(row, p, val)
  PROVE  /\ epochData' \in [Ring -> [Pos -> Nat]]
         /\ \A r \in Ring : \A q \in Pos : q # p => epochData'[r][q] = epochData[r][q]
  BY DEF Addressing, TypeOK, Put

(* Every step preserves the invariant: a sub-window ends and is reported.  *)
LEMMA SwitchWinPreserves ==
  ASSUME NEW c \in [Keys -> 0 .. MaxCount], NEW over \in SUBSET Keys, Addressing, SwitchWin(c, over)
  PROVE  Addressing'
<1> USE SlidingHostAssumption DEF Addressing
<1>1. TypeOK'
  BY DEF SwitchWin, TypeOK, tableVars, dataVars
<1>2. TableAgrees' /\ Pinning' /\ QueriesRight' /\ Untaken'
  BY DEF SwitchWin, tableVars, dataVars, TableAgrees, Pinning, QueriesRight, Untaken
<1>3. InStep'
  BY DEF SwitchWin, InStep
<1> QED BY <1>1, <1>2, <1>3

LEMMA RecvKeyPreserves ==
  ASSUME NEW k \in Keys, NEW p \in Pos, Addressing, RecvKey(k, p)
  PROVE  Addressing'
<1> USE SlidingHostAssumption DEF Addressing
<1>1. InsKey(k, p) /\ pc = "recvKeys" /\ UNCHANGED <<pc, dataVars, curEpochPos, epoch, counts>>
  BY DEF RecvKey
<1>2. queries' = queries \cup {[key |-> k, row |-> curEpochPos, pos |-> p]}
  BY DEF RecvKey
<1>3. TypeOK'
  <2>1. queries' \subseteq Query
    BY <1>2 DEF TypeOK, Query
  <2>2. unsent' \subseteq Keys
    BY DEF RecvKey, TypeOK
  <2> QED BY <1>1, <2>1, <2>2, InsKeyPreserves DEF TypeOK, dataVars
<1>4. TableAgrees' /\ Pinning'
  BY <1>1, InsKeyPreserves
<1>5. QueriesRight'
  <2>1. \A q \in queries : q.key \in Keys /\ q.pos \in Pos /\ q.pos = posOf[q.key] /\ q.row = curEpochPos
    BY DEF TypeOK, Query, QueriesRight
  <2>2. \A q \in queries : q.pos = posOf'[q.key]
    BY <1>1, <2>1, InsKeyPreserves
  <2>3. p = posOf'[k]
    BY <1>1, InsKeyPreserves
  <2> QED BY <1>1, <1>2, <2>1, <2>2, <2>3 DEF QueriesRight
<1>6. Untaken'
  <2>1. epochData' = epochData /\ mergedData' = mergedData
    BY <1>1 DEF dataVars
  <2> QED BY <1>1, <2>1, InsKeyPreserves DEF Untaken
<1>7. InStep'
  BY <1>1 DEF InStep
<1> QED BY <1>3, <1>4, <1>5, <1>6, <1>7

LEMMA SendRequestsPreserves == ASSUME Addressing, SendRequests PROVE Addressing'
<1> USE SlidingHostAssumption DEF Addressing
<1>1. pc = "recvKeys" /\ pc' = "recvKeyVals" /\ UNCHANGED <<tableVars, dataVars, curEpochPos, queries, counts>>
  BY DEF SendRequests
<1>2. epoch' = (epoch + 1) % EpochMod
  BY DEF SendRequests
<1>3. epoch \in 0 .. EpochMod - 1 /\ epoch' \in 0 .. EpochMod - 1
  BY <1>2, SMT DEF TypeOK
<1>4. TypeOK'
  <2>1. unsent' \subseteq Keys
    BY DEF SendRequests
  <2> QED BY <1>1, <1>3, <2>1 DEF TypeOK, tableVars, dataVars
<1>5. TableAgrees' /\ Pinning' /\ QueriesRight' /\ Untaken'
  BY <1>1 DEF tableVars, dataVars, TableAgrees, Pinning, QueriesRight, Untaken
<1>6. InStep'
  <2>1. curEpochPos' = epoch % NEPOCH_BUF
    BY <1>1 DEF InStep
  <2>2. (((epoch + 1) % EpochMod) + EpochMod - 1) % NEPOCH_BUF = epoch % NEPOCH_BUF
    BY <1>3, RowOfNextEpoch
  <2> QED BY <1>1, <1>2, <2>1, <2>2 DEF InStep, SwitchRow
<1> QED BY <1>4, <1>5, <1>6

LEMMA AnswerQueryPreserves == ASSUME NEW q \in queries, Addressing, AnswerQuery(q) PROVE Addressing'
<1> USE SlidingHostAssumption DEF Addressing
<1>1. q.key \in Keys /\ q.row \in Ring /\ q.pos \in Pos /\ counts[q.key] \in Nat
  BY DEF TypeOK, Query
<1>2. /\ Put(q.row, q.pos, counts[q.key]) /\ queries' \subseteq queries
      /\ UNCHANGED <<pc, tableVars, mergedData, abnormalKeys, curEpochPos, epoch, unsent, counts>>
  BY DEF AnswerQuery
<1>3. /\ epochData' \in [Ring -> [Pos -> Nat]]
      /\ \A r \in Ring : \A p \in Pos : p # q.pos => epochData'[r][p] = epochData[r][p]
  BY <1>1, <1>2, PutPreserves
<1>4. keys[q.pos] # NoKey
  BY <1>1 DEF QueriesRight, TableAgrees
<1>5. TypeOK'
  BY <1>2, <1>3 DEF TypeOK, tableVars
<1>6. TableAgrees' /\ Pinning' /\ QueriesRight'
  BY <1>2 DEF tableVars, TableAgrees, Pinning, QueriesRight
<1>7. Untaken'
  BY <1>2, <1>3, <1>4 DEF tableVars, Untaken
<1>8. InStep'
  BY <1>2 DEF InStep, SwitchRow
<1> QED BY <1>5, <1>6, <1>7, <1>8

LEMMA WriteHotKeyPreserves == ASSUME NEW k \in HotKeys, Addressing, WriteHotKey(k) PROVE Addressing'
<1> USE SlidingHostAssumption DEF Addressing
<1>1. /\ k \in Keys /\ HotPos[k] \in Pos /\ counts[k] \in Nat /\ curEpochPos \in Ring
      /\ SwitchRow = curEpochPos
  BY DEF TypeOK, WriteHotKey, InStep
<1>2. /\ Put(curEpochPos, HotPos[k], counts[k]) /\ unsent' \subseteq unsent
      /\ UNCHANGED <<pc, tableVars, mergedData, abnormalKeys, curEpochPos, epoch, queries, counts>>
  BY <1>1 DEF WriteHotKey
<1>3. /\ epochData' \in [Ring -> [Pos -> Nat]]
      /\ \A r \in Ring : \A p \in Pos : p # HotPos[k] => epochData'[r][p] = epochData[r][p]
  BY <1>1, <1>2, PutPreserves
<1>4. keys[HotPos[k]] # NoKey
  BY <1>1 DEF Pinning, TableAgrees
<1>5. TypeOK'
  BY <1>2, <1>3 DEF TypeOK, tableVars
<1>6. TableAgrees' /\ Pinning' /\ QueriesRight'
  BY <1>2 DEF tableVars, TableAgrees, Pinning, QueriesRight
<1>7. Untaken'
  BY <1>2, <1>3, <1>4 DEF tableVars, Untaken
<1>8. InStep'
  BY <1>2 DEF InStep, SwitchRow
<1> QED BY <1>5, <1>6, <1>7, <1>8

LEMMA RecvKeyValPreserves ==
  ASSUME NEW k \in Keys, NEW p \in Pos, Addressing, RecvKeyVal(k, p)
  PROVE  Addressing'
<1> USE SlidingHostAssumption DEF Addressing
<1>1. /\ InsKey(k, p) /\ Put(curEpochPos, p, counts[k]) /\ unsent' \subseteq unsent
      /\ UNCHANGED <<pc, mergedData, abnormalKeys, curEpochPos, epoch, queries, counts>>
  BY DEF RecvKeyVal
<1>2. /\ epochData' \in [Ring -> [Pos -> Nat]]
      /\ \A r \in Ring : \A j \in Pos : j # p => epochData'[r][j] = epochData[r][j]
  BY <1>1, PutPreserves DEF TypeOK
<1>3. TypeOK'
  BY <1>1, <1>2, InsKeyPreserves DEF TypeOK
<1>4. TableAgrees' /\ Pinning'
  BY <1>1, InsKeyPreserves
<1>5. QueriesRight'
  <2>1. \A q \in queries : q.key \in Keys /\ q.pos \in Pos /\ q.pos = posOf[q.key]
    BY DEF TypeOK, Query, QueriesRight
  <2>2. \A q \in queries : q.pos = posOf'[q.key]
    BY <1>1, <2>1, InsKeyPreserves
  <2> QED BY <1>1, <2>2 DEF QueriesRight
<1>6. Untaken'
  <2>1. keys'[p] # NoKey
    BY <1>1, InsKeyPreserves
  <2>2. \A j \in Pos : keys'[j] = NoKey => keys[j] = NoKey /\ j # p
    BY <1>1, <2>1, InsKeyPreserves
  <2> QED BY <1>1, <1>2, <2>2 DEF Untaken
<1>7. InStep'
  BY <1>1 DEF InStep, SwitchRow
<1> QED BY <1>3, <1>4, <1>5, <1>6, <1>7

LEMMA DelEpochPosInRing == ASSUME curEpochPos \in Ring PROVE DelEpochPos \in Ring
<1> DEFINE n == curEpochPos + (NEPOCH_BUF - (NEpoch - 1))
<1>1. n \in Int /\ NEPOCH_BUF \in Nat \ {0}
  BY SlidingHostAssumption DEF Ring
<1> HIDE DEF n
<1>2. n % NEPOCH_BUF \in 0 .. NEPOCH_BUF - 1
  BY <1>1, SMT
<1> QED BY <1>2 DEF n, DelEpochPos, Ring

(* Only keys that are not pinned are deleted, each at its own position.    *)
LEMMA MergePreserves == ASSUME Addressing, Merge PROVE Addressing'
<1> USE SlidingHostAssumption DEF Addressing
<1> DEFINE added == [p \in Pos |-> mergedData[p] + epochData[curEpochPos][p]]
           left == [p \in Pos |-> added[p] - epochData[DelEpochPos][p]]
           del == FoundDel(left)
<1>1. /\ pc = "recvKeyVals" /\ pc' = "recvDone" /\ queries = {}
      /\ UNCHANGED <<keys, pin, epochData, curEpochPos, epoch, queries, unsent>>
      /\ abnormalKeys' = {keys[p] : p \in {q \in Pos : added[q] >= Threshold}}
      /\ mergedData' = left
      /\ valid' = valid \ del
      /\ posOf' = [k \in Keys |-> IF \E p \in del : keys[p] = k THEN NoPos ELSE posOf[k]]
      /\ counts' = NoCounts
  BY DEF Merge
<1>2. curEpochPos \in Ring /\ DelEpochPos \in Ring
  BY DelEpochPosInRing DEF TypeOK
<1>3. /\ \A p \in Pos : added[p] \in Int /\ left[p] \in Int
      /\ \A p \in Pos : keys[p] = NoKey => added[p] = 0 /\ left[p] = 0
  BY <1>2 DEF TypeOK, Untaken
<1>4. del \subseteq valid \ pin
  BY DEF FoundDel
<1>5. left \in [Pos -> Int]
  BY <1>3
<1> HIDE DEF added, left, del
<1>6. TypeOK'
  <2>1. abnormalKeys' \subseteq Keys
    <3>1. \A q \in Pos : added[q] >= Threshold => keys[q] \in Keys
      BY <1>3 DEF TypeOK
    <3> QED BY <1>1, <3>1
  <2>2. posOf' \in [Keys -> Pos \cup {NoPos}] /\ valid' \subseteq Pos
    BY <1>1 DEF TypeOK
  <2>3. mergedData' \in [Pos -> Int] /\ counts' \in [Keys -> Nat]
    BY <1>1, <1>5 DEF NoCounts
  <2> QED BY <1>1, <2>1, <2>2, <2>3 DEF TypeOK
<1>7. TableAgrees'
  <2>1. ASSUME NEW k \in Keys, posOf'[k] # NoPos
        PROVE  posOf'[k] \in valid' /\ keys'[posOf'[k]] = k
    <3>1. posOf'[k] = posOf[k] /\ \A p \in del : keys[p] # k
      BY <1>1, <2>1
    <3>2. posOf[k] \in valid /\ keys[posOf[k]] = k
      BY <2>1, <3>1 DEF TableAgrees
    <3> QED BY <1>1, <3>1, <3>2
  <2>2. ASSUME NEW p \in valid'
        PROVE  keys'[p] \in Keys /\ posOf'[keys'[p]] = p
    <3>1. p \in valid /\ p \notin del /\ keys'[p] = keys[p]
      BY <1>1
    <3>2. keys[p] \in Keys /\ posOf[keys[p]] = p
      BY <3>1 DEF TableAgrees
    <3>3. \A q \in del : keys[q] # keys[p]
      BY <1>4, <3>1, <3>2 DEF TableAgrees
    <3> QED BY <1>1, <3>1, <3>2, <3>3
  <2> QED BY <2>1, <2>2 DEF TableAgrees
<1>8. Pinning'
  <2>1. ASSUME NEW k \in HotKeys PROVE posOf'[k] = HotPos[k]
    <3>1. k \in Keys /\ posOf[k] = HotPos[k] /\ HotPos[k] \in pin
      BY DEF Pinning, Pinned
    <3>2. \A q \in del : keys[q] # k
      BY <1>4, <3>1 DEF TableAgrees
    <3> QED BY <1>1, <3>1, <3>2
  <2> QED BY <1>1, <2>1 DEF Pinning
<1>9. QueriesRight'
  BY <1>1 DEF QueriesRight
<1>10. Untaken'
  BY <1>1, <1>3 DEF Untaken
<1>11. InStep'
  BY <1>1 DEF InStep, SwitchRow
<1> QED BY <1>6, <1>7, <1>8, <1>9, <1>10, <1>11

LEMMA RecvDonePreserves == ASSUME Addressing, RecvDone PROVE Addressing'
<1> USE SlidingHostAssumption DEF Addressing
<1>1. /\ pc = "recvDone" /\ pc' = "idle"
      /\ epochData' = [epochData EXCEPT ![DelEpochPos] = [p \in Pos |-> 0]]
      /\ curEpochPos' = (curEpochPos + 1) % NEPOCH_BUF
      /\ UNCHANGED <<tableVars, mergedData, abnormalKeys, epoch, queries, unsent, counts>>
  BY DEF RecvDone, NextEpochPos
<1>2. epoch \in 0 .. EpochMod - 1 /\ curEpochPos = SwitchRow
  BY <1>1 DEF TypeOK, InStep
<1>3. curEpochPos' = epoch % NEPOCH_BUF
  BY <1>1, <1>2, RowAfterSwitchRow DEF SwitchRow
<1>4. TypeOK'
  <2>1. curEpochPos' \in Ring
    BY <1>2, <1>3, SMT DEF Ring
  <2>2. epochData' \in [Ring -> [Pos -> Nat]]
    BY <1>1 DEF TypeOK
  <2> QED BY <1>1, <2>1, <2>2 DEF TypeOK, tableVars
<1>5. TableAgrees' /\ Pinning'
  BY <1>1 DEF tableVars, TableAgrees, Pinning
<1>6. QueriesRight'
  BY <1>1 DEF QueriesRight
<1>7. Untaken'
  <2>1. \A r \in Ring : \A p \in Pos : epochData'[r][p] = IF r = DelEpochPos THEN 0 ELSE epochData[r][p]
    BY <1>1 DEF TypeOK
  <2> QED BY <1>1, <2>1 DEF tableVars, Untaken
<1>8. InStep'
  BY <1>1, <1>3 DEF InStep
<1> QED BY <1>4, <1>5, <1>6, <1>7, <1>8


-----------------------------------------------------------------------------
(* The rows of the last NEPOCH_BUF sub-windows are all rows, each once.    *)
Back(i) == IF i <= curEpochPos THEN curEpochPos - i ELSE curEpochPos + NEPOCH_BUF - i

LEMMA BackInRing ==
  ASSUME TypeOK, NEW i \in 0 .. NEPOCH_BUF
  PROVE  (curEpochPos + NEPOCH_BUF - i) % NEPOCH_BUF = Back(i) /\ Back(i) \in Ring
<1> DEFINE b == NEPOCH_BUF
           c == curEpochPos
<1>1. b \in Nat \ {0} /\ c \in 0 .. b - 1
  BY SlidingHostAssumption DEF TypeOK, Ring
<1>2. CASE i <= c
  <2>1. c + b - i = b * 1 + (c - i) /\ c - i \in 0 .. b - 1
    BY <1>1, <1>2
  <2>2. (b * 1 + (c - i)) % b = c - i
    BY <1>1, <2>1, RemainderUnique
  <2> QED BY <1>2, <2>1, <2>2 DEF Back, Ring
<1>3. CASE i > c
  <2>1. c + b - i = b * 0 + (c + b - i) /\ c + b - i \in 0 .. b - 1
    BY <1>1, <1>3
  <2>2. (b * 0 + (c + b - i)) % b = c + b - i
    BY <1>1, <2>1, RemainderUnique
  <2> QED BY <1>1, <1>3, <2>1, <2>2 DEF Back, Ring
<1> QED BY <1>1, <1>2, <1>3

(* How many rows back the i-th last sub-window lies.                       *)
Ago(i) == IF pc = "recvDone" THEN i - 1 ELSE i

LEMMA RowBackIs ==
  ASSUME TypeOK, NEW i \in 1 .. NEPOCH_BUF
  PROVE  RowBack(i) = Back(Ago(i)) /\ RowBack(i) \in Ring /\ Ago(i) \in 0 .. NEPOCH_BUF
<1>1. Ago(i) \in 0 .. NEPOCH_BUF
  BY SlidingHostAssumption DEF Ago
<1> QED BY <1>1, BackInRing DEF RowBack, Ago

LEMMA RowsApart ==
  ASSUME TypeOK, NEW i \in 1 .. NEPOCH_BUF, NEW j \in 1 .. NEPOCH_BUF, RowBack(i) = RowBack(j)
  PROVE  i = j
<1>1. Back(Ago(i)) = Back(Ago(j))
  BY RowBackIs
<1> QED BY <1>1, SlidingHostAssumption DEF Back, Ago, TypeOK, Ring

LEMMA EveryRowLiesBack ==
  ASSUME TypeOK, pc # "recvDone", NEW r \in Ring
  PROVE  \E i \in 1 .. NEPOCH_BUF : RowBack(i) = r
<1> DEFINE i == IF r < curEpochPos THEN curEpochPos - r ELSE curEpochPos + NEPOCH_BUF - r
<1>1. i \in 1 .. NEPOCH_BUF /\ Back(i) = r /\ Ago(i) = i
  BY SlidingHostAssumption DEF Back, Ago, TypeOK, Ring
<1> HIDE DEF i
<1>2. RowBack(i) = Back(i)
  BY <1>1, RowBackIs
<1> QED BY <1>1, <1>2

(* The row being filled, and the row that is cleared.                      *)
LEMMA RowsOfThisSubWindow ==
  ASSUME TypeOK
  PROVE  /\ pc # "recvDone" => RowBack(NEPOCH_BUF) = curEpochPos
         /\ pc = "recvDone" => RowBack(1) = curEpochPos /\ RowBack(NEpoch) = DelEpochPos
         /\ pc # "recvDone" =>
              DelEpochPos = IF NEpoch = 1 THEN curEpochPos ELSE RowBack(NEpoch - 1)
<1>1. /\ NEPOCH_BUF \in 1 .. NEPOCH_BUF /\ 1 \in 1 .. NEPOCH_BUF /\ NEpoch \in 1 .. NEPOCH_BUF
      /\ NEpoch # 1 => NEpoch - 1 \in 1 .. NEPOCH_BUF
      /\ NEpoch - 1 \in 0 .. NEPOCH_BUF
  BY SlidingHostAssumption
<1>2. Back(0) = curEpochPos /\ Back(NEPOCH_BUF) = curEpochPos
  BY SlidingHostAssumption DEF Back, TypeOK, Ring
<1>3. DelEpochPos = Back(NEpoch - 1)
  <2>1. curEpochPos + (NEPOCH_BUF - (NEpoch - 1)) = curEpochPos + NEPOCH_BUF - (NEpoch - 1)
    BY SlidingHostAssumption DEF TypeOK, Ring
  <2> QED BY <1>1, <2>1, BackInRing DEF DelEpochPos
<1>4. /\ RowBack(NEPOCH_BUF) = Back(Ago(NEPOCH_BUF))
      /\ RowBack(1) = Back(Ago(1))
      /\ RowBack(NEpoch) = Back(Ago(NEpoch))
      /\ NEpoch # 1 => RowBack(NEpoch - 1) = Back(Ago(NEpoch - 1))
  BY <1>1, RowBackIs
<1>5. 1 - 1 = 0
  OBVIOUS
<1> QED BY <1>2, <1>3, <1>4, <1>5 DEF Ago

-----------------------------------------------------------------------------
(* The counts at a position in the rows of the window.                     *)
Terms(p) == [i \in 1 .. NEpoch - 1 |-> epochData[RowBack(i)][p]]

LEMMA WindowFinite == IsFiniteSet(1 .. NEpoch - 1) /\ 1 .. NEpoch - 1 \subseteq 1 .. NEPOCH_BUF
<1>1. NEpoch - 1 \in Int
  BY SlidingHostAssumption
<1>2. IsFiniteSet(1 .. NEpoch - 1)
  BY <1>1, FS_Interval
<1> QED BY <1>2, SlidingHostAssumption

LEMMA TermsType ==
  ASSUME TypeOK, NEW p \in Pos
  PROVE  Terms(p) \in [1 .. NEpoch - 1 -> Nat]
<1>1. \A i \in 1 .. NEpoch - 1 : RowBack(i) \in Ring
  BY WindowFinite, RowBackIs
<1> QED BY <1>1 DEF Terms, TypeOK

(* Where the row being filled is the only one to change.                   *)
Filling ==
  /\ pc # "recvDone" /\ pc' # "recvDone"
  /\ UNCHANGED <<curEpochPos, mergedData>>
  /\ \A r \in Ring : r # curEpochPos => epochData'[r] = epochData[r]

LEMMA FillingKeepsRows ==
  ASSUME IInv, Filling
  PROVE  /\ \A i \in 1 .. NEPOCH_BUF : RowBack(i)' = RowBack(i)
         /\ \A i \in 1 .. NEPOCH_BUF - 1 : epochData'[RowBack(i)] = epochData[RowBack(i)]
         /\ \A p \in Pos : Terms(p)' = Terms(p)
<1>1. TypeOK
  BY DEF IInv, Addressing
<1>2. \A i \in 1 .. NEPOCH_BUF : RowBack(i)' = RowBack(i)
  BY DEF Filling, RowBack
<1>3. ASSUME NEW i \in 1 .. NEPOCH_BUF - 1
      PROVE  epochData'[RowBack(i)] = epochData[RowBack(i)]
  <2>1. i \in 1 .. NEPOCH_BUF /\ NEPOCH_BUF \in 1 .. NEPOCH_BUF /\ i # NEPOCH_BUF
    BY SlidingHostAssumption
  <2>2. RowBack(i) \in Ring /\ RowBack(i) # RowBack(NEPOCH_BUF)
    BY <1>1, <2>1, RowBackIs, RowsApart
  <2> QED BY <1>1, <2>2, RowsOfThisSubWindow DEF Filling
<1>4. 1 .. NEpoch - 1 \subseteq 1 .. NEPOCH_BUF - 1
  BY SlidingHostAssumption
<1>5. \A i \in 1 .. NEpoch - 1 : RowBack(i)' = RowBack(i) /\ epochData'[RowBack(i)] = epochData[RowBack(i)]
  BY <1>2, <1>3, <1>4, WindowFinite
<1> QED BY <1>2, <1>3, <1>5 DEF Terms

LEMMA FillingCounts ==
  ASSUME IInv, Filling, pc' # "recvKeyVals" => pc # "recvKeyVals" /\ epochData' = epochData
  PROVE  MergedIsWindow' /\ UnusedIsClear'
<1>1. MergedIsWindow'
  BY FillingKeepsRows DEF IInv, Counting, MergedIsWindow, Terms, Filling
<1>2. UnusedIsClear'
  <2>1. \A i \in Unused' : i \in Unused /\ i \in 1 .. NEPOCH_BUF
    BY SlidingHostAssumption DEF Unused, Filling
  <2>2. \A i \in Unused' : epochData'[RowBack(i)] = epochData[RowBack(i)]
    <3>1. CASE epochData' = epochData
      BY <3>1
    <3>2. CASE pc' = "recvKeyVals"
      <4>1. Unused' \subseteq 1 .. NEPOCH_BUF - 1
        BY <3>2, SlidingHostAssumption DEF Unused
      <4> QED BY <4>1, FillingKeepsRows
    <3> QED BY <3>1, <3>2
  <2> QED BY <2>1, <2>2, FillingKeepsRows DEF IInv, Counting, UnusedIsClear
<1> QED BY <1>1, <1>2

-----------------------------------------------------------------------------
(* Every step keeps the counts.                                            *)
LEMMA InitCounts == Init => Counting
<1> SUFFICES ASSUME Init PROVE Counting
  OBVIOUS
<1>1. TypeOK
  BY InitEstablishes DEF Addressing
<1>2. \A r \in Ring : \A p \in Pos : epochData[r][p] = 0
  BY DEF Init
<1>3. \A i \in 1 .. NEPOCH_BUF : RowBack(i) \in Ring
  BY <1>1, RowBackIs
<1>4. MergedIsWindow
  <2>1. ASSUME NEW p \in Pos PROVE Total(Terms(p)) = 0
    <3>1. Terms(p) \in [1 .. NEpoch - 1 -> Int] /\ \A i \in 1 .. NEpoch - 1 : Terms(p)[i] = 0
      BY <1>1, <1>2, <1>3, TermsType, WindowFinite DEF Terms
    <3> QED BY <3>1, WindowFinite, TotalOfZeros
  <2> QED BY <2>1 DEF MergedIsWindow, Terms, Init
<1>5. UnusedIsClear
  BY <1>2, <1>3, SlidingHostAssumption DEF UnusedIsClear, Unused
<1>6. FreeIsClear
  BY <1>1, <1>2 DEF FreeIsClear, Init, TypeOK
<1>7. Collected
  BY DEF Collected, Init
<1> QED BY <1>4, <1>5, <1>6, <1>7 DEF Counting

LEMMA SwitchWinCounts ==
  ASSUME NEW c \in [Keys -> 0 .. MaxCount], NEW over \in SUBSET Keys, IInv, SwitchWin(c, over)
  PROVE  Counting'
<1>1. /\ pc = "idle" /\ pc' = "recvKeys"
      /\ UNCHANGED <<tableVars, dataVars, curEpochPos, epoch, queries>>
  BY DEF SwitchWin
<1>2. MergedIsWindow' /\ UnusedIsClear'
  BY <1>1, FillingCounts DEF Filling, dataVars
<1>3. FreeIsClear' /\ Collected'
  BY <1>1 DEF IInv, Counting, FreeIsClear, Collected, tableVars, dataVars
<1> QED BY <1>2, <1>3 DEF Counting

(* The positions of the other keys stay what they are.                     *)
LEMMA InsKeyKeepsOthers ==
  ASSUME Addressing, NEW k \in Keys, NEW p \in Pos, InsKey(k, p)
  PROVE  /\ valid' = valid \cup {p} /\ pin' = pin /\ posOf'[k] = p
         /\ \A j \in Keys : j # k => posOf'[j] = posOf[j] /\ posOf[j] # p
         /\ posOf[k] # NoPos => posOf[k] = p
         /\ posOf[k] = NoPos => p \notin valid
<1>1. /\ posOf' = [posOf EXCEPT ![k] = p] /\ valid' = valid \cup {p} /\ pin' = pin
      /\ posOf \in [Keys -> Pos \cup {NoPos}]
      /\ IF posOf[k] # NoPos THEN p = posOf[k] ELSE \A j \in Keys : posOf[j] # p
  BY DEF InsKey, AddKey, Addressing, TypeOK
<1>2. \A j \in Keys : posOf[j] = p => j = k
  BY <1>1, SlidingHostAssumption DEF Addressing, TableAgrees
<1>3. posOf[k] = NoPos => p \notin valid
  BY <1>1 DEF Addressing, TableAgrees
<1> QED BY <1>1, <1>2, <1>3

LEMMA RecvKeyCounts ==
  ASSUME NEW k \in Keys, NEW p \in Pos, IInv, RecvKey(k, p)
  PROVE  Counting'
<1>1. /\ pc = "recvKeys" /\ pc' = "recvKeys" /\ InsKey(k, p)
      /\ UNCHANGED <<dataVars, curEpochPos, epoch, counts>>
  BY DEF RecvKey
<1>2. MergedIsWindow' /\ UnusedIsClear'
  BY <1>1, FillingCounts DEF Filling, dataVars
<1>3. FreeIsClear' /\ Collected'
  BY <1>1, InsKeyKeepsOthers DEF IInv, Counting, FreeIsClear, Collected, dataVars
<1> QED BY <1>2, <1>3 DEF Counting

LEMMA SendRequestsCounts == ASSUME IInv, SendRequests PROVE Counting'
<1>1. /\ pc = "recvKeys" /\ pc' = "recvKeyVals"
      /\ unsent' = {k \in Keys : counts[k] > 0} \ {q.key : q \in queries}
      /\ UNCHANGED <<tableVars, dataVars, curEpochPos, queries, counts>>
  BY DEF SendRequests
<1>2. MergedIsWindow' /\ UnusedIsClear'
  BY <1>1, FillingCounts DEF Filling, dataVars
<1>3. FreeIsClear'
  BY <1>1 DEF IInv, Counting, FreeIsClear, tableVars, dataVars
<1>4. \A p \in Pos : epochData[curEpochPos][p] = 0
  <2>1. NEPOCH_BUF \in Unused /\ RowBack(NEPOCH_BUF) = curEpochPos
    BY <1>1, RowsOfThisSubWindow, SlidingHostAssumption DEF Unused, IInv, Addressing
  <2> QED BY <2>1 DEF IInv, Counting, UnusedIsClear
<1>5. Collected'
  <2> SUFFICES ASSUME NEW k \in Keys, k \notin unsent', \A q \in queries : q.key # k
               PROVE  Held(k)'
    BY <1>1 DEF Collected
  <2>1. counts[k] = 0
    BY <1>1 DEF IInv, Addressing, TypeOK
  <2> QED BY <1>1, <1>4, <2>1 DEF Held, tableVars, dataVars, IInv, Addressing, TypeOK
<1> QED BY <1>2, <1>3, <1>5 DEF Counting

(* The value of a key is put in its place, and the others stay in theirs.  *)
LEMMA PutCounts ==
  ASSUME IInv, pc = "recvKeyVals", NEW k \in Keys, NEW p \in Pos, posOf'[k] = p,
         Put(curEpochPos, p, counts[k]),
         \A j \in Keys : j # k => posOf'[j] = posOf[j] /\ posOf[j] # p,
         UNCHANGED <<pc, mergedData, curEpochPos, counts, pin>>, valid' = valid \cup {p},
         \A j \in unsent : j # k => j \in unsent',
         \A q \in queries : q.key # k => q \in queries'
  PROVE  Counting'
<1>1. /\ curEpochPos \in Ring /\ counts[k] \in Nat
      /\ epochData \in [Ring -> [Pos -> Nat]]
      /\ posOf \in [Keys -> Pos \cup {NoPos}]
  BY DEF IInv, Addressing, TypeOK
<1>2. /\ \A r \in Ring : r # curEpochPos => epochData'[r] = epochData[r]
      /\ \A q \in Pos : epochData'[curEpochPos][q] = IF q = p THEN counts[k] ELSE epochData[curEpochPos][q]
  BY <1>1 DEF Put
<1>3. MergedIsWindow' /\ UnusedIsClear'
  BY <1>2, FillingCounts DEF Filling
<1>4. FreeIsClear'
  BY <1>2 DEF IInv, Counting, FreeIsClear
<1>5. Collected'
  <2> SUFFICES ASSUME NEW j \in Keys, j \notin unsent', \A q \in queries' : q.key # j
               PROVE  Held(j)'
    BY DEF Collected
  <2>1. CASE j = k
    BY <1>2, <2>1, SlidingHostAssumption DEF Held
  <2>2. CASE j # k
    <3>1. Held(j)
      BY <2>2 DEF IInv, Counting, Collected
    <3> QED BY <1>1, <1>2, <2>2, <3>1 DEF Held
  <2> QED BY <2>1, <2>2
<1> QED BY <1>3, <1>4, <1>5 DEF Counting

LEMMA AnswerQueryCounts == ASSUME NEW q \in queries, IInv, AnswerQuery(q) PROVE Counting'
<1>1. /\ pc = "recvKeyVals" /\ queries' = queries \ {q} /\ Put(q.row, q.pos, counts[q.key])
      /\ UNCHANGED <<pc, tableVars, mergedData, abnormalKeys, curEpochPos, epoch, unsent, counts>>
  BY DEF AnswerQuery
<1>2. /\ q.key \in Keys /\ q.pos \in Pos
      /\ q.pos = posOf[q.key] /\ q.row = curEpochPos
  BY DEF IInv, Addressing, TypeOK, Query, QueriesRight
<1>3. q.pos \in valid /\ \A j \in Keys : j # q.key => posOf[j] # q.pos
  BY <1>2, SlidingHostAssumption DEF IInv, Addressing, TableAgrees
<1>4. valid' = valid \cup {q.pos}
  BY <1>1, <1>3 DEF tableVars
<1> QED BY <1>1, <1>2, <1>3, <1>4, PutCounts DEF tableVars

LEMMA WriteHotKeyCounts == ASSUME NEW k \in HotKeys, IInv, WriteHotKey(k) PROVE Counting'
<1>1. /\ pc = "recvKeyVals" /\ unsent' = unsent \ {k} /\ Put(SwitchRow, HotPos[k], counts[k])
      /\ UNCHANGED <<pc, tableVars, mergedData, abnormalKeys, curEpochPos, epoch, queries, counts>>
  BY DEF WriteHotKey
<1>2. k \in Keys /\ HotPos[k] \in Pos /\ posOf[k] = HotPos[k] /\ SwitchRow = curEpochPos
  BY <1>1, SlidingHostAssumption DEF IInv, Addressing, Pinning, InStep
<1>3. HotPos[k] \in valid /\ \A j \in Keys : j # k => posOf[j] # HotPos[k]
  BY <1>2, SlidingHostAssumption DEF IInv, Addressing, TableAgrees
<1>4. valid' = valid \cup {HotPos[k]}
  BY <1>1, <1>3 DEF tableVars
<1> QED BY <1>1, <1>2, <1>3, <1>4, PutCounts DEF tableVars

LEMMA RecvKeyValCounts ==
  ASSUME NEW k \in Keys, NEW p \in Pos, IInv, RecvKeyVal(k, p)
  PROVE  Counting'
<1>1. /\ pc = "recvKeyVals" /\ unsent' = unsent \ {k} /\ InsKey(k, p)
      /\ Put(curEpochPos, p, counts[k])
      /\ UNCHANGED <<pc, mergedData, abnormalKeys, curEpochPos, epoch, queries, counts>>
  BY DEF RecvKeyVal
<1>2. /\ valid' = valid \cup {p} /\ pin' = pin /\ posOf'[k] = p
      /\ \A j \in Keys : j # k => posOf'[j] = posOf[j] /\ posOf[j] # p
  BY <1>1, InsKeyKeepsOthers DEF IInv
<1> QED BY <1>1, <1>2, PutCounts

(* Merge takes this sub-window into the window, and the oldest out of it.  *)
Added(p) == mergedData[p] + epochData[curEpochPos][p]
Left(p) == Added(p) - epochData[DelEpochPos][p]

LEMMA MergeShiftsRows ==
  ASSUME IInv, Merge
  PROVE  /\ \A i \in 2 .. NEPOCH_BUF : RowBack(i)' = RowBack(i - 1)
         /\ RowBack(1)' = curEpochPos
<1>1. TypeOK
  BY DEF IInv, Addressing
<1>2. pc = "recvKeyVals" /\ pc' = "recvDone" /\ curEpochPos' = curEpochPos
  BY DEF Merge
<1>3. \A i \in 2 .. NEPOCH_BUF : RowBack(i)' = RowBack(i - 1)
  BY <1>2 DEF RowBack
<1>4. RowBack(1)' = curEpochPos
  <2>1. RowBack(1)' = (curEpochPos + NEPOCH_BUF - 0) % NEPOCH_BUF
    BY <1>2 DEF RowBack
  <2>2. 0 \in 0 .. NEPOCH_BUF /\ Back(0) = curEpochPos
    BY <1>1, SlidingHostAssumption DEF Back, TypeOK, Ring
  <2> QED BY <1>1, <2>1, <2>2, BackInRing
<1> QED BY <1>3, <1>4

LEMMA MergedTermsType ==
  ASSUME IInv, Merge, NEW p \in Pos
  PROVE  Terms(p)' \in [1 .. NEpoch - 1 -> Nat]
<1>1. TypeOK /\ epochData' = epochData
  BY DEF IInv, Addressing, Merge
<1>2. ASSUME NEW i \in 1 .. NEpoch - 1 PROVE RowBack(i)' \in Ring
  <2>1. i = 1 \/ (i \in 2 .. NEPOCH_BUF /\ i - 1 \in 1 .. NEPOCH_BUF)
    BY SlidingHostAssumption
  <2> QED BY <1>1, <2>1, MergeShiftsRows, RowBackIs DEF TypeOK
<1> QED BY <1>1, <1>2 DEF Terms, TypeOK

LEMMA MergeAddsUp == ASSUME IInv, Merge, NEW p \in Pos PROVE Left(p) = Total(Terms(p)')
<1> DEFINE n == NEpoch - 1
           g == Terms(p)
           h == Terms(p)'
<1>1. TypeOK /\ epochData' = epochData /\ pc # "recvDone"
  BY DEF IInv, Addressing, Merge
<1>2. n \in Nat /\ 1 .. n \subseteq 1 .. NEPOCH_BUF
  BY SlidingHostAssumption
<1>3. g \in [1 .. n -> Nat] /\ h \in [1 .. n -> Nat]
  BY <1>1, TermsType, MergedTermsType
<1>4. /\ mergedData[p] = Total(g)
      /\ mergedData[p] \in Int /\ epochData[curEpochPos][p] \in Nat
  BY <1>1 DEF IInv, Counting, MergedIsWindow, Terms, TypeOK
<1>5. CASE n = 0
  <2>1. DelEpochPos = curEpochPos
    BY <1>1, <1>2, <1>5, RowsOfThisSubWindow, SlidingHostAssumption
  <2>2. Total(g) = 0 /\ Total(h) = 0
    <3>1. 1 .. n = {} /\ IsFiniteSet(1 .. n)
      BY <1>5, WindowFinite
    <3> HIDE DEF n, g, h
    <3>2. g \in [1 .. n -> Int] /\ h \in [1 .. n -> Int]
      BY <1>3
    <3> QED BY <3>1, <3>2, TakeOne
  <2>3. Left(p) = Total(h)
    <3> HIDE DEF g, h
    <3> QED BY <1>4, <2>1, <2>2 DEF Left, Added
  <2> QED BY <2>3
<1>6. CASE n # 0
  <2>4. 1 \in 1 .. n /\ n \in 1 .. n
    <3> HIDE DEF n
    <3> QED BY <1>2, <1>6
  <2>1. h[1] = epochData[curEpochPos][p]
    BY <1>1, <2>4, MergeShiftsRows DEF Terms
  <2>2. g[n] = epochData[DelEpochPos][p]
    <3>1. DelEpochPos = RowBack(n)
      BY <1>1, <1>2, <1>6, RowsOfThisSubWindow, SlidingHostAssumption
    <3> QED BY <2>4, <3>1 DEF Terms
  <2>3. \A i \in 2 .. n : h[i] = g[i - 1]
    <3>1. ASSUME NEW i \in 2 .. n PROVE h[i] = g[i - 1]
      <4>1. i \in 2 .. NEPOCH_BUF /\ i \in 1 .. n /\ i - 1 \in 1 .. n
        BY <1>2, SlidingHostAssumption
      <4>2. RowBack(i)' = RowBack(i - 1)
        BY <4>1, MergeShiftsRows
      <4> QED BY <1>1, <4>1, <4>2 DEF Terms
    <3> QED BY <3>1
  <2> HIDE DEF n, g, h
  <2>5. Total(h) = Total(g) + h[1] - g[n]
    <3>1. n \in Nat \ {0} /\ g \in [1 .. n -> Int] /\ h \in [1 .. n -> Int]
      BY <1>2, <1>3, <1>6
    <3> QED BY <2>3, <3>1, ShiftTotal
  <2>6. g[n] \in Nat
    BY <1>3, <2>4
  <2>7. Left(p) = Total(h)
    BY <1>4, <2>1, <2>2, <2>5, <2>6 DEF Left, Added
  <2> QED BY <2>7 DEF h
<1> QED BY <1>2, <1>5, <1>6

LEMMA MergeCounts == ASSUME IInv, Merge PROVE Counting'
<1> DEFINE del == {p \in valid \ pin : Left(p) = 0}
<1>1. TypeOK /\ pc = "recvKeyVals" /\ pc' = "recvDone" /\ epochData' = epochData /\ pin' = pin
  BY DEF IInv, Addressing, Merge
<1>2. /\ \A p \in Pos : mergedData'[p] = Left(p)
      /\ valid' = valid \ del /\ counts' = NoCounts
  <2>1. \A p \in valid \ pin : p \in Pos
    BY <1>1 DEF TypeOK
  <2> QED BY <2>1 DEF Merge, FoundDel, Left, Added
<1>3. MergedIsWindow'
  BY <1>2, MergeAddsUp DEF MergedIsWindow, Terms
<1>4. UnusedIsClear'
  <2>1. ASSUME NEW i \in Unused' PROVE i - 1 \in Unused /\ RowBack(i)' = RowBack(i - 1)
    <3>1. i \in 2 .. NEPOCH_BUF /\ i - 1 \in Unused
      BY <1>1, SlidingHostAssumption DEF Unused
    <3> QED BY <3>1, MergeShiftsRows
  <2> QED BY <1>1, <2>1 DEF IInv, Counting, UnusedIsClear
<1>5. FreeIsClear'
  <2>1. ASSUME NEW p \in Pos \ valid PROVE Left(p) = 0
    <3>1. mergedData[p] = 0 /\ epochData[curEpochPos][p] = 0
      BY <1>1 DEF IInv, Counting, FreeIsClear
    <3>2. epochData[DelEpochPos][p] = 0
      <4>1. CASE NEpoch = 1
        BY <1>1, <3>1, <4>1, RowsOfThisSubWindow
      <4>2. CASE NEpoch # 1
        <5>1. Terms(p) \in [1 .. NEpoch - 1 -> Nat] /\ Total(Terms(p)) = 0
          BY <1>1, <3>1, TermsType DEF IInv, Counting, MergedIsWindow, Terms
        <5>2. \A i \in 1 .. NEpoch - 1 : Terms(p)[i] = 0
          BY <5>1, WindowFinite, ZerosOfTotal
        <5>3. NEpoch - 1 \in 1 .. NEpoch - 1
          BY <4>2, SlidingHostAssumption
        <5>4. DelEpochPos = RowBack(NEpoch - 1)
          BY <1>1, <4>2, RowsOfThisSubWindow
        <5> QED BY <5>2, <5>3, <5>4 DEF Terms
      <4> QED BY <4>1, <4>2
    <3> QED BY <3>1, <3>2 DEF Left, Added
  <2>2. \A p \in valid' \ pin : p \in Pos /\ Left(p) # 0
    BY <1>1, <1>2 DEF TypeOK
  <2> QED BY <1>1, <1>2, <2>1, <2>2 DEF IInv, Counting, FreeIsClear
<1>6. Collected'
  BY <1>1, <1>2 DEF Collected, NoCounts
<1> QED BY <1>3, <1>4, <1>5, <1>6 DEF Counting

LEMMA RecvDoneKeepsRows ==
  ASSUME IInv, RecvDone
  PROVE  /\ \A i \in 1 .. NEPOCH_BUF : RowBack(i)' = RowBack(i)
         /\ \A r \in Ring : r # RowBack(NEpoch) => epochData'[r] = epochData[r]
         /\ \A p \in Pos : epochData'[RowBack(NEpoch)][p] = 0
         /\ curEpochPos' = RowBack(NEPOCH_BUF)
<1>1. /\ TypeOK /\ pc = "recvDone" /\ pc' = "idle"
      /\ epochData' = [epochData EXCEPT ![DelEpochPos] = [p \in Pos |-> 0]]
      /\ curEpochPos' = (curEpochPos + 1) % NEPOCH_BUF
  BY DEF IInv, Addressing, RecvDone, NextEpochPos
<1>2. curEpochPos' = IF curEpochPos + 1 < NEPOCH_BUF THEN curEpochPos + 1 ELSE 0
  <2>1. curEpochPos + 1 \in 1 .. NEPOCH_BUF
    BY <1>1, SlidingHostAssumption DEF TypeOK, Ring
  <2>2. CASE curEpochPos + 1 = NEPOCH_BUF
    BY <1>1, <2>2, SlidingHostAssumption, SMT
  <2>3. CASE curEpochPos + 1 < NEPOCH_BUF
    BY <1>1, <2>1, <2>3, SlidingHostAssumption, SMT
  <2> QED BY <2>1, <2>2, <2>3, SlidingHostAssumption
<1>3. ASSUME NEW i \in 1 .. NEPOCH_BUF PROVE RowBack(i)' = RowBack(i)
  <2>1. /\ RowBack(i)' = (curEpochPos' + NEPOCH_BUF - i) % NEPOCH_BUF
        /\ RowBack(i) = (curEpochPos + NEPOCH_BUF - (i - 1)) % NEPOCH_BUF
    BY <1>1 DEF RowBack
  <2>2. curEpochPos \in 0 .. NEPOCH_BUF - 1
    BY <1>1 DEF TypeOK, Ring
  <2>3. CASE curEpochPos + 1 < NEPOCH_BUF
    <3>1. curEpochPos' + NEPOCH_BUF - i = curEpochPos + NEPOCH_BUF - (i - 1)
      BY <1>2, <2>2, <2>3, SlidingHostAssumption
    <3> QED BY <2>1, <3>1
  <2>4. CASE curEpochPos + 1 = NEPOCH_BUF
    <3> DEFINE b == NEPOCH_BUF
    <3>1. b - i \in 0 .. b - 1 /\ b \in Nat \ {0}
      BY SlidingHostAssumption
    <3>2. (b * 0 + (b - i)) % b = b - i /\ (b * 1 + (b - i)) % b = b - i
      BY <3>1, RemainderUnique
    <3>3. /\ curEpochPos' + b - i = b * 0 + (b - i)
          /\ curEpochPos + b - (i - 1) = b * 1 + (b - i)
      BY <1>2, <2>2, <2>4, <3>1
    <3> QED BY <2>1, <3>2, <3>3
  <2> QED BY <2>2, <2>3, <2>4, SlidingHostAssumption
<1>4. RowBack(NEpoch) = DelEpochPos /\ DelEpochPos \in Ring
  BY <1>1, RowsOfThisSubWindow, DelEpochPosInRing DEF TypeOK
<1>5. curEpochPos' = RowBack(NEPOCH_BUF)
  <2>1. RowBack(NEPOCH_BUF) = Back(NEPOCH_BUF - 1)
    BY <1>1, RowBackIs, SlidingHostAssumption DEF Ago
  <2> QED BY <1>1, <1>2, <2>1, SlidingHostAssumption DEF Back, TypeOK, Ring
<1> QED BY <1>1, <1>3, <1>4, <1>5 DEF TypeOK

LEMMA RecvDoneCounts == ASSUME IInv, RecvDone PROVE Counting'
<1>1. /\ TypeOK /\ pc = "recvDone" /\ pc' = "idle"
      /\ UNCHANGED <<tableVars, mergedData, counts>>
  BY DEF IInv, Addressing, RecvDone
<1>2. ASSUME NEW i \in 1 .. NEPOCH_BUF, i # NEpoch
      PROVE  epochData'[RowBack(i)'] = epochData[RowBack(i)]
  <2>1. RowBack(i) # RowBack(NEpoch) /\ RowBack(i) \in Ring
    BY <1>1, <1>2, RowsApart, RowBackIs, SlidingHostAssumption
  <2> QED BY <2>1, RecvDoneKeepsRows
<1>3. MergedIsWindow'
  <2>1. \A i \in 1 .. NEpoch - 1 : i \in 1 .. NEPOCH_BUF /\ i # NEpoch
    BY SlidingHostAssumption
  <2>2. \A p \in Pos : Terms(p)' = Terms(p)
    BY <1>2, <2>1 DEF Terms
  <2> QED BY <1>1, <2>2 DEF IInv, Counting, MergedIsWindow, Terms
<1>4. UnusedIsClear'
  <2>1. ASSUME NEW i \in Unused', NEW p \in Pos PROVE epochData'[RowBack(i)'][p] = 0
    <3>1. i \in 1 .. NEPOCH_BUF /\ (i # NEpoch => i \in Unused)
      BY <1>1, SlidingHostAssumption DEF Unused
    <3>2. CASE i = NEpoch
      BY <3>1, <3>2, RecvDoneKeepsRows
    <3>3. CASE i # NEpoch
      BY <1>2, <3>1, <3>3 DEF IInv, Counting, UnusedIsClear
    <3> QED BY <3>2, <3>3
  <2> QED BY <2>1 DEF UnusedIsClear
<1>5. FreeIsClear'
  <2>1. \A p \in Pos : epochData'[curEpochPos'][p] = 0
    <3>1. RowBack(NEPOCH_BUF)' = curEpochPos'
      BY RecvDoneKeepsRows, SlidingHostAssumption
    <3>2. NEPOCH_BUF \in Unused'
      BY <1>1, SlidingHostAssumption DEF Unused
    <3> QED BY <1>1, <1>4, <3>1, <3>2 DEF UnusedIsClear
  <2> QED BY <1>1, <2>1 DEF IInv, Counting, FreeIsClear, tableVars
<1>6. Collected'
  BY <1>1 DEF IInv, Counting, Collected, NoCounts
<1> QED BY <1>3, <1>4, <1>5, <1>6 DEF Counting

-----------------------------------------------------------------------------
(* IInv is an invariant of the program: the table, the addresses and the   *)
(* counts.                                                                 *)
THEOREM Invariant == Spec => []IInv
<1>1. Init => IInv
  BY InitEstablishes, InitCounts DEF IInv
<1>2. IInv /\ [Next]_vars => IInv'
  <2> SUFFICES ASSUME IInv, [Next]_vars PROVE IInv'
    OBVIOUS
  <2>1. CASE UNCHANGED vars
    <3>1. TypeOK'
      BY <2>1 DEF IInv, Addressing, TypeOK, vars, tableVars, dataVars
    <3>2. (TableAgrees /\ Pinning /\ QueriesRight /\ InStep /\ Untaken)'
      BY <2>1 DEF IInv, Addressing, vars, tableVars, dataVars, TableAgrees, Pinning,
                  QueriesRight, InStep, SwitchRow, Untaken
    <3>3. MergedIsWindow' /\ UnusedIsClear'
      BY <2>1 DEF IInv, Counting, vars, tableVars, dataVars, MergedIsWindow, UnusedIsClear,
                  Unused, RowBack
    <3>4. FreeIsClear' /\ Collected'
      BY <2>1 DEF IInv, Counting, vars, tableVars, dataVars, FreeIsClear, Collected, Held
    <3> QED BY <3>1, <3>2, <3>3, <3>4 DEF IInv, Addressing, Counting
  <2>2. CASE Next
    <3>1. Addressing'
      BY <2>2, SwitchWinPreserves, RecvKeyPreserves, SendRequestsPreserves, AnswerQueryPreserves,
         WriteHotKeyPreserves, RecvKeyValPreserves, MergePreserves, RecvDonePreserves DEF Next, IInv
    <3>2. Counting'
      BY <2>2, SwitchWinCounts, RecvKeyCounts, SendRequestsCounts, AnswerQueryCounts,
         WriteHotKeyCounts, RecvKeyValCounts, MergeCounts, RecvDoneCounts DEF Next
    <3> QED BY <3>1, <3>2 DEF IInv
  <2> QED BY <2>1, <2>2
<1> QED BY <1>1, <1>2, PTL DEF Spec

(* Whatever keys come and go, each value is written to the place of its    *)
(* key in the row of its sub-window: tab_addr and the queries hold no      *)
(* stale address.                                                          *)
THEOREM AddressesStayRight == Spec => []AddressesRight
<1>1. IInv => AddressesRight
  BY DEF IInv, Addressing, Pinning, QueriesRight, InStep, AddressesRight
<1> QED BY <1>1, Invariant, PTL

(* Each position in use belongs to one key and each key of the table has   *)
(* one, so h.delKey never misses a key that find-del chose.                *)
THEOREM TableStaysInAgreement == Spec => []TableAgrees
<1>1. IInv => TableAgrees
  BY DEF IInv, Addressing
<1> QED BY <1>1, Invariant, PTL

(* Between two calls mergedData is the sum of all rows, however long the   *)
(* ring has turned, and the next row has been cleared.                     *)
THEOREM RowsStayExact == Spec => []RowsExact
<1>1. IInv => RowsExact
  <2> SUFFICES ASSUME IInv, pc = "idle", NEW p \in Pos
               PROVE  /\ mergedData[p] = Total([r \in Ring |-> epochData[r][p]])
                      /\ epochData[curEpochPos][p] = 0
    BY DEF RowsExact
  <2> DEFINE B == 1 .. NEPOCH_BUF
             U == 1 .. NEpoch - 1
             b == [i \in B |-> RowBack(i)]
             g == [r \in Ring |-> epochData[r][p]]
             h == [i \in B |-> epochData[RowBack(i)][p]]
  <2>1. TypeOK
    BY DEF IInv, Addressing
  <2>2. \A i \in B : RowBack(i) \in Ring
    BY <2>1, RowBackIs
  <2>3. g \in [Ring -> Int] /\ h \in [B -> Int] /\ b \in [B -> Ring]
    BY <2>1, <2>2 DEF TypeOK
  <2>4. Renames(b, h, B, g, Ring)
    <3>1. \A i, j \in B : b[i] = b[j] => i = j
      BY <2>1, RowsApart
    <3>2. \A r \in Ring : \E i \in B : b[i] = r
      BY <2>1, EveryRowLiesBack
    <3>3. \A i \in B : h[i] = g[b[i]]
      BY <2>2
    <3> HIDE DEF B, b, g, h
    <3> QED BY <2>3, <3>1, <3>2, <3>3 DEF Renames
  <2>5. IsFiniteSet(B) /\ IsFiniteSet(Ring)
    BY FS_Interval, SlidingHostAssumption DEF Ring
  <2>6. Total(h) = Total(g)
    <3> HIDE DEF B, b, g, h
    <3> QED BY <2>3, <2>4, <2>5, RenameTerms
  <2>7. U \subseteq B /\ \A i \in B \ U : i \in Unused
    BY SlidingHostAssumption DEF Unused
  <2>8. \A i \in B \ U : h[i] = 0
    BY <2>7 DEF IInv, Counting, UnusedIsClear
  <2>9. Total(h) = Total(Restrict(h, U))
    <3> HIDE DEF B, U, h
    <3> QED BY <2>3, <2>5, <2>7, <2>8, LeaveOutZeros
  <2>10. Restrict(h, U) = Terms(p)
    BY <2>7 DEF Restrict, Terms
  <2>11. mergedData[p] = Total(Terms(p))
    BY DEF IInv, Counting, MergedIsWindow, Terms
  <2>12. epochData[curEpochPos][p] = 0
    <3>1. NEPOCH_BUF \in Unused /\ RowBack(NEPOCH_BUF) = curEpochPos
      BY <2>1, RowsOfThisSubWindow, SlidingHostAssumption DEF Unused
    <3> QED BY <3>1 DEF IInv, Counting, UnusedIsClear
  <2> QED BY <2>6, <2>9, <2>10, <2>11, <2>12
<1> QED BY <1>1, Invariant, PTL

(* A position that a key has lost is clear, so the next key to take it     *)
(* counts from zero; and no position is kept that counts nothing.          *)
THEOREM OnlyLiveKeysStay == Spec => []OnlyLiveKeys
<1>1. IInv => OnlyLiveKeys
  BY DEF IInv, Addressing, TypeOK, Counting, FreeIsClear, OnlyLiveKeys
<1> QED BY <1>1, Invariant, PTL

-----------------------------------------------------------------------------
(* The ring implements a window that slides over exact counts.             *)
LEMMA AbstractTotal == ASSUME NEW g PROVE Abstract!Total(g) = Total(g)
  BY DEF Abstract!Total, Total, Abstract!MapThenSumSet, MapThenSumSet,
         Abstract!MapThenFoldSet, MapThenFoldSet

(* What WindowPast holds of one key.                                       *)
LEMMA WindowOfKey ==
  ASSUME NEW k \in Keys, NEW i \in 1 .. NEpoch - 1
  PROVE  WindowPast[i][k] = IF posOf[k] = NoPos THEN 0 ELSE Terms(posOf[k])[i]
  BY DEF WindowPast, Terms

LEMMA NextWindowOfKey ==
  ASSUME NEW k \in Keys, NEW i \in 1 .. NEpoch - 1
  PROVE  /\ posOf'[k] = NoPos => WindowPast'[i][k] = 0
         /\ \A p \in Pos : posOf'[k] = p => WindowPast'[i][k] = Terms(p)'[i]
  BY SlidingHostAssumption DEF WindowPast, Terms

LEMMA FreeRowsAreClear ==
  ASSUME IInv, NEW p \in Pos \ valid, NEW i \in 1 .. NEpoch - 1
  PROVE  Terms(p)[i] = 0
<1>1. Terms(p) \in [1 .. NEpoch - 1 -> Nat] /\ Total(Terms(p)) = 0
  BY TermsType DEF IInv, Addressing, Counting, FreeIsClear, MergedIsWindow, Terms
<1> QED BY <1>1, WindowFinite, ZerosOfTotal

(* While one row is filled the window stays what it is; a key that takes a *)
(* position finds it clear.                                                *)
LEMMA FillingKeepsWindow ==
  ASSUME IInv, Filling,
         \A k \in Keys : \/ posOf'[k] = posOf[k]
                         \/ posOf[k] = NoPos /\ posOf'[k] \in Pos \ valid
  PROVE  WindowPast' = WindowPast
<1>1. ASSUME NEW i \in 1 .. NEpoch - 1, NEW k \in Keys
      PROVE  WindowPast'[i][k] = WindowPast[i][k]
  <2>1. posOf[k] \in Pos \cup {NoPos}
    BY DEF IInv, Addressing, TypeOK
  <2>2. CASE posOf'[k] = NoPos
    BY <2>1, <2>2, WindowOfKey, NextWindowOfKey, SlidingHostAssumption
  <2>3. ASSUME NEW p \in Pos, posOf'[k] = p PROVE WindowPast'[i][k] = WindowPast[i][k]
    <3>1. WindowPast'[i][k] = Terms(p)[i]
      BY <2>3, NextWindowOfKey, FillingKeepsRows
    <3>2. CASE posOf[k] = p
      BY <2>3, <3>1, <3>2, WindowOfKey, SlidingHostAssumption
    <3>3. CASE posOf[k] = NoPos /\ p \in Pos \ valid
      BY <3>1, <3>3, WindowOfKey, FreeRowsAreClear
    <3> QED BY <2>3, <3>2, <3>3
  <2> QED BY <2>1, <2>2, <2>3
<1> QED BY <1>1 DEF WindowPast

(* At Merge each key has its count in the row, and so mergedData and the   *)
(* row hold the packets of the key in the window.                          *)
LEMMA MergeSeesWindow ==
  ASSUME IInv, Merge, NEW k \in Keys
  PROVE  /\ Abstract!InWindow(k) = IF posOf[k] = NoPos THEN 0 ELSE Added(posOf[k])
         /\ Held(k)
<1> DEFINE g == [i \in Abstract!Remembered |-> WindowPast[i][k]]
<1>1. TypeOK /\ Held(k) /\ Abstract!Remembered = 1 .. NEpoch - 1
  BY DEF IInv, Addressing, Counting, Collected, Merge, Abstract!Remembered
<1>2. Abstract!InWindow(k) = counts[k] + Total(g)
  BY AbstractTotal DEF Abstract!InWindow
<1>3. CASE posOf[k] = NoPos
  <2>1. g \in [1 .. NEpoch - 1 -> Int] /\ \A i \in 1 .. NEpoch - 1 : g[i] = 0
    BY <1>1, <1>3, WindowOfKey
  <2> HIDE DEF g
  <2>2. Total(g) = 0
    BY <2>1, WindowFinite, TotalOfZeros
  <2> QED BY <1>1, <1>2, <1>3, <2>2 DEF Held
<1>4. CASE posOf[k] # NoPos
  <2> DEFINE p == posOf[k]
  <2>1. p \in Pos /\ Terms(p) \in [1 .. NEpoch - 1 -> Nat]
    BY <1>1, <1>4, TermsType DEF TypeOK
  <2>2. g = Terms(p)
    <3>1. \A i \in 1 .. NEpoch - 1 : g[i] = Terms(p)[i]
      BY <1>1, <1>4, WindowOfKey
    <3> QED BY <1>1, <3>1 DEF Terms
  <2>3. Total(g) = mergedData[p]
    BY <2>1, <2>2 DEF IInv, Counting, MergedIsWindow, Terms
  <2>4. counts[k] = epochData[curEpochPos][p]
    BY <1>1, <1>4 DEF Held
  <2> HIDE DEF g
  <2> QED BY <1>1, <1>2, <1>4, <2>1, <2>3, <2>4 DEF Added, TypeOK
<1> QED BY <1>1, <1>3, <1>4

LEMMA MergeReportsWindow ==
  ASSUME IInv, Merge
  PROVE  abnormalKeys' = {k \in Keys : Abstract!InWindow(k) >= Threshold}
<1>1. /\ TypeOK /\ TableAgrees /\ FreeIsClear /\ pc = "recvKeyVals"
      /\ abnormalKeys' = {keys[p] : p \in {q \in Pos : Added(q) >= Threshold}}
  BY DEF IInv, Addressing, Counting, Merge, Added
<1>2. ASSUME NEW p \in Pos, Added(p) >= Threshold
      PROVE  keys[p] \in Keys /\ Abstract!InWindow(keys[p]) >= Threshold
  <2>1. p \in valid
    <3>1. p \notin valid => Added(p) = 0
      BY <1>1 DEF FreeIsClear, Added
    <3> QED BY <1>2, <3>1, SlidingHostAssumption
  <2>2. keys[p] \in Keys /\ posOf[keys[p]] = p
    BY <1>1, <2>1 DEF TableAgrees
  <2> QED BY <1>2, <2>2, MergeSeesWindow, SlidingHostAssumption
<1>3. ASSUME NEW k \in Keys, Abstract!InWindow(k) >= Threshold
      PROVE  \E p \in Pos : Added(p) >= Threshold /\ keys[p] = k
  <2>1. posOf[k] # NoPos /\ Added(posOf[k]) >= Threshold
    BY <1>3, MergeSeesWindow, SlidingHostAssumption
  <2>2. posOf[k] \in Pos /\ keys[posOf[k]] = k
    BY <1>1, <2>1 DEF TypeOK, TableAgrees
  <2> QED BY <2>1, <2>2
<1> QED BY <1>1, <1>2, <1>3

LEMMA MergeSlides ==
  ASSUME IInv, Merge, NEW i \in 1 .. NEpoch - 1, NEW k \in Keys
  PROVE  WindowPast'[i][k] = IF i = 1 THEN counts[k] ELSE WindowPast[i - 1][k]
<1> DEFINE del == {p \in valid \ pin : Left(p) = 0}
<1>1. /\ TypeOK /\ TableAgrees /\ epochData' = epochData
      /\ posOf'[k] = IF \E p \in del : keys[p] = k THEN NoPos ELSE posOf[k]
  <2>1. TypeOK /\ TableAgrees
    BY DEF IInv, Addressing
  <2>2. \A p \in valid \ pin : p \in Pos
    BY <2>1 DEF TypeOK
  <2> QED BY <2>1, <2>2 DEF Merge, FoundDel, Left, Added
<1>2. /\ posOf'[k] = NoPos => WindowPast'[i][k] = 0
      /\ \A p \in Pos : posOf'[k] = p => WindowPast'[i][k] = Terms(p)'[i]
  BY NextWindowOfKey
<1>3. ASSUME NEW p \in Pos, posOf[k] = p
      PROVE  Terms(p)'[i] = IF i = 1 THEN counts[k] ELSE WindowPast[i - 1][k]
  <2>1. CASE i = 1
    <3>1. Terms(p)'[i] = epochData[curEpochPos][p]
      BY <1>1, <2>1, MergeShiftsRows DEF Terms
    <3>2. counts[k] = epochData[curEpochPos][p]
      BY <1>3, MergeSeesWindow, SlidingHostAssumption DEF Held
    <3> QED BY <2>1, <3>1, <3>2
  <2>2. CASE i # 1
    <3>1. i \in 2 .. NEPOCH_BUF /\ i - 1 \in 1 .. NEpoch - 1
      BY <2>2, SlidingHostAssumption
    <3>2. Terms(p)'[i] = Terms(p)[i - 1]
      BY <1>1, <3>1, MergeShiftsRows DEF Terms
    <3>3. WindowPast[i - 1][k] = Terms(p)[i - 1]
      BY <1>3, <3>1, WindowOfKey, SlidingHostAssumption
    <3> QED BY <2>2, <3>2, <3>3
  <2> QED BY <2>1, <2>2
<1>4. CASE posOf[k] = NoPos
  <2>1. posOf'[k] = NoPos /\ counts[k] = 0
    BY <1>1, <1>4, MergeSeesWindow DEF Held
  <2>2. i # 1 => WindowPast[i - 1][k] = 0
    <3>1. i # 1 => i - 1 \in 1 .. NEpoch - 1
      BY SlidingHostAssumption
    <3> QED BY <1>4, <3>1, WindowOfKey
  <2> QED BY <1>2, <2>1, <2>2
<1>5. CASE posOf[k] # NoPos
  <2>1. posOf[k] \in Pos
    BY <1>1, <1>5 DEF TypeOK
  <2>2. CASE posOf'[k] = posOf[k]
    BY <1>2, <1>3, <1>5, <2>1, <2>2
  <2>3. CASE posOf'[k] # posOf[k]
    <3>1. PICK p \in del : keys[p] = k
      BY <1>1, <2>3
    <3>2. posOf'[k] = NoPos /\ posOf[k] = p /\ p \in Pos /\ Left(p) = 0
      BY <1>1, <3>1 DEF TableAgrees, TypeOK
    <3>3. Terms(p)' \in [1 .. NEpoch - 1 -> Nat] /\ Total(Terms(p)') = 0
      BY <3>2, MergedTermsType, MergeAddsUp
    <3>4. Terms(p)'[i] = 0
      BY <3>3, WindowFinite, ZerosOfTotal
    <3> QED BY <1>2, <1>3, <3>2, <3>4
  <2> QED BY <2>2, <2>3
<1> QED BY <1>4, <1>5

LEMMA InitRefines == Init => Abstract!Init
<1> SUFFICES ASSUME Init PROVE Abstract!Init
  OBVIOUS
<1>1. TypeOK /\ IInv
  BY InitEstablishes, InitCounts DEF Addressing, IInv
<1>2. \A i \in 1 .. NEpoch - 1, k \in Keys : WindowPast[i][k] = 0
  <2>1. ASSUME NEW i \in 1 .. NEpoch - 1 PROVE RowBack(i) \in Ring
    BY <1>1, WindowFinite, RowBackIs
  <2>2. \A k \in Keys : posOf[k] # NoPos => posOf[k] \in Pos
    BY <1>1 DEF TypeOK
  <2>3. \A r \in Ring : \A p \in Pos : epochData[r][p] = 0
    BY DEF Init
  <2> QED BY <2>1, <2>2, <2>3 DEF WindowPast
<1>3. WindowPast = [i \in Abstract!Remembered |-> Abstract!NoCounts]
  BY <1>2 DEF WindowPast, Abstract!Remembered, Abstract!NoCounts
<1> QED BY <1>3 DEF Init, Abstract!Init, NoCounts, Abstract!NoCounts

LEMMA MergeRefines == ASSUME IInv, Merge PROVE Abstract!Slide
<1>1. abnormalKeys' = {k \in Keys : Abstract!InWindow(k) >= Threshold}
  BY MergeReportsWindow
<1>2. WindowPast' = [i \in Abstract!Remembered |-> IF i = 1 THEN counts ELSE WindowPast[i - 1]]
  <2>1. counts \in [Keys -> Nat]
    BY DEF IInv, Addressing, TypeOK
  <2>2. ASSUME NEW i \in 1 .. NEpoch - 1
        PROVE  WindowPast'[i] = IF i = 1 THEN counts ELSE WindowPast[i - 1]
    <3>1. \A k \in Keys : WindowPast'[i][k] = IF i = 1 THEN counts[k] ELSE WindowPast[i - 1][k]
      BY MergeSlides
    <3>2. DOMAIN (WindowPast'[i]) = Keys /\ WindowPast'[i] = [k \in Keys |-> WindowPast'[i][k]]
      BY DEF WindowPast
    <3>3. i # 1 => i - 1 \in 1 .. NEpoch - 1
      BY SlidingHostAssumption
    <3>4. i # 1 => WindowPast[i - 1] = [k \in Keys |-> WindowPast[i - 1][k]]
      BY <3>3 DEF WindowPast
    <3> QED BY <2>1, <3>1, <3>2, <3>4
  <2> QED BY <2>2 DEF WindowPast, Abstract!Remembered
<1>3. counts' = Abstract!NoCounts
  BY DEF Merge, NoCounts, Abstract!NoCounts
<1> QED BY <1>1, <1>2, <1>3 DEF Abstract!Slide

(* The steps before Merge close a sub-window or are invisible.             *)
LEMMA FillingRefines ==
  ASSUME IInv, Filling, UNCHANGED <<counts, abnormalKeys>>,
         \A k \in Keys : \/ posOf'[k] = posOf[k]
                         \/ posOf[k] = NoPos /\ posOf'[k] \in Pos \ valid
  PROVE  UNCHANGED <<counts, WindowPast, abnormalKeys>>
  BY FillingKeepsWindow

LEMMA SwitchWinRefines ==
  ASSUME NEW c \in [Keys -> 0 .. MaxCount], NEW over \in SUBSET Keys, IInv, SwitchWin(c, over)
  PROVE  Abstract!Close
<1>1. /\ pc = "idle" /\ pc' = "recvKeys" /\ counts' = c
      /\ UNCHANGED <<tableVars, dataVars, curEpochPos>>
  BY DEF SwitchWin
<1>2. WindowPast' = WindowPast
  BY <1>1, FillingKeepsWindow DEF Filling, tableVars, dataVars
<1>3. counts = Abstract!NoCounts
  BY <1>1 DEF IInv, Counting, Collected, NoCounts, Abstract!NoCounts
<1>4. c \in [Keys -> Nat]
  BY SlidingHostAssumption
<1> QED BY <1>1, <1>2, <1>3, <1>4 DEF Abstract!Close, dataVars

LEMMA InsKeyRefines ==
  ASSUME IInv, NEW k \in Keys, NEW p \in Pos, InsKey(k, p)
  PROVE  \A j \in Keys : \/ posOf'[j] = posOf[j]
                         \/ posOf[j] = NoPos /\ posOf'[j] \in Pos \ valid
  BY InsKeyKeepsOthers DEF IInv

LEMMA RecvDoneRefines == ASSUME IInv, RecvDone PROVE UNCHANGED <<counts, WindowPast, abnormalKeys>>
<1>1. TypeOK /\ UNCHANGED <<tableVars, abnormalKeys, counts>>
  BY DEF IInv, Addressing, RecvDone
<1>2. ASSUME NEW i \in 1 .. NEpoch - 1
      PROVE  RowBack(i)' = RowBack(i) /\ epochData'[RowBack(i)] = epochData[RowBack(i)]
  <2>1. i \in 1 .. NEPOCH_BUF /\ NEpoch \in 1 .. NEPOCH_BUF /\ i # NEpoch
    BY SlidingHostAssumption
  <2>2. RowBack(i) \in Ring /\ RowBack(i) # RowBack(NEpoch)
    BY <1>1, <2>1, RowBackIs, RowsApart
  <2> QED BY <2>1, <2>2, RecvDoneKeepsRows
<1>3. WindowPast' = WindowPast
  BY <1>1, <1>2 DEF WindowPast, tableVars
<1> QED BY <1>1, <1>3

(* With every sub-window the program reports the keys whose packets in the *)
(* last NEpoch sub-windows, exactly counted, reach the threshold: whatever *)
(* the sizes of the ring, the window and the table, and whichever keys     *)
(* come, go, overflow or are pinned.                                       *)
THEOREM ImplementsSlidingWindow == Spec => SlidesExactly
<1>1. Init => Abstract!Init
  BY InitRefines
<1>2. IInv /\ [Next]_vars => [Abstract!Next]_<<counts, WindowPast, abnormalKeys>>
  <2> SUFFICES ASSUME IInv, [Next]_vars
               PROVE  Abstract!Next \/ UNCHANGED <<counts, WindowPast, abnormalKeys>>
    OBVIOUS
  <2>1. CASE UNCHANGED vars
    BY <2>1 DEF vars, tableVars, dataVars, WindowPast, RowBack
  <2>2. ASSUME NEW c \in [Keys -> 0 .. MaxCount], NEW over \in SUBSET Keys, SwitchWin(c, over)
        PROVE  Abstract!Next
    BY <2>2, SwitchWinRefines DEF Abstract!Next
  <2>3. ASSUME NEW k \in Keys, NEW p \in Pos, RecvKey(k, p)
        PROVE  UNCHANGED <<counts, WindowPast, abnormalKeys>>
    <3>1. Filling /\ InsKey(k, p) /\ UNCHANGED <<counts, abnormalKeys>>
      BY <2>3 DEF RecvKey, Filling, dataVars
    <3> QED BY <3>1, InsKeyRefines, FillingRefines
  <2>4. ASSUME SendRequests PROVE UNCHANGED <<counts, WindowPast, abnormalKeys>>
    BY <2>4, FillingRefines DEF SendRequests, Filling, tableVars, dataVars
  <2>5. ASSUME NEW q \in queries, AnswerQuery(q)
        PROVE  UNCHANGED <<counts, WindowPast, abnormalKeys>>
    <3>1. q.row = curEpochPos
      BY DEF IInv, Addressing, QueriesRight
    <3>2. Filling /\ UNCHANGED <<counts, abnormalKeys, posOf>>
      BY <2>5, <3>1 DEF AnswerQuery, Put, Filling, tableVars, IInv, Addressing, TypeOK
    <3> QED BY <3>2, FillingRefines
  <2>6. ASSUME NEW k \in HotKeys, WriteHotKey(k)
        PROVE  UNCHANGED <<counts, WindowPast, abnormalKeys>>
    <3>1. SwitchRow = curEpochPos
      BY <2>6 DEF IInv, Addressing, InStep, WriteHotKey
    <3>2. Filling /\ UNCHANGED <<counts, abnormalKeys, posOf>>
      BY <2>6, <3>1 DEF WriteHotKey, Put, Filling, tableVars, IInv, Addressing, TypeOK
    <3> QED BY <3>2, FillingRefines
  <2>7. ASSUME NEW k \in Keys, NEW p \in Pos, RecvKeyVal(k, p)
        PROVE  UNCHANGED <<counts, WindowPast, abnormalKeys>>
    <3>1. Filling /\ InsKey(k, p) /\ UNCHANGED <<counts, abnormalKeys>>
      BY <2>7 DEF RecvKeyVal, Put, Filling, IInv, Addressing, TypeOK
    <3> QED BY <3>1, InsKeyRefines, FillingRefines
  <2>8. ASSUME Merge PROVE Abstract!Next
    BY <2>8, MergeRefines DEF Abstract!Next
  <2>9. ASSUME RecvDone PROVE UNCHANGED <<counts, WindowPast, abnormalKeys>>
    BY <2>9, RecvDoneRefines
  <2> QED BY <2>1, <2>2, <2>3, <2>4, <2>5, <2>6, <2>7, <2>8, <2>9 DEF Next
<1> QED BY <1>1, <1>2, Invariant, PTL DEF Spec, SlidesExactly, Abstract!Spec, Abstract!windowVars
=============================================================================

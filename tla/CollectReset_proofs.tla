------------------------ MODULE CollectReset_proofs ------------------------
(***************************************************************************)
(* IInv is an inductive invariant of the protocol, for any number of       *)
(* cells, keys, chains, queries and stray packets and whatever is lost;    *)
(* the three safety properties follow from it.                             *)
(***************************************************************************)
EXTENDS CollectReset, TLAPS

(* RSTIDX_MID and NDATA cannot be taken for one another or for a cell.     *)
LEMMA MidIsNoCell == RSTIDX_MID \in Nat /\ RSTIDX_MID > NDATA /\ NDATA \in Nat /\ NDATA > 1
  BY CollectResetAssumption DEF RSTIDX_MID

(* The initial state has no packet and no reset under way.                 *)
LEMMA InitEstablishes == Init => IInv
<1> SUFFICES ASSUME Init PROVE IInv
  OBVIOUS
<1>1. /\ link \in [Ops -> Nat] /\ ring \in [Ops -> Nat]
      /\ \A op \in Ops : link[op] = 0 /\ ring[op] = 0
  BY DEF Init, NoPackets
<1>2. TypeOK
  <2>1. busy \in BOOLEAN
    BY Zenon DEF Init
  <2> QED BY <1>1, <2>1, MidIsNoCell DEF Init, TypeOK
<1>3. InOrder /\ Tokens
  BY <1>1 DEF InOrder, Tokens, Ops
<1>4. Idle /\ Waiting /\ Halfway /\ Running /\ Over
  BY <1>1, MidIsNoCell DEF Init, Idle, Waiting, Halfway, Running, Over, NoToken, Ops
<1> QED BY <1>2, <1>3, <1>4 DEF IInv

(* What a pass leaves on the link and in the switch: packets of one kind   *)
(* are taken, at most one packet comes back.                               *)
LEMMA PassCounts ==
  ASSUME TypeOK, NEW src \in Sources, NEW op \in Ops, Arrives(src, op),
         NEW out \in SUBSET Ops, Pass(src, op, out)
  PROVE  /\ link' \in [Ops -> Nat] /\ ring' \in [Ops -> Nat]
         /\ \A o \in Ops : link'[o] = link[o] - (IF src = "host" /\ o = op THEN 1 ELSE 0)
         /\ \A o \in Ops : ring'[o] = ring[o]
                                      - (IF src = "mirror" /\ o = op THEN 1 ELSE 0)
                                      + (IF o \in out THEN 1 ELSE 0)
  BY DEF TypeOK, Arrives, Pass, Sources

(* Every step preserves the invariant: controller steps.                   *)
LEMMA BeginPreserves == ASSUME NEW m \in 0 .. MaxQueries, IInv, Begin(m) PROVE IInv'
<1> USE CollectResetAssumption, MidIsNoCell DEF IInv
<1>1. /\ busy' = TRUE /\ dones' = 0 /\ ring' = ring /\ left' = left /\ resetIdx' = resetIdx
      /\ link' \in [Ops -> Nat]
      /\ link'["START"] = 1 /\ link'["RST_START"] = 1
  BY DEF Begin, TypeOK, Ops
<1>2. resetIdx = NDATA /\ left = 0 /\ NoToken
  BY DEF Begin, Idle
<1>3. TypeOK'
  BY <1>1 DEF TypeOK
<1>4. (InOrder /\ Tokens /\ Idle /\ Waiting /\ Halfway /\ Running /\ Over)'
  BY <1>1, <1>2 DEF TypeOK, InOrder, Tokens, Idle, Waiting, Halfway, Running, Over,
                    NoToken, Ops
<1> QED BY <1>3, <1>4

LEMMA FinishPreserves == ASSUME IInv, Finish PROVE IInv'
<1> USE DEF IInv, Finish
<1>1. resetIdx = NDATA /\ left = 0 /\ NoToken
  BY MidIsNoCell DEF TypeOK, Halfway, Running, Over
<1>2. TypeOK' /\ InOrder' /\ Tokens'
  BY DEF TypeOK, InOrder, Tokens
<1>3. (Idle /\ Waiting /\ Halfway /\ Running /\ Over)'
  BY <1>1, MidIsNoCell DEF Idle, Waiting, Halfway, Running, Over, NoToken
<1> QED BY <1>2, <1>3

(* Every step preserves the invariant: steps of the switch.                *)
LEMMA StartPreserves == ASSUME NEW n \in 0 .. NKEYS, IInv, Start(n) PROVE IInv'
<1> USE CollectResetAssumption, MidIsNoCell DEF IInv
<1>1. /\ link["START"] = 1 /\ link["RST_START"] = 1 /\ ring["RST_START"] = 0
      /\ resetIdx = NDATA /\ dones = 0 /\ busy
  BY DEF Start, Arrives, TypeOK, InOrder, Tokens, Waiting, Idle, NoToken, Ops
<1>2. left' \in Nat /\ NextCollectOp(left') \in Ops /\ UNCHANGED <<busy, resetIdx, dones>>
  BY DEF Start, NextCollectOp, Ops
<1>3. /\ link' \in [Ops -> Nat] /\ ring' \in [Ops -> Nat]
      /\ link'["START"] = 0 /\ link'["RST_START"] = 1
      /\ \A op \in Ops \ {"START"} : link'[op] = link[op]
      /\ \A op \in Ops : ring'[op] = ring[op] + (IF op = NextCollectOp(left') THEN 1 ELSE 0)
  <2> DEFINE out == {NextCollectOp(left')}
  <2>1. "host" \in Sources /\ "START" \in Ops /\ out \in SUBSET Ops
    BY <1>2 DEF Sources, Ops
  <2>2. Arrives("host", "START") /\ Pass("host", "START", out)
    BY DEF Start
  <2>3. \A op \in Ops : op \in out <=> op = NextCollectOp(left')
    OBVIOUS
  <2> HIDE DEF out
  <2> QED BY <1>1, <2>1, <2>2, <2>3, PassCounts DEF TypeOK, Ops
<1>4. TypeOK' /\ InOrder'
  BY <1>2, <1>3 DEF TypeOK, InOrder, Ops
<1>5. Tokens'
  BY <1>1, <1>2, <1>3 DEF Tokens, NextCollectOp, Ops
<1>6. (Idle /\ Waiting /\ Halfway /\ Running /\ Over)'
  BY <1>1, <1>2, <1>3 DEF Idle, Waiting, Halfway, Running, Over
<1> QED BY <1>4, <1>5, <1>6

LEMMA QueryPreserves == ASSUME IInv, Query PROVE IInv'
<1> USE CollectResetAssumption, MidIsNoCell DEF IInv
<1>1. UNCHANGED <<busy, left, resetIdx, dones>>
  BY DEF Query
<1>2. /\ link' \in [Ops -> Nat] /\ ring' \in [Ops -> Nat]
      /\ \A op \in Ops : link'[op] =< link[op]
      /\ \A op \in Ops \ {"QRY_KEY"} : link'[op] = link[op]
      /\ \A op \in Ops : ring'[op] = ring[op]
  BY PassCounts DEF Query, TypeOK, Ops, Sources
<1>3. TypeOK' /\ InOrder' /\ Tokens'
  BY <1>1, <1>2 DEF TypeOK, InOrder, Tokens, Ops
<1>4. (Idle /\ Waiting /\ Halfway /\ Running /\ Over)'
  BY <1>1, <1>2 DEF Idle, Waiting, Halfway, Running, Over, NoToken, Ops
<1> QED BY <1>3, <1>4

LEMMA CollectPreserves == ASSUME NEW src \in Sources, IInv, Collect(src) PROVE IInv'
<1> USE CollectResetAssumption, MidIsNoCell DEF IInv
<1> DEFINE out == IF left = 0 THEN {"RST"} ELSE {NextCollectOp(left')}
<1>1. /\ UNCHANGED <<busy, resetIdx, dones>>
      /\ left' = IF left = 0 THEN 0 ELSE left - 1
      /\ Pass(src, "COL", out)
  BY DEF Collect
<1>2. left \in Nat /\ left' \in Nat
  BY <1>1 DEF TypeOK
<1>3. out \in SUBSET {"COL", "RST", "RST_START"} /\ ("RST_START" \in out <=> left = 1)
  BY <1>1, <1>2 DEF NextCollectOp
<1> HIDE DEF out
<1>4. /\ link' \in [Ops -> Nat] /\ ring' \in [Ops -> Nat]
      /\ \A op \in Ops : link'[op] =< link[op]
      /\ \A op \in Ops \ {"COL"} : link'[op] = link[op]
      /\ \A op \in Ops \ {"COL"} : ring'[op] = ring[op] + (IF op \in out THEN 1 ELSE 0)
  BY <1>1, <1>3, PassCounts DEF Collect, TypeOK, Ops
<1>5. TypeOK' /\ InOrder'
  BY <1>1, <1>2, <1>4 DEF TypeOK, InOrder, Ops
<1>6. left = 1 => link["START"] = 0 /\ ring["RST_START"] = 0
  BY DEF TypeOK, Waiting, Tokens, Ops
<1>7. Tokens'
  BY <1>1, <1>2, <1>3, <1>4, <1>6 DEF Tokens, Ops
<1>8. (Idle /\ Waiting /\ Halfway /\ Running /\ Over)'
  BY <1>1, <1>2, <1>3, <1>4, <1>6 DEF Idle, Waiting, Halfway, Running, Over, NoToken, Ops
<1> QED BY <1>5, <1>7, <1>8

(* A packet of any kind is lost.                                           *)
LEMMA LosePreserves ==
  ASSUME NEW src \in Sources, NEW op \in Ops, IInv, Lose(src, op) PROVE IInv'
<1> USE CollectResetAssumption, MidIsNoCell DEF IInv
<1>1. UNCHANGED <<busy, left, resetIdx, dones>>
  BY DEF Lose
<1>2. /\ link' \in [Ops -> Nat] /\ ring' \in [Ops -> Nat]
      /\ \A o \in Ops : link'[o] =< link[o]
      /\ \A o \in Ops : ring'[o] =< ring[o]
      /\ op # "RST_START" => link'["RST_START"] = link["RST_START"]
  BY PassCounts DEF Lose, TypeOK, Ops
<1>3. op = "RST_START" /\ src = "host" => \A o \in {"START", "COL", "QRY_KEY"} : link'[o] = 0
  BY <1>2 DEF Lose, Arrives, Before, TypeOK, Ops
<1>4. src # "host" => link' = link
  BY DEF Lose, Pass
<1>5. TypeOK' /\ InOrder'
  BY <1>1, <1>2, <1>3, <1>4 DEF TypeOK, InOrder, Ops
<1>6. Tokens'
  BY <1>1, <1>2 DEF TypeOK, Tokens, Ops
<1>7. (Idle /\ Waiting /\ Halfway /\ Running /\ Over)'
  BY <1>1, <1>2, <1>6 DEF TypeOK, Tokens, Idle, Waiting, Halfway, Running, Over, NoToken, Ops
<1> QED BY <1>5, <1>6, <1>7

(***************************************************************************)
(* The reset: the first RST_START finds NDATA and leaves RSTIDX_MID, the   *)
(* second starts at cell 0, and each RST clears the next cell.             *)
(***************************************************************************)
LEMMA FirstRstStart ==
  ASSUME NEW src \in Sources, IInv, Reset(src, "RST_START"), resetIdx = NDATA
  PROVE  IInv'
<1> USE CollectResetAssumption, MidIsNoCell DEF IInv
<1>1. dones = 0 /\ busy
  BY DEF Reset, Arrives, TypeOK, Tokens, Idle, Over, NoToken, Sources, Ops
<1>2. /\ resetIdx' = RSTIDX_MID /\ UNCHANGED <<busy, left>> /\ dones' = dones
      /\ Pass(src, "RST_START", {})
  BY DEF Reset, ResetIdxLeft, ResetIdxGot, Reported
<1>3. /\ link' \in [Ops -> Nat] /\ ring' \in [Ops -> Nat]
      /\ \A o \in Ops \ {"RST_START"} : link'[o] = link[o] /\ ring'[o] = ring[o]
      /\ src = "host" => /\ ring'["RST_START"] = ring["RST_START"]
                         /\ link'["RST_START"] = 0
                         /\ \A o \in {"START", "COL", "QRY_KEY"} : link'[o] = 0
      /\ src # "host" => /\ link' = link
                         /\ ring["RST_START"] = 1
                         /\ ring'["RST_START"] = 0
  <2> "RST_START" \in Ops /\ {} \in SUBSET Ops /\ Arrives(src, "RST_START")
    BY DEF Ops, Reset
  <2>1. CASE src = "host"
    <3>1. link["RST_START"] = 1 /\ \A o \in {"START", "COL", "QRY_KEY"} : link[o] = 0
      BY <2>1 DEF Arrives, Before, TypeOK, Tokens, Ops
    <3> QED BY <1>2, <2>1, <3>1, PassCounts DEF TypeOK, Ops
  <2>2. CASE src = "mirror"
    <3>1. ring["RST_START"] = 1 /\ link' = link
      BY <1>2, <2>2 DEF Arrives, Pass, TypeOK, Tokens, Ops
    <3> QED BY <1>2, <2>2, <3>1, PassCounts DEF TypeOK, Ops
  <2> QED BY <2>1, <2>2 DEF Sources
<1>4. TypeOK'
  BY <1>2, <1>3 DEF TypeOK
<1>5. InOrder' /\ Tokens'
  BY <1>2, <1>3 DEF TypeOK, InOrder, Tokens, Ops
<1>6. (Idle /\ Waiting /\ Halfway /\ Running /\ Over)'
  BY <1>1, <1>2, <1>3 DEF TypeOK, InOrder, Tokens, Idle, Waiting, Halfway, Running, Over,
                          NoToken, Ops
<1> QED BY <1>4, <1>5, <1>6

LEMMA SecondRstStart ==
  ASSUME NEW src \in Sources, IInv, Reset(src, "RST_START"), resetIdx # NDATA
  PROVE  IInv'
<1> USE CollectResetAssumption, MidIsNoCell DEF IInv
<1>1. busy /\ ~NoToken
  BY DEF Reset, Arrives, TypeOK, Idle, NoToken, Sources, Ops
<1>2. resetIdx = RSTIDX_MID /\ dones = 0
  BY <1>1 DEF TypeOK, Running, Halfway
<1>3. /\ resetIdx' = 1 /\ UNCHANGED <<busy, left>> /\ dones' = 1
      /\ Pass(src, "RST_START", {"RST"})
  BY <1>2 DEF Reset, ResetIdxLeft, ResetIdxGot, Reported
<1>4. /\ link' \in [Ops -> Nat] /\ ring' \in [Ops -> Nat]
      /\ \A o \in Ops \ {"RST", "RST_START"} : link'[o] = link[o] /\ ring'[o] = ring[o]
      /\ src = "host" => /\ link["RST_START"] = 1 /\ link'["RST_START"] = 0
                         /\ ring'["RST_START"] = ring["RST_START"]
                         /\ \A o \in {"START", "COL", "QRY_KEY"} : link'[o] = 0
      /\ src # "host" => /\ link' = link
                         /\ ring["RST_START"] = 1
                         /\ ring'["RST_START"] = 0
  <2> "RST_START" \in Ops /\ {"RST"} \in SUBSET Ops /\ Arrives(src, "RST_START")
    BY DEF Ops, Reset
  <2>1. CASE src = "host"
    <3>1. link["RST_START"] = 1 /\ \A o \in {"START", "COL", "QRY_KEY"} : link[o] = 0
      BY <2>1 DEF Arrives, Before, TypeOK, Tokens, Ops
    <3> QED BY <1>3, <2>1, <3>1, PassCounts DEF TypeOK, Ops
  <2>2. CASE src = "mirror"
    <3>1. ring["RST_START"] = 1 /\ link' = link
      BY <1>3, <2>2 DEF Arrives, Pass, TypeOK, Tokens, Ops
    <3> QED BY <1>3, <2>2, <3>1, PassCounts DEF TypeOK, Ops
  <2> QED BY <2>1, <2>2 DEF Sources
<1>5. left = 0 /\ NoToken'
  BY <1>2, <1>4 DEF TypeOK, InOrder, Tokens, Halfway, NoToken, Ops
<1>6. TypeOK'
  BY <1>3, <1>4 DEF TypeOK
<1>7. InOrder' /\ Tokens'
  BY <1>3, <1>4, <1>5 DEF TypeOK, InOrder, Tokens, NoToken, Ops
<1>8. (Idle /\ Waiting /\ Halfway /\ Running /\ Over)'
  BY <1>1, <1>3, <1>4, <1>5, <1>7 DEF TypeOK, InOrder, Idle, Waiting, Halfway, Running, Over,
                                 NoToken, Ops
<1> QED BY <1>6, <1>7, <1>8

LEMMA RstPreserves ==
  ASSUME NEW src \in Sources, IInv, Reset(src, "RST") PROVE IInv'
<1> USE CollectResetAssumption, MidIsNoCell DEF IInv
<1> DEFINE out == IF ResetIdxGot("RST") = NDATA THEN {} ELSE {"RST"}
<1>1. UNCHANGED <<busy, left>> /\ Pass(src, "RST", out) /\ out \in SUBSET {"RST"}
  BY DEF Reset
<1> HIDE DEF out
<1>2. /\ link' \in [Ops -> Nat] /\ ring' \in [Ops -> Nat]
      /\ \A o \in Ops \ {"RST"} : link'[o] = link[o] /\ ring'[o] = ring[o]
  <2>1. out \in SUBSET Ops /\ "RST" \in Ops
    BY <1>1 DEF Ops
  <2> QED BY <1>1, <2>1, PassCounts DEF Reset, TypeOK
<1>3. InOrder' /\ Tokens'
  BY <1>1, <1>2 DEF InOrder, Tokens, Ops
<1>4. CASE resetIdx < NDATA
  <2>1. busy /\ resetIdx \in Nat /\ resetIdx > 0 /\ dones = 1 /\ left = 0 /\ NoToken
    BY <1>4 DEF TypeOK, Running, Idle
  <2>2. /\ resetIdx' = resetIdx + 1
        /\ dones' = IF resetIdx' = NDATA THEN 2 ELSE 1
    BY <1>4, <2>1 DEF Reset, ResetIdxLeft, ResetIdxGot, Reported
  <2>3. TypeOK' /\ NoToken'
    BY <1>1, <1>2, <1>4, <2>1, <2>2 DEF TypeOK, NoToken, Ops
  <2>4. (Idle /\ Waiting /\ Halfway /\ Running /\ Over)'
    BY <1>1, <1>2, <1>4, <2>1, <2>2, <2>3
       DEF Idle, Waiting, Halfway, Running, Over, NoToken, Ops
  <2> QED BY <1>3, <2>3, <2>4
<1>5. CASE resetIdx \in {NDATA, RSTIDX_MID}
  <2>1. resetIdx' = resetIdx /\ dones' = dones
    BY <1>5 DEF Reset, ResetIdxLeft, ResetIdxGot, Reported
  <2>2. TypeOK'
    BY <1>1, <1>2, <2>1 DEF TypeOK
  <2>3. (Idle /\ Waiting /\ Halfway /\ Running /\ Over)'
    BY <1>1, <1>2, <2>1 DEF Idle, Waiting, Halfway, Running, Over, NoToken, Ops
  <2> QED BY <1>3, <2>2, <2>3
<1> QED BY <1>4, <1>5 DEF TypeOK

-----------------------------------------------------------------------------
(* IInv is inductive.                                                      *)
LEMMA NextPreserves == IInv /\ [Next]_vars => IInv'
<1> SUFFICES ASSUME IInv, [Next]_vars PROVE IInv'
  OBVIOUS
<1>1. ASSUME NEW m \in 0 .. MaxQueries, Begin(m) PROVE IInv'
  BY <1>1, BeginPreserves
<1>2. ASSUME NEW n \in 0 .. NKEYS, Start(n) PROVE IInv'
  BY <1>2, StartPreserves
<1>3. ASSUME NEW src \in Sources, Collect(src) PROVE IInv'
  BY <1>3, CollectPreserves
<1>4. CASE Query
  BY <1>4, QueryPreserves
<1>5. ASSUME NEW src \in Sources, NEW op \in Ops, Reset(src, op) PROVE IInv'
  <2>1. CASE op = "RST"
    BY <1>5, <2>1, RstPreserves
  <2>2. CASE op = "RST_START"
    BY <1>5, <2>2, FirstRstStart, SecondRstStart
  <2> QED BY <1>5, <2>1, <2>2 DEF Reset
<1>6. ASSUME NEW src \in Sources, NEW op \in Ops, Lose(src, op) PROVE IInv'
  BY <1>6, LosePreserves
<1>7. CASE Finish
  BY <1>7, FinishPreserves
<1>8. CASE UNCHANGED vars
  BY <1>8 DEF vars, IInv, TypeOK, InOrder, Tokens, Idle, Waiting, Halfway, Running, Over,
              NoToken
<1> QED BY <1>1, <1>2, <1>3, <1>4, <1>5, <1>6, <1>7, <1>8 DEF Next

(* Every reachable state of the protocol satisfies the inductive invariant.*)
THEOREM Invariant == Spec => []IInv
  BY InitEstablishes, NextPreserves, PTL DEF Spec

(***************************************************************************)
(* No cell is cleared before the last key and the last query of the        *)
(* sub-window have been read, whatever is lost and whichever of the two    *)
(* RST_START comes first.                                                  *)
(***************************************************************************)
THEOREM CollectedFirst == Spec => []CollectedBeforeReset
<1>1. IInv => CollectedBeforeReset
  <2> SUFFICES ASSUME IInv, resetIdx < NDATA PROVE NothingLeftToRead
    BY DEF CollectedBeforeReset
  <2>1. left = 0 /\ NoToken
    BY DEF IInv, Running
  <2> QED BY <2>1 DEF IInv, TypeOK, InOrder, NoToken, NothingLeftToRead, Ops
<1> QED BY <1>1, Invariant, PTL

(***************************************************************************)
(* A DONE is sent only when what it says is true: after the first one      *)
(* nothing is left to be read, after the second every cell is reset, and   *)
(* there is no third.                                                      *)
(***************************************************************************)
THEOREM DonesAreTrue == Spec => []DonesTellTheTruth
<1>1. IInv => DonesTellTheTruth
  <2> SUFFICES ASSUME IInv PROVE DonesTellTheTruth
    OBVIOUS
  <2>1. dones \in Nat /\ dones =< 2
    BY MidIsNoCell DEF IInv, TypeOK, Halfway, Running, Over
  <2>2. dones >= 1 => left = 0 /\ NoToken
    BY MidIsNoCell DEF IInv, TypeOK, Halfway, Running, Over
  <2>3. dones >= 1 => NothingLeftToRead
    BY <2>2 DEF IInv, TypeOK, InOrder, NoToken, NothingLeftToRead, Ops
  <2>4. dones >= 2 => resetIdx = NDATA
    BY MidIsNoCell DEF IInv, TypeOK, Halfway, Running
  <2> QED BY <2>1, <2>3, <2>4 DEF DonesTellTheTruth
<1> QED BY <1>1, Invariant, PTL

(***************************************************************************)
(* While a START is on its way the reset of the previous switch is over    *)
(* and its key buffer is empty: the START hands clean cells to the traffic,*)
(* though packets of the previous switch may still circulate.              *)
(***************************************************************************)
THEOREM StartsClean == Spec => []StartsAfterReset
<1>1. IInv => StartsAfterReset
  BY DEF IInv, Waiting, StartsAfterReset
<1> QED BY <1>1, Invariant, PTL
=============================================================================

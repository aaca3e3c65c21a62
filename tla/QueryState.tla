----------------------------- MODULE QueryState -----------------------------
(***************************************************************************)
(* The state that the controller programs of all queries have in common:   *)
(* seven programs of one shape, each with values and tests of its own.     *)
(* The arrays of the SLIDING build and of the other build are one here:    *)
(* sliding says which of the two it is, and without it only row 0 is used. *)
(***************************************************************************)
EXTENDS Integers, Sequences, FiniteSets, Functions

CONSTANTS Keys,        \* the keys of the query
          NoKey,       \* content of keys[] where none has been stored
          NPos,        \* N: positions of the hash table
          NoPos,       \* "position" of a key the table does not hold
          InputKeys,   \* keys of the input file
          NEPOCH_BUF,  \* rows of the ring of a SLIDING build
          NEpoch,      \* nEpoch: sub-windows of a window
          MaxTotal,    \* bound: what a build that is not SLIDING adds up
          Threshold,   \* threshold
          Width16,     \* 2^16, scaled down
          Width32      \* 2^32, scaled down

ASSUME QueryAssumption ==
  /\ NoKey \notin Keys
  /\ NPos \in Nat \ {0} /\ IsFiniteSet(Keys) /\ Cardinality(Keys) <= NPos /\ NoPos \notin 0 .. NPos - 1
  /\ InputKeys \subseteq Keys
  /\ NEPOCH_BUF \in Nat \ {0} /\ NEpoch \in 1 .. NEPOCH_BUF
  /\ MaxTotal \in Nat
  /\ {Threshold, Width16, Width32} \subseteq Nat \ {0}

VARIABLES sliding,       \* the program was built with SLIDING
          pc,            \* the phase of switchWin
          posOf,         \* the hash table h
          keys,          \* keys
          valid,         \* valid, or the positions below nKeys
          pin,           \* pin
          epochData,     \* epochData[row][position]
          mergedData,    \* mergedData
          abnormalKeys,  \* abnormalKeys, its first nAbnormal entries
          curEpoch,      \* curEpoch: the sub-window in its window
          curEpochPos,   \* curEpochPos
          epoch,         \* reg_epoch of the switch, as the row it selects
          requests,      \* the overflow keys whose query is not answered, with its address
          unsent,        \* keys whose report the switch has yet to send
          counts,        \* history: values of the sub-window being collected
          past           \* history: those before it that mergedData holds

tableVars == <<posOf, keys, valid, pin>>
clockVars == <<curEpoch, curEpochPos, epoch>>
queryVars == <<sliding, pc, tableVars, epochData, mergedData, abnormalKeys, clockVars,
               requests, unsent, counts, past>>

Pos == 0 .. NPos - 1
Rows == IF sliding THEN 0 .. NEPOCH_BUF - 1 ELSE {0}
=============================================================================

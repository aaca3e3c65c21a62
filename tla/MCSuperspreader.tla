--------------------------- MODULE MCSuperspreader ---------------------------
(***************************************************************************)
(* A small instance of Superspreader: two sources, of which the first      *)
(* contacts two destinations, whose pairs share a cell in one row of the   *)
(* distinct filter.                                                        *)
(***************************************************************************)
EXTENDS Superspreader

CONSTANTS k1, k2, ab, ac, bc

SourceOf == [p \in Pairs |-> IF p = bc THEN k2 ELSE k1]
PairX == [p \in Pairs |-> IF p = ab THEN 0 ELSE IF p = ac THEN 1 ELSE 2]
PairY == [p \in Pairs |-> IF p = bc THEN 0 ELSE 1]

KeyX == [k \in Keys |-> IF k = k1 THEN 0 ELSE 1]
KeyY == [k \in Keys |-> 0]
=============================================================================

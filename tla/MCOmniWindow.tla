---------------------------- MODULE MCOmniWindow ----------------------------
(***************************************************************************)
(* Small instances of OmniWindow.  The hash functions are chosen by hand:  *)
(* with three keys on two cells some keys share a cell of one row and some *)
(* of both, and the filter can take a key it has not seen for an old one.  *)
(***************************************************************************)
EXTENDS OmniWindowInvariant

CONSTANTS k1, k2, k3

(* Two keys that never collide in the first row.                           *)
Perfect == [k \in Keys |-> IF k = k1 THEN 0 ELSE 1]
AllZero == [k \in Keys |-> 0]

(* Three keys on two cells: k3 collides with k1 in X and with k2 in Y.     *)
HashX == [k \in Keys |-> IF k = k2 THEN 1 ELSE 0]
HashY == [k \in Keys |-> IF k = k1 THEN 0 ELSE 1]
=============================================================================

---------------------------- MODULE MCSlidingHost ----------------------------
(***************************************************************************)
(* A small instance of SlidingHost.                                        *)
(***************************************************************************)
EXTENDS SlidingHost

CONSTANTS h, k1, k2, p1, p2, p3

HotAtP1 == [k \in {h} |-> p1]
=============================================================================

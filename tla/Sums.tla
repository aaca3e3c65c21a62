-------------------------------- MODULE Sums ---------------------------------
(***************************************************************************)
(* The sum of what a function gives on its domain: the packets of a key    *)
(* over sub-windows, or what a position holds over the rows of the ring.   *)
(***************************************************************************)
EXTENDS Integers, FiniteSetsExt

Total(g) == MapThenSumSet(LAMBDA x : g[x], DOMAIN g)
=============================================================================

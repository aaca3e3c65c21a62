------------------------------ MODULE Distinct ------------------------------
(***************************************************************************)
(* The classes of Exp-1 that let each pair pass once in a window.          *)
(***************************************************************************)
EXTENDS Integers

CONSTANTS DKeys,     \* the pairs
          NSlide,    \* nSlide: slides of a window
          MarkOf     \* the cell of a pair in the row of DataPlaneDistinct

(* DataPlaneDistinct: the cells that are marked.  process returns whether  *)
(* the cell was not.                                                       *)
FilterPasses(a, dkey) == MarkOf[dkey] \notin a
FilterProcess(a, dkey) == a \cup {MarkOf[dkey]}

(* BaselineDistinct: the pairs seen.                                       *)
SetPasses(a, dkey) == dkey \notin a
SetProcess(a, dkey) == a \cup {dkey}

(* FineGrainedLargeDistinct::switchWin clears what is below it when a      *)
(* window ends, not with each slide.                                       *)
NewFineGrained == [underlay |-> {}, curSlide |-> 0]
FineGrainedSwitch(f) ==
  [underlay |-> IF f.curSlide = NSlide - 1 THEN {} ELSE f.underlay,
   curSlide |-> (f.curSlide + 1) % NSlide]

(* SlidingBaselineDistinct: the slides that a pair has to live; 0 where it *)
(* has none.  switchWin takes one from each, and erases those that reach 0.*)
NewTtl == [d \in DKeys |-> 0]
TtlSwitch(ttl) == [d \in DKeys |-> IF ttl[d] = 0 THEN 0 ELSE ttl[d] - 1]

(* getTtlAndProcess returns ttl[dkey] and renews it.                       *)
TtlProcess(ttl, dkey) == [ttl EXCEPT ![dkey] = NSlide]
=============================================================================

------------------------------- MODULE Reduce -------------------------------
(***************************************************************************)
(* The classes of Exp-1 that count values by key, as functions on records: *)
(* the sketch of a data plane (one row: evaluate passes no number of       *)
(* rows), a map, and the two that cut a window into slides and keep one of *)
(* those below them.  A map is a function on the keys that it holds: a key *)
(* with value 0 and one that is not held are different to the loops of the *)
(* queries.                                                                *)
(***************************************************************************)
EXTENDS Integers, TLC

CONSTANTS RKeys,     \* the keys of the reduces
          NSlide,    \* nSlide: slides of a window
          CellOf     \* the cell of a key in the row of the sketch

EmptyFunction == [k \in {} |-> 0]
Cells == {CellOf[k] : k \in RKeys}

(* What m[key] reads; += and -= make a key that is not held.               *)
At(m, key) == IF key \in DOMAIN m THEN m[key] ELSE 0
AddMap(m, r) == [k \in DOMAIN m \cup DOMAIN r |-> At(m, k) + At(r, k)]

(* r is taken away from m, and the keys of r that fall to 0 are erased.    *)
SubMap(m, r) ==
  [k \in {k \in DOMAIN m \cup DOMAIN r : k \in DOMAIN r => At(m, k) # r[k]} |->
     At(m, k) - At(r, k)]

(* DataPlaneReduce and BaselineReduce when they are made and when a window *)
(* begins.                                                                 *)
EmptySketch == [a |-> [c \in Cells |-> 0], keys |-> {}]
EmptyMap == [a |-> EmptyFunction]

(* A variant with a fault: a key is tracked when it comes a second time.   *)
SketchProcessLate(s, key, val) ==
  [a |-> [s.a EXCEPT ![CellOf[key]] = @ + val],
   keys |-> IF s.a[CellOf[key]] > 0 THEN s.keys \cup {key} ELSE s.keys]

(* DataPlaneReduce::process: the key that finds its cell empty is tracked. *)
SketchProcess(s, key, val) ==
  [a |-> [s.a EXCEPT ![CellOf[key]] = @ + val],
   keys |-> IF s.a[CellOf[key]] = 0 THEN s.keys \cup {key} ELSE s.keys]

(* DataPlaneReduce::switchWin returns the cells of the tracked keys.       *)
SketchResult(s) == [k \in s.keys |-> s.a[CellOf[k]]]

(* BaselineReduce::process, switchWin.                                     *)
MapProcess(m, key, val) == [a |-> AddMap(m.a, key :> val)]
MapResult(m) == m.a

(* FineGrainedReduce, SlidingReduce when they are made.                    *)
NewFineGrained(underlay) ==
  [underlay |-> underlay, curSlide |-> 0, mergedData |-> EmptyFunction]
NewSliding(underlay) ==
  [underlay |-> underlay, curSlide |-> 0, mergedData |-> EmptyFunction,
   slideData |-> [i \in 0 .. NSlide - 1 |-> EmptyFunction]]

(* FineGrainedReduce::switchWin: add the slide; the result of the last     *)
(* slide of a window is what has been added.                               *)
FineGrainedSwitch(f, r, empty) ==
  [underlay |-> empty, curSlide |-> (f.curSlide + 1) % NSlide,
   mergedData |-> IF f.curSlide = NSlide - 1 THEN EmptyFunction ELSE AddMap(f.mergedData, r)]
FineGrainedReturns(f) == f.curSlide = NSlide - 1
FineGrainedResult(f, r) == AddMap(f.mergedData, r)

(* SlidingReduce::switchWin: this slide takes the place of the oldest.     *)
SlidingResult(s, r) == AddMap(SubMap(s.mergedData, s.slideData[s.curSlide]), r)
SlidingSwitch(s, r, empty) ==
  [underlay |-> empty, curSlide |-> (s.curSlide + 1) % NSlide,
   mergedData |-> SlidingResult(s, r),
   slideData |-> [s.slideData EXCEPT ![s.curSlide] = r]]

(* A variant with a fault: the slide is looked for in the wrong direction. *)
SlideOfTtlBack(s, prevTtl) == (s.curSlide + NSlide - prevTtl) % NSlide

(* The slide in which a value with that time to live was counted last.     *)
SlideOfTtl(s, prevTtl) == (s.curSlide + prevTtl) % NSlide

(* SlidingReduce::processWithPrevTtl over a map: what was counted in an    *)
(* earlier slide is counted in this one instead.                           *)
ProcessWithPrevTtl(s, key, val, prevTtl) ==
  IF prevTtl >= NSlide THEN s
  ELSE LET moved == [s EXCEPT !.slideData[SlideOfTtl(s, prevTtl)] = AddMap(@, key :> -val),
                              !.mergedData = AddMap(@, key :> -val)]
       IN  [(IF prevTtl > 0 THEN moved ELSE s) EXCEPT
              !.underlay = MapProcess(s.underlay, key, val)]
=============================================================================

--------------------------- MODULE MCExperiments ----------------------------
(***************************************************************************)
(* The programs beside the queries, one of them at a time: the simulation  *)
(* of Exp-1, the sketches of Exp-2, the collection schemes of Exp-dc, and  *)
(* how a controller and its script start.                                  *)
(***************************************************************************)
EXTENDS StartUp, Collection

CONSTANTS Hosts, NSlide, NEpoch, DcTime, Threshold, BytesPerCon, SimPkts, MaxTime,
          Depth, Width, MeasurePoint, HHThreshold, NSub, SketchPkts

VARIABLES experiment,
          app, trace, thread,
          way, kind, sketch, hitters, tracked, head, headJ, sub, pkts, sizes, heavy, result

-----------------------------------------------------------------------------
(* The host programs, with fewer, as many and more keys than the switch    *)
(* stores, and with one or more COL packets.                               *)
SetupsOf(scheme, nKeys, nums) == [scheme : {scheme}, nKey : nKeys, num : nums]
TriedSetups ==
  UNION {SetupsOf("ow", 1 .. 11, 1 .. 2), SetupsOf("ow-rdma", 1 .. 5, 1 .. 2),
         SetupsOf("cpc", 1 .. 7, {1}), SetupsOf("cpc-rdma", {1, 4}, {1})}
    \cup UNION {SetupsOf(scheme, {1}, 1 .. 3) : scheme \in {"dpc", "dpc-rdma", "reset"}}

(* The input file of a controller.                                         *)
InputFile == <<"k1", "k2">>

(* Three flows: every two share a counter in one row, two of them in none. *)
Keys == {"k1", "k2", "k3"}
HashOf == [k \in Keys |-> CASE k = "k1" -> <<1, 1>> [] k = "k2" -> <<1, 2>> [] k = "k3" -> <<2, 2>>]
RankOf == [k \in Keys |-> IF k = "k1" THEN 2 ELSE 1]
Packets == {<<"k1", 2>>, <<"k2", 2>>, <<"k3", 1>>}

Sim == INSTANCE Simulation WITH MaxPkts <- SimPkts
Sk == INSTANCE Sketches WITH MaxPkts <- SketchPkts

ASSUME MCExperimentsAssumption ==
  Sim!SimulationAssumption /\ Sk!SketchesAssumption

simVars == <<app, trace, thread>>
skVars == <<way, kind, sketch, hitters, tracked, head, headJ, sub, pkts, sizes, heavy, result>>
vars == <<experiment, simVars, colVars, startVars, skVars>>

-----------------------------------------------------------------------------
(* The programs that do not run keep one of their initial states.          *)
Init ==
  /\ experiment \in {"Exp-1", "Exp-2", "Exp-dc", "start-up"}
  /\ Sim!Init /\ (experiment # "Exp-1" => app = "ddos")
  /\ Sk!SketchesInit /\ (experiment # "Exp-2" => way = "OTW" /\ kind = "CM")
  /\ CollectionInit /\ (experiment # "Exp-dc" => setup = CHOOSE s \in Setups : TRUE)
  /\ StartUpInit
  /\ experiment # "start-up" => program = "exp" /\ fileOpens /\ switch.psn = 0

SimStep == experiment = "Exp-1" /\ Sim!ReadPacket
           /\ UNCHANGED <<colVars, startVars, skVars>>
ColStep == experiment = "Exp-dc" /\ CollectionNext
           /\ UNCHANGED <<simVars, startVars, skVars>>
StartStep == experiment = "start-up" /\ StartUpNext
             /\ UNCHANGED <<simVars, colVars, skVars>>
SkStep == experiment = "Exp-2" /\ Sk!SketchesNext
          /\ UNCHANGED <<simVars, colVars, startVars>>

Next == UNCHANGED experiment /\ (SimStep \/ ColStep \/ StartStep \/ SkStep)

Spec == Init /\ [][Next]_vars /\ CollectionFairness /\ StartUpFairness

-----------------------------------------------------------------------------
(* Exp-1: the ideal sliding scheme reports what the query asks for of the  *)
(* last NSlide slides, after each slide.                                   *)
ISWExact == experiment = "Exp-1" => Sim!ISWExact

(* Exp-1: the other schemes differ from it only by when they collect.      *)
SchemesAgree == experiment = "Exp-1" => Sim!SchemesAgree

(* Exp-2: the sizes that the sketches estimate at the end of a window are  *)
(* not below those of the sub-windows they cover.                          *)
EstimatesCover == experiment = "Exp-2" => Sk!EstimatesCover

(* Exp-2: the heavy hitters found at the end of a window are neither made  *)
(* up nor missed where the sketch promises them, and the sketches that are *)
(* joined give that of the window.                                         *)
FindsRight == experiment = "Exp-2" => Sk!FindsRight

(* A collection that began ends, and so does the script of a controller    *)
(* that was started and has input keys.                                    *)
EverythingEnds == CollectionEnds /\ StartUpEnds
=============================================================================

----------------------------- MODULE OmniWindow -----------------------------
(***************************************************************************)
(* The switch and the controller together: monitored traffic flows through *)
(* the switch while the controller closes, collects and resets one         *)
(* sub-window after another.                                               *)
(***************************************************************************)
EXTENDS DataPlane, Controller, Integers, FiniteSets

CONSTANTS Quiesced,    \* traffic pauses while switchWin runs
          Lossy,       \* requests and mirrored packets may be lost
          MaxPkts,     \* bound: packets of one key in one sub-window
          MaxSwitch    \* bound: calls of switchWin

ASSUME OmniWindowAssumption ==
  /\ HotKeys \subseteq InputKeys
  /\ Quiesced \in BOOLEAN
  /\ Lossy \in BOOLEAN
  /\ MaxPkts \in Nat
  /\ MaxSwitch \in Nat

(***************************************************************************)
(* History variables: no action of the switch or of the controller reads   *)
(* them.                                                                   *)
(***************************************************************************)
VARIABLES seen,       \* packets of each key in the open sub-window
          newKeys,    \* keys the filter found new in the open sub-window
          closed,     \* counters of the new keys when the epoch switched, until merged
          window,     \* counters merged since the window began
          switches    \* calls of switchWin

historyVars == <<seen, newKeys, closed, window, switches>>
vars == <<wireVars, switchVars, controllerVars, historyVars>>

NoCounts == [k \in Keys |-> 0]
Plus(f, g) == [k \in Keys |-> f[k] + g[k]]

TypeOK ==
  /\ WireTypeOK
  /\ DataPlaneTypeOK
  /\ ControllerTypeOK
  /\ seen \in [Keys -> Nat]
  /\ newKeys \subseteq Keys
  /\ closed \in [Keys -> Nat]
  /\ window \in [Keys -> Nat]
  /\ switches \in 0 .. MaxSwitch

Init ==
  /\ WireInit
  /\ DataPlaneInit
  /\ ControllerInit
  /\ seen = NoCounts
  /\ newKeys = {}
  /\ closed = NoCounts
  /\ window = NoCounts
  /\ switches = 0

-----------------------------------------------------------------------------
(* A packet of the monitored traffic.  In the replay that README.md        *)
(* describes, packets are injected only between two calls of switchWin.    *)
Traffic(k) ==
  /\ Quiesced => pc = "idle"
  /\ seen[k] < MaxPkts
  /\ NormalPacket(k)
  /\ seen' = [seen EXCEPT ![k] = @ + 1]
  /\ newKeys' = IF LooksNew(ActiveCopy, k) THEN newKeys \cup {k} ELSE newKeys
  /\ UNCHANGED <<controllerVars, closed, window, switches>>

(* START closes the sub-window: what it leaves in the counters of the keys *)
(* found new is what the controller has to merge.                          *)
CloseSubWindow ==
  IF epoch' # epoch
  THEN /\ closed' = [k \in Keys |-> IF k \in newKeys THEN CmRead(ActiveCopy, k) ELSE 0]
       /\ seen' = NoCounts
       /\ newKeys' = {}
  ELSE UNCHANGED <<closed, seen, newKeys>>

Collect(src) ==
  /\ CollectKey(src) \/ CollectNothing(src)
  /\ CloseSubWindow
  /\ UNCHANGED <<controllerVars, window, switches>>

Reset(src) == ResetPacket(src) /\ UNCHANGED <<controllerVars, historyVars>>
Query == QueryKey /\ UNCHANGED <<controllerVars, historyVars>>
ReportOverflow == ReportKey /\ UNCHANGED <<controllerVars, historyVars>>

FromHost == Collect("host") \/ Reset("host") \/ Query
FromMirror == Collect("mirror") \/ Reset("mirror") \/ ReportOverflow

-----------------------------------------------------------------------------
(* The operator asks for the next sub-window.                              *)
StartSwitch ==
  /\ switches < MaxSwitch
  /\ Quiesced => mirrorQ = <<>>
  /\ SwitchWin
  /\ switches' = switches + 1
  /\ UNCHANGED <<switchVars, seen, newKeys, closed, window>>

Receive ==
  /\ AwaitValues \/ RecvKey \/ SendRequests \/ RecvKeyVal \/ RecvKeyValsDone \/ RecvDone
  /\ UNCHANGED <<switchVars, historyVars>>

MergeSubWindow ==
  /\ Merge
  /\ window' = Plus(IF curEpoch = 0 THEN NoCounts ELSE window, closed)
  /\ closed' = NoCounts
  /\ UNCHANGED <<switchVars, seen, newKeys, switches>>

Quit == Exit /\ UNCHANGED <<switchVars, historyVars>>

Lose ==
  /\ Lossy
  /\ \/ LoseRequest /\ UNCHANGED switchVars
     \/ LoseMirrored
  /\ UNCHANGED <<controllerVars, historyVars>>

(* The controller has left and the switch has nothing to forward.          *)
Stopped == pc = "exit" /\ hostQ = <<>> /\ mirrorQ = <<>> /\ UNCHANGED vars

Next ==
  \/ \E k \in Keys : Traffic(k)
  \/ FromHost
  \/ FromMirror
  \/ StartSwitch
  \/ Receive
  \/ MergeSubWindow
  \/ Quit
  \/ Lose
  \/ Stopped

Spec == Init /\ [][Next]_vars

(***************************************************************************)
(* The egress port serves both of its queues, and the controller process   *)
(* runs while it has a message or a completion to handle.  Nothing makes   *)
(* traffic arrive or the operator ask for a sub-window.                    *)
(***************************************************************************)
Fairness ==
  /\ WF_vars(FromHost)
  /\ WF_vars(FromMirror)
  /\ WF_vars(Receive \/ MergeSubWindow)

FairSpec == Spec /\ Fairness

-----------------------------------------------------------------------------
(***************************************************************************)
(* Properties.                                                             *)
(***************************************************************************)

(* What the controller is about to merge is what the sketch held for every *)
(* reported key at the instant the epoch switched: no value is missing, is *)
(* read after its cell was cleared, or is left from an earlier sub-window. *)
MergeExact == pc = "merge" => epochData = closed

(* Cells are cleared only when the buffer of the collected copy is empty   *)
(* and no collect packet or query is still on the link: the two RST_START  *)
(* are a barrier between collecting and resetting.                         *)
CollectBeforeReset ==
  resetIdx < NDATA =>
    /\ keyIdx[ColCopy] = 0
    /\ \A i \in 1 .. Len(hostQ) : hostQ[i].op \in {"RST", "PUSH"}

(* The copy that START hands to the traffic has been cleared to the last   *)
(* cell, whatever the traffic and the reset packets did meanwhile.         *)
IsClean(c) ==
  /\ keyIdx[c] = 0
  /\ \A i \in Cell : bfX[c][i] = 0 /\ bfY[c][i] = 0 /\ cmX[c][i] = 0 /\ cmY[c][i] = 0

CleanSwitch == [][epoch' # epoch => IsClean(Copy(epoch'))]_vars

(* A key is reported at most once per sub-window: it has one place in the  *)
(* buffer, or one overflow report, never both.                             *)
ReportedOnce ==
  /\ \A c \in Copies : \A i, j \in 0 .. keyIdx[c] - 1 :
       keyBuf[c][i] = keyBuf[c][j] => i = j
  /\ \A i \in 0 .. keyIdx[ActiveCopy] - 1 : \A j \in 1 .. Len(mirrorQ) :
       mirrorQ[j].key # keyBuf[ActiveCopy][i]

(* Every completion the controller has not polled names the slot of a DONE *)
(* message that is still there, though the ring wraps.                     *)
CompletionsNameDone == \A i \in 1 .. Len(cq) : msgBuf[cq[i]].op = "DONE"

(* The assertions of recvKeys, recvKeyVals and recvDone on the kind of the *)
(* message they read.                                                      *)
HostAsserts ==
  HasMsg => /\ pc = "recvKeys" => FirstMsg.op \in {"KEY", "DONE"}
            /\ pc = "recvVals" => FirstMsg.op \in {"KEYVAL", "DONE"}
            /\ pc = "recvDone" => FirstMsg.op = "DONE"

(* At the end of a window the merged data are the counts of that window.   *)
WindowExact == pc = "recvDone" /\ curEpoch = NEpoch - 1 => mergedData = window

(* switchWin returns: no packet or message that it waits for fails to come.*)
SwitchWinReturns == pc \in Phases \ {"idle", "exit"} ~> pc = "idle"

(* With hash functions that do not collide and room for every key, the     *)
(* system is a counter that is cut into sub-windows atomically.            *)
Abstract == INSTANCE SubWindows WITH
  current <- [k \in Keys |-> CmRead(ActiveCopy, k)],
  closed <- closed,
  merged <- mergedData

AtomicSubWindows == Abstract!Spec

(* Whatever is lost, what is merged was cut at one instant: a switch that  *)
(* fails to end is the only trace that a lost packet leaves.               *)
CutsAtomically == Abstract!Safety

(***************************************************************************)
(* Every step of the system is a step of the data-free protocol or a       *)
(* stutter: counting the packets of each kind, the unread DONE messages    *)
(* and the keys left in the collected copy is all it takes to see that the *)
(* collect of a sub-window is over before its reset.                       *)
(***************************************************************************)
RequestOps == {"START", "COL", "QRY_KEY", "RST_START", "RST"}
Number(q, op) == Cardinality({i \in 1 .. Len(q) : q[i].op = op})
Counts(q) == [op \in RequestOps |-> Number(q, op)]

Busy == pc \in {"waitVals", "recvVals", "merge", "recvDone"}

Written(s) == (s - msgHead) % MSGS < (msgAddr - msgHead) % MSGS
UnreadDones == Cardinality({s \in Slot : Written(s) /\ msgBuf[s].op = "DONE"})
DonesSoFar == CASE pc \in {"waitVals", "recvVals"} -> UnreadDones
                [] pc \in {"merge", "recvDone"}    -> UnreadDones + 1
                [] OTHER                           -> 0

Protocol == INSTANCE CollectReset WITH
  busy <- Busy,
  link <- Counts(hostQ),
  ring <- Counts(mirrorQ),
  left <- keyIdx[ColCopy],
  dones <- DonesSoFar,
  MaxQueries <- Cardinality(Keys),
  MaxStray <- 2 * NReq * MaxSwitch

FollowsProtocol == Protocol!Spec
=============================================================================

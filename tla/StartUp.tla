------------------------------- MODULE StartUp -------------------------------
(***************************************************************************)
(* How a controller and the control script of its switch meet: they talk   *)
(* over one TCP connection (NetworkStream) until the switch knows where    *)
(* the controller's memory is, and the controller (the RDMA wrapper) is    *)
(* ready for the switch to write there.  "query" is a controller of        *)
(* src/apps, "exp" an RDMA host of Exp-dc.                                 *)
(***************************************************************************)
EXTENDS Integers, FiniteSets, SequencesExt

CONSTANTS InputKeys,   \* the keys of the input file, in its order
          Slots,       \* RDMA_MAX_RECV, 1 for "exp"
          MaxMsgs      \* bound: messages of the switch

ASSUME StartUpAssumption ==
  /\ InputKeys \in Seq(Range(InputKeys)) /\ IsInjective(InputKeys)
  /\ Slots \in Nat \ {0} /\ MaxMsgs \in Nat

VARIABLES program,     \* "query" or "exp"
          fileOpens,   \* whether fopen of the input file succeeds
          host,        \* the controller's thread, what it holds and how much it wrote
          toScript,    \* fields written and not yet read
          toHost,      \* bytes written and not yet read
          closed,      \* the controller's end of the connection is closed
          script,      \* the script's thread and its variables
          switch,      \* tab_addr, tab_rdma, reg_psn and reg_msg_addr
          nic          \* next PSN expected, posted receives, unread completions

startVars == <<program, fileOpens, host, toScript, toHost, closed, script, switch, nic>>

-----------------------------------------------------------------------------
(* What the constructor of RDMA takes, in its order, and what each object  *)
(* is made from; destroy gives them back in an order of its own.           *)
Acquired == <<"ctx", "pd", "mr", "cq", "qp", "rtr">>
Needs(r) ==
  CASE r = "ctx" -> {}
    [] r \in {"pd", "cq"} -> {"ctx"}
    [] r = "mr" -> {"pd"}
    [] r = "qp" -> {"pd", "cq"}
    [] r \in {"rtr", "recv"} -> {"qp"}
DestroyOrder == <<"qp", "cq", "mr", "pd", "ctx">>

(* The queue pair takes its state and its receives with it.                *)
Destroyed(r) == IF r = "qp" THEN {"qp", "rtr", "recv"} ELSE {r}

(* A message is a sequence of fields, each a name and a number.            *)
Fields == ({"qpn", "rkey", "base", "size", "nothing", "stale"} \cup Range(InputKeys)) \X Nat
InitMsg == <<<<"qpn", 0>>, <<"rkey", 0>>, <<"base", 0>>>>
None == <<>>
(* insKey gives the keys the positions 0, 1, ...                           *)
KeyMsg == <<<<"size", Len(InputKeys)>>>> \o [i \in DOMAIN InputKeys |-> <<InputKeys[i], i - 1>>]

(* Packets may have passed through the switch before the script runs.      *)
StartUpInit ==
  /\ program \in {"query", "exp"} /\ fileOpens \in BOOLEAN
  /\ host = [pc |-> "connect", held |-> {}, written |-> 0, msgTail |-> 0]
  /\ toScript = <<>> /\ toHost = 0 /\ closed = FALSE
  /\ script = [pc |-> "accept", init |-> <<>>, nKeys |-> 0]
  /\ \E sent \in 0 .. 1 : switch = [tabAddr |-> {<<"stale", 0>>}, tabRdma |-> None,
                                    psn |-> sent, msgAddr |-> sent]
  /\ nic = [epsn |-> 0, recvs |-> 0, unread |-> <<>>]

Goto(pc) == host' = [host EXCEPT !.pc = pc]

-----------------------------------------------------------------------------
(* The controller.                                                         *)
Connect ==
  /\ host.pc = "connect" /\ Goto("rdma")
  /\ UNCHANGED <<program, fileOpens, toScript, toHost, closed, script, switch, nic>>

(* The next object of the constructor; each call may fail, and then what   *)
(* the constructor holds is destroyed.                                     *)
Acquire ==
  /\ host.pc = "rdma"
  /\ LET r == Acquired[Cardinality(host.held) + 1]
     IN \/ host' = [host EXCEPT !.held = @ \cup {r}, !.pc = IF r = "rtr" THEN "ctor" ELSE @]
        \/ Goto("destroy")
  /\ UNCHANGED <<program, fileOpens, toScript, toHost, closed, script, switch, nic>>

(* The query controllers post all their receives before they introduce     *)
(* themselves to the script, those of Exp-dc one before each collection.   *)
PostRecvs(from, to) ==
  /\ host.pc = from
  /\ nic' = [nic EXCEPT !.recvs = Slots]
  /\ host' = [host EXCEPT !.pc = to, !.held = @ \cup {"recv"}]
  /\ UNCHANGED <<program, fileOpens, toScript, toHost, closed, script, switch>>

PostBefore == program = "query" /\ PostRecvs("ctor", "sayInit")
PostAfter == program = "exp" /\ PostRecvs("collect", "ready")

(* writeAll: each write takes as much as the socket has room for; then     *)
(* readChar waits for the script's byte.                                   *)
WriteAll(msg, from, to) ==
  /\ host.pc = from
  /\ \E n \in host.written + 1 .. Len(msg) :
       /\ toScript' = toScript \o SubSeq(msg, host.written + 1, n)
       /\ host' = IF n = Len(msg) THEN [host EXCEPT !.pc = to, !.written = 0]
                  ELSE [host EXCEPT !.written = n]
  /\ UNCHANGED <<program, fileOpens, toHost, closed, script, switch, nic>>

WriteInit == WriteAll(InitMsg, IF program = "query" THEN "sayInit" ELSE "ctor", "readInit")
WriteKeys == WriteAll(KeyMsg, "insKeys", "readKeys")

ReadChar(from, to) ==
  /\ host.pc = from /\ toHost > 0
  /\ toHost' = toHost - 1 /\ Goto(to)
  /\ UNCHANGED <<program, fileOpens, toScript, closed, script, switch, nic>>

(* insKeys returns at once if it cannot open its file.                     *)
ReadInitDone ==
  ReadChar("readInit", IF program = "exp" THEN "collect"
                       ELSE IF fileOpens THEN "insKeys" ELSE "ready")
ReadKeysDone == ReadChar("readKeys", "ready")

(* waitNewMsg.                                                             *)
WaitNewMsg ==
  /\ program = "query" /\ host.pc = "ready" /\ nic.unread # <<>>
  /\ host' = [host EXCEPT !.msgTail = Head(nic.unread) + 1]
  /\ nic' = [nic EXCEPT !.unread = Tail(@), !.recvs = @ + 1]
  /\ UNCHANGED <<program, fileOpens, toScript, toHost, closed, script, switch>>

(* The end of the input makes main delete the controller.                  *)
Quit ==
  /\ host.pc = "ready" /\ Goto("destroy")
  /\ UNCHANGED <<program, fileOpens, toScript, toHost, closed, script, switch, nic>>

(* destroy, one object at a time; the process then ends.                   *)
NextToDestroy(held) ==
  LET left == {i \in DOMAIN DestroyOrder : DestroyOrder[i] \in held}
  IN IF left = {} THEN "nothing"
     ELSE DestroyOrder[CHOOSE i \in left : \A j \in left : i <= j]

Destroy ==
  LET r == NextToDestroy(host.held)
  IN /\ host.pc = "destroy"
     /\ IF r # "nothing"
        THEN /\ host' = [host EXCEPT !.held = @ \ Destroyed(r)]
             /\ UNCHANGED closed
        ELSE Goto("gone") /\ closed' = TRUE
     /\ UNCHANGED <<program, fileOpens, toScript, toHost, script, switch, nic>>

-----------------------------------------------------------------------------
(* The script.                                                             *)
Accept ==
  /\ script.pc = "accept" /\ host.pc # "connect"
  /\ script' = [script EXCEPT !.pc = "recvInit"]
  /\ UNCHANGED <<program, fileOpens, host, toScript, toHost, closed, switch, nic>>

(* recv waits for the whole field; after a close it returns what there is, *)
(* and nothing reads as zero.                                              *)
Field == IF toScript # <<>> THEN Head(toScript) ELSE <<"nothing", 0>>

RecvInit ==
  /\ script.pc = "recvInit" /\ Len(script.init) < 3
  /\ toScript # <<>> \/ closed
  /\ script' = [script EXCEPT !.init = Append(@, Field)]
  /\ toScript' = IF toScript # <<>> THEN Tail(toScript) ELSE toScript
  /\ UNCHANGED <<program, fileOpens, host, toHost, closed, switch, nic>>

(* sendall: on a connection that the controller closed it may raise, which *)
(* ends the script.                                                        *)
SendAll(from, to) ==
  /\ \/ toHost' = toHost + 1 /\ script' = [script EXCEPT !.pc = to]
     \/ closed /\ script' = [script EXCEPT !.pc = "raised"] /\ UNCHANGED toHost
  /\ script.pc = from
  /\ UNCHANGED <<program, fileOpens, host, toScript, closed, nic>>

SendInitDone ==
  /\ Len(script.init) = 3
  /\ SendAll("recvInit", IF program = "query" THEN "recvSize" ELSE "clearPsn")
  /\ switch' = IF program = "query" /\ script'.pc # "raised"
               THEN [switch EXCEPT !.tabAddr = {}] ELSE switch

RecvSize ==
  /\ script.pc = "recvSize" /\ (toScript # <<>> \/ closed)
  /\ script' = [script EXCEPT !.nKeys = Field[2], !.pc = "recvKeys"]
  /\ toScript' = IF toScript # <<>> THEN Tail(toScript) ELSE toScript
  /\ UNCHANGED <<program, fileOpens, host, toHost, closed, switch, nic>>

RecvKeys ==
  /\ script.pc = "recvKeys" /\ Len(toScript) >= script.nKeys
  /\ switch' = [switch EXCEPT !.tabAddr = @ \cup {toScript[i] : i \in 1 .. script.nKeys}]
  /\ toScript' = SubSeq(toScript, script.nKeys + 1, Len(toScript))
  /\ script' = [script EXCEPT !.pc = "sendDone"]
  /\ UNCHANGED <<program, fileOpens, host, toHost, closed, nic>>

SendKeysDone == SendAll("sendDone", "setRdma") /\ UNCHANGED switch

(* Only after its last byte does the script set up RDMA and clear the      *)
(* registers, one call at a time; that of Exp-dc begins with reg_psn.      *)
SetRdma ==
  /\ script.pc = "setRdma"
  /\ switch' = [switch EXCEPT !.tabRdma = script.init]
  /\ script' = [script EXCEPT !.pc = "clearMsgAddr"]
  /\ UNCHANGED <<program, fileOpens, host, toScript, toHost, closed, nic>>

ClearMsgAddr ==
  /\ script.pc = "clearMsgAddr"
  /\ switch' = [switch EXCEPT !.msgAddr = 0]
  /\ script' = [script EXCEPT !.pc = IF program = "query" THEN "clearPsn" ELSE "done"]
  /\ UNCHANGED <<program, fileOpens, host, toScript, toHost, closed, nic>>

(* A variant with a fault: the sequence number of an earlier run is kept.  *)
ClearPsnNot ==
  /\ script.pc = "clearPsn"
  /\ script' = [script EXCEPT !.pc = IF program = "query" THEN "done" ELSE "setRdma"]
  /\ UNCHANGED <<program, fileOpens, host, toScript, toHost, closed, switch, nic>>

ClearPsn ==
  /\ script.pc = "clearPsn"
  /\ switch' = [switch EXCEPT !.psn = 0]
  /\ script' = [script EXCEPT !.pc = IF program = "query" THEN "done" ELSE "setRdma"]
  /\ UNCHANGED <<program, fileOpens, host, toScript, toHost, closed, nic>>

-----------------------------------------------------------------------------
(* Traffic makes the switch write a message.  The operator lets it flow    *)
(* once the script has printed "Initialization done.", and the ring has    *)
(* room.  A NIC takes only the sequence number it expects.                 *)
Message ==
  /\ script.pc = "done" /\ host.pc = "ready"
  /\ switch.psn < MaxMsgs /\ nic.recvs > 0
  /\ switch' = [switch EXCEPT !.psn = @ + 1, !.msgAddr = @ + 1]
  /\ nic' = IF switch.psn = nic.epsn /\ switch.tabRdma = InitMsg
            THEN [epsn |-> nic.epsn + 1, recvs |-> nic.recvs - 1,
                  unread |-> Append(nic.unread, switch.msgAddr)]
            ELSE nic
  /\ UNCHANGED <<program, fileOpens, host, toScript, toHost, closed, script>>

StartUpNext ==
  \/ Connect \/ Acquire \/ PostBefore \/ PostAfter \/ WriteInit \/ WriteKeys
  \/ ReadInitDone \/ ReadKeysDone \/ WaitNewMsg \/ Quit \/ Destroy
  \/ Accept \/ RecvInit \/ SendInitDone \/ RecvSize \/ RecvKeys \/ SendKeysDone
  \/ SetRdma \/ ClearMsgAddr \/ ClearPsn
  \/ Message

(* Threads that can go on do; the operator, who starts the controller and  *)
(* ends it, and the traffic owe nothing.                                   *)
StartUpFairness ==
  /\ WF_startVars(Acquire \/ PostBefore \/ PostAfter \/ WriteInit \/ WriteKeys
                    \/ ReadInitDone \/ ReadKeysDone \/ Destroy)
  /\ WF_startVars(Accept \/ RecvInit \/ SendInitDone \/ RecvSize \/ RecvKeys \/ SendKeysDone
                    \/ SetRdma \/ ClearMsgAddr \/ ClearPsn)

StartUpSpec == StartUpInit /\ [][StartUpNext]_startVars /\ StartUpFairness

-----------------------------------------------------------------------------
(* No object of the RDMA wrapper is given back while another still needs   *)
(* it, and a controller that is gone holds none, wherever it failed.       *)
ResourcesOrdered ==
  /\ \A r \in host.held : Needs(r) \subseteq host.held
  /\ host.pc = "gone" => host.held = {}

(* Once the script has said it is done and the controller waits for input, *)
(* the switch writes to this controller's memory, knows exactly the        *)
(* controller's input keys and their places, and its next message has the  *)
(* sequence number the NIC expects and the address the controller reads    *)
(* next; no receive was lost.                                              *)
StartUpAgrees ==
  script.pc = "done" /\ host.pc = "ready" =>
    /\ switch.tabRdma = InitMsg
    /\ program = "query" => switch.tabAddr = {<<InputKeys[i], i - 1>> : i \in DOMAIN InputKeys}
    /\ switch.psn = nic.epsn
    /\ switch.msgAddr = host.msgTail + Len(nic.unread)
    /\ nic.recvs + Len(nic.unread) = Slots

(* Wherever the constructor fails, whenever the controller quits and       *)
(* however the connection cuts its messages, the RDMA objects are given    *)
(* back in order, and a script and a controller that are both done agree.  *)
StartUpCorrect == ResourcesOrdered /\ StartUpAgrees

(* Neither side waits for the other for ever: once the controller is       *)
(* started, and if its input file can be opened, the script comes to its   *)
(* end.                                                                    *)
StartUpEnds == (fileOpens /\ host.pc # "connect") ~> script.pc \in {"done", "raised"}

-----------------------------------------------------------------------------
(***************************************************************************)
(* The inductive invariant.  As long as the controller has not begun to    *)
(* end (Live), the two threads are in step: what the script has read and   *)
(* what is still on its way is what the controller has written, each byte  *)
(* stands for one question that was read whole, and no message comes       *)
(* before the script is done.                                              *)
(***************************************************************************)
Objects == {"ctx", "pd", "mr", "cq", "qp", "rtr", "recv"}
Prefix(n) == {Acquired[i] : i \in 1 .. n}
Live == host.pc \notin {"destroy", "gone"}
Introduced == {"readInit", "collect", "insKeys", "readKeys", "ready"}
WritesInit == IF program = "query" THEN "sayInit" ELSE "ctor"

HostOK ==
  /\ program \in {"query", "exp"} /\ fileOpens \in BOOLEAN
  /\ host \in [pc : {"connect", "rdma", "ctor", "sayInit", "destroy", "gone"} \cup Introduced,
                held : SUBSET Objects, written : Nat, msgTail : Nat]
  /\ program = "query" => host.pc # "collect"
  /\ program = "exp" => host.pc \notin {"sayInit", "insKeys", "readKeys"}
  /\ toHost \in Nat /\ closed \in BOOLEAN /\ (Live => ~closed)

Holding ==
  /\ \A r \in host.held : Needs(r) \subseteq host.held
  /\ host.pc = "connect" => host.held = {}
  /\ host.pc = "rdma" => \E n \in 0 .. 5 : host.held = Prefix(n)
  /\ host.pc \in {"ctor", "sayInit"} \cup Introduced => "qp" \in host.held
  /\ host.pc = "gone" => host.held = {}

(* From message msg, the fields between from and to are on their way.      *)
Under(msg, from, to) ==
  /\ Len(toScript) = to - from
  /\ \A i \in 1 .. to - from : toScript[i] = msg[from + i]

Written(pc, msg) == IF host.pc = pc THEN host.written ELSE Len(msg)

(* The script waits for the three fields of the controller's memory, of    *)
(* which the controller has told some.                                     *)
Told == IF host.pc \in {"connect", "rdma"} \/ (program = "query" /\ host.pc = "ctor")
        THEN 0 ELSE Written(WritesInit, InitMsg)

Introducing ==
  script.pc \in {"accept", "recvInit"} =>
    /\ host.pc \in {"connect", "rdma", "ctor", "sayInit", "readInit"}
    /\ Len(script.init) <= Told
    /\ script.pc = "accept" => script.init = <<>>
    /\ \A i \in 1 .. Len(script.init) : script.init[i] = InitMsg[i]
    /\ Under(InitMsg, Len(script.init), Told)
    /\ toHost = 0

HasInit == script.pc \notin {"accept", "recvInit"} => script.init = InitMsg /\ host.pc \in Introduced

(* It waits for the number of keys, then for the keys.                     *)
SendingKeys ==
  /\ script.pc = "recvSize" =>
       /\ host.pc = "readInit" => toHost = 1 /\ toScript = <<>>
       /\ host.pc = "ready" => toHost = 0 /\ toScript = <<>> /\ ~fileOpens
       /\ host.pc \in {"insKeys", "readKeys"} =>
            toHost = 0 /\ Under(KeyMsg, 0, Written("insKeys", KeyMsg))
  /\ script.pc = "recvKeys" =>
       /\ host.pc \in {"insKeys", "readKeys"} /\ toHost = 0 /\ script.nKeys = Len(InputKeys)
       /\ Written("insKeys", KeyMsg) >= 1
       /\ Under(KeyMsg, 1, Written("insKeys", KeyMsg))
  /\ script.pc = "sendDone" => host.pc = "readKeys" /\ toHost = 0 /\ toScript = <<>>
  /\ script.pc \in {"recvSize", "recvKeys"} => switch.tabAddr = {}
  /\ script.pc \in {"recvSize", "recvKeys", "sendDone"} => program = "query"

Addresses == {<<InputKeys[i], i - 1>> : i \in DOMAIN InputKeys}

(* The script has said its last byte.                                      *)
Registers == {"setRdma", "clearMsgAddr", "clearPsn", "done"}
Answered ==
  /\ script.pc \in Registers =>
       /\ toScript = <<>>
       /\ IF program = "query"
          THEN <<host.pc, toHost>> \in {<<"readKeys", 1>>, <<"ready", 0>>}
          ELSE <<host.pc, toHost>> \in {<<"readInit", 1>>, <<"collect", 0>>, <<"ready", 0>>}
  /\ program = "query" /\ script.pc \in Registers \cup {"sendDone"} => switch.tabAddr = Addresses

(* The calls that the script has made by then.                             *)
RdmaSet == {"clearMsgAddr", "done"} \cup IF program = "query" THEN {"clearPsn"} ELSE {}
MsgAddrSet == {"done"} \cup IF program = "query" THEN {"clearPsn"} ELSE {}
PsnSet == {"done"} \cup IF program = "query" THEN {} ELSE {"setRdma", "clearMsgAddr"}

SwitchSet ==
  /\ script.pc \in RdmaSet => switch.tabRdma = InitMsg
  /\ script.pc \in MsgAddrSet => switch.msgAddr = host.msgTail + Len(nic.unread)
  /\ script.pc \in PsnSet => switch.psn = nic.epsn

(* Receives are posted before the first message can come.                  *)
Receiving ==
  /\ script.pc # "done" \/ host.pc # "ready" =>
       nic.epsn = 0 /\ nic.unread = <<>> /\ host.msgTail = 0
  /\ host.pc \in {"sayInit"} \cup Introduced /\ (program = "exp" => host.pc = "ready")
       => nic.recvs + Len(nic.unread) = Slots
  /\ \A i \in 1 .. Len(nic.unread) : nic.unread[i] = host.msgTail + i - 1

WireOK ==
  /\ toScript \in Seq(Fields)
  /\ script \in [pc : {"accept", "recvInit", "recvSize", "recvKeys", "sendDone"} \cup Registers,
                  init : Seq(Fields), nKeys : Nat]
  /\ switch \in [tabAddr : SUBSET Fields, tabRdma : Seq(Fields), psn : Nat, msgAddr : Nat]
  /\ nic \in [epsn : Nat, recvs : Nat, unread : Seq(Nat)]
  /\ host.pc = WritesInit => host.written < Len(InitMsg)
  /\ host.pc = "insKeys" => host.written < Len(KeyMsg)
  /\ host.pc \notin {WritesInit, "insKeys"} => host.written = 0

InStep ==
  /\ WireOK /\ Introducing /\ HasInit /\ SendingKeys /\ Answered /\ SwitchSet /\ Receiving

IInv == HostOK /\ Holding /\ (Live => InStep)
=============================================================================

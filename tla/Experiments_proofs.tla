------------------------- MODULE Experiments_proofs -------------------------
(***************************************************************************)
(* For any input keys, any number of receives and however the messages of  *)
(* the connection are cut: a controller and a script that met agree, and   *)
(* the RDMA objects are given back in an order that works.  For any keys,  *)
(* batch and number of COL packets of Exp-dc: a collection that ended      *)
(* missed nothing, and a host that paces itself has two batches on their   *)
(* way at most.                                                            *)
(***************************************************************************)
EXTENDS StartUp, CollectionInvariant, FiniteSetTheorems, SequenceTheorems, TLAPS

(* What each object needs, and what the constructor holds after each call. *)
LEMMA NeedsAre ==
  /\ Needs("ctx") = {} /\ Needs("pd") = {"ctx"} /\ Needs("mr") = {"pd"} /\ Needs("cq") = {"ctx"}
  /\ Needs("qp") = {"pd", "cq"} /\ Needs("rtr") = {"qp"} /\ Needs("recv") = {"qp"}
  BY DEF Needs

LEMMA PrefixesAre ==
  /\ Prefix(0) = {} /\ Prefix(1) = {"ctx"} /\ Prefix(2) = {"ctx", "pd"}
  /\ Prefix(3) = {"ctx", "pd", "mr"} /\ Prefix(4) = {"ctx", "pd", "mr", "cq"}
  /\ Prefix(5) = {"ctx", "pd", "mr", "cq", "qp"}
  /\ Prefix(6) = {"ctx", "pd", "mr", "cq", "qp", "rtr"}
  BY DEF Prefix, Acquired

(* The constructor's n-th call adds the n-th object.                       *)
LEMMA PrefixIs ==
  ASSUME NEW n \in 0 .. 5
  PROVE  /\ Cardinality(Prefix(n)) = n
         /\ Prefix(n + 1) = Prefix(n) \cup {Acquired[n + 1]}
<1>1. IsFiniteSet(Prefix(0)) /\ Cardinality(Prefix(0)) = 0
  BY PrefixesAre, FS_EmptySet
<1>2. IsFiniteSet(Prefix(1)) /\ Cardinality(Prefix(1)) = 1
  BY PrefixesAre, <1>1, FS_AddElement
<1>3. IsFiniteSet(Prefix(2)) /\ Cardinality(Prefix(2)) = 2
  <2>1. Prefix(2) = Prefix(1) \cup {"pd"} /\ "pd" \notin Prefix(1)
    BY PrefixesAre
  <2> QED BY <1>2, <2>1, FS_AddElement
<1>4. IsFiniteSet(Prefix(3)) /\ Cardinality(Prefix(3)) = 3
  <2>1. Prefix(3) = Prefix(2) \cup {"mr"} /\ "mr" \notin Prefix(2)
    BY PrefixesAre
  <2> QED BY <1>3, <2>1, FS_AddElement
<1>5. IsFiniteSet(Prefix(4)) /\ Cardinality(Prefix(4)) = 4
  <2>1. Prefix(4) = Prefix(3) \cup {"cq"} /\ "cq" \notin Prefix(3)
    BY PrefixesAre
  <2> QED BY <1>4, <2>1, FS_AddElement
<1>6. IsFiniteSet(Prefix(5)) /\ Cardinality(Prefix(5)) = 5
  <2>1. Prefix(5) = Prefix(4) \cup {"qp"} /\ "qp" \notin Prefix(4)
    BY PrefixesAre
  <2> QED BY <1>5, <2>1, FS_AddElement
<1>7. Cardinality(Prefix(n)) = n
  BY <1>1, <1>2, <1>3, <1>4, <1>5, <1>6
<1>8. Prefix(n + 1) = Prefix(n) \cup {Acquired[n + 1]}
  BY PrefixesAre DEF Acquired
<1> QED BY <1>7, <1>8

(* The two messages of the controller.                                     *)
LEMMA InitMsgIs == InitMsg \in Seq(Fields) /\ Len(InitMsg) = 3
  BY DEF InitMsg, Fields

LEMMA KeyMsgIs ==
  /\ KeyMsg \in Seq(Fields) /\ Len(KeyMsg) = Len(InputKeys) + 1 /\ Len(InputKeys) \in Nat
  /\ KeyMsg[1] = <<"size", Len(InputKeys)>>
  /\ \A i \in 1 .. Len(InputKeys) : KeyMsg[i + 1] = <<InputKeys[i], i - 1>>
<1> DEFINE pairs == [i \in DOMAIN InputKeys |-> <<InputKeys[i], i - 1>>]
<1>1. InputKeys \in Seq(Range(InputKeys))
  BY StartUpAssumption
<1>2. Len(InputKeys) \in Nat /\ DOMAIN InputKeys = 1 .. Len(InputKeys)
  BY <1>1
<1>3. \A i \in 1 .. Len(InputKeys) : pairs[i] \in Fields
  BY <1>1, <1>2 DEF Fields, Range
<1>4. pairs \in Seq(Fields) /\ Len(pairs) = Len(InputKeys)
  BY <1>2, <1>3
<1>5. <<<<"size", Len(InputKeys)>>>> \in Seq(Fields)
  BY <1>2 DEF Fields
<1> HIDE DEF pairs
<1>6. KeyMsg = <<<<"size", Len(InputKeys)>>>> \o pairs
  BY DEF KeyMsg, pairs
<1>7. KeyMsg \in Seq(Fields) /\ Len(KeyMsg) = 1 + Len(pairs)
  BY <1>4, <1>5, <1>6
<1>8. KeyMsg[1] = <<"size", Len(InputKeys)>>
  BY <1>4, <1>5, <1>6, SMT
<1>9. \A i \in 1 .. Len(InputKeys) : KeyMsg[i + 1] = pairs[i]
  BY <1>4, <1>5, <1>6, SMT
<1> QED BY <1>2, <1>4, <1>7, <1>8, <1>9 DEF pairs

(* Initially nothing is held, written or posted.                           *)
LEMMA InitEstablishes == ASSUME StartUpInit PROVE IInv
<1>1. HostOK
  BY DEF StartUpInit, HostOK, Objects, Introduced, Live
<1>2. Holding
  BY DEF StartUpInit, Holding, Introduced
<1>3. WireOK
  <2>1. /\ script \in [pc : {"accept"}, init : Seq(Fields), nKeys : Nat]
        /\ nic \in [epsn : Nat, recvs : Nat, unread : Seq(Nat)]
        /\ toScript \in Seq(Fields)
    BY DEF StartUpInit
  <2>2. <<"stale", 0>> \in Fields /\ None \in Seq(Fields)
    BY DEF Fields, None
  <2>3. switch \in [tabAddr : SUBSET Fields, tabRdma : Seq(Fields), psn : Nat, msgAddr : Nat]
    BY <2>2 DEF StartUpInit
  <2>4. /\ host.pc = WritesInit => host.written < Len(InitMsg)
        /\ host.pc = "insKeys" => host.written < Len(KeyMsg)
        /\ host.pc \notin {WritesInit, "insKeys"} => host.written = 0
    BY InitMsgIs DEF StartUpInit, WritesInit
  <2> QED BY <2>1, <2>3, <2>4 DEF WireOK
<1>4. Introducing
  BY InitMsgIs DEF StartUpInit, Introducing, Told, Under
<1>5. HasInit /\ SendingKeys /\ Answered /\ SwitchSet
  BY DEF StartUpInit, HasInit, SendingKeys, Answered, SwitchSet, Registers,
         RdmaSet, MsgAddrSet, PsnSet
<1>6. Receiving
  BY DEF StartUpInit, Receiving, Introduced
<1> QED BY <1>1, <1>2, <1>3, <1>4, <1>5, <1>6 DEF IInv, InStep

(* The controller connects, and takes the objects of RDMA one by one.      *)
LEMMA ConnectPreserves == ASSUME IInv, Connect PROVE IInv'
<1> USE DEF IInv, Connect, Goto
<1>1. HostOK'
  BY DEF HostOK, Introduced, Live
<1>2. Holding'
  <2>1. Prefix(0) = {} /\ 0 \in 0 .. 5
    BY DEF Prefix
  <2> QED BY <2>1 DEF Holding, HostOK, Introduced
<1>3. InStep'
  <2>1. Live /\ InStep /\ script.pc \in {"accept", "recvInit"}
    BY DEF HostOK, Live, InStep, HasInit, Introduced
  <2>2. WireOK'
    BY <2>1 DEF HostOK, InStep, WireOK, WritesInit
  <2>3. Introducing'
    BY <2>1 DEF HostOK, InStep, Introducing, Told, Under
  <2>4. (HasInit /\ SendingKeys /\ Answered /\ SwitchSet)'
    BY <2>1 DEF HasInit, SendingKeys, Answered, SwitchSet, Registers, RdmaSet, MsgAddrSet, PsnSet
  <2>5. Receiving'
    BY <2>1 DEF HostOK, InStep, Receiving, Introduced
  <2> QED BY <2>2, <2>3, <2>4, <2>5 DEF InStep
<1> QED BY <1>1, <1>2, <1>3

LEMMA AcquirePreserves == ASSUME IInv, Acquire PROVE IInv'
<1> USE DEF IInv
<1> DEFINE r == Acquired[Cardinality(host.held) + 1]
<1>1. /\ host.pc = "rdma"
      /\ UNCHANGED <<program, fileOpens, toScript, toHost, closed, script, switch, nic>>
      /\ \/ host' = [host EXCEPT !.held = @ \cup {r}, !.pc = IF r = "rtr" THEN "ctor" ELSE @]
         \/ host' = [host EXCEPT !.pc = "destroy"]
  BY DEF Acquire, Goto
<1>2. PICK n \in 0 .. 5 : host.held = Prefix(n)
  BY <1>1 DEF Holding
<1>3. r = Acquired[n + 1] /\ Prefix(n + 1) = host.held \cup {r}
  BY <1>2, PrefixIs
<1>4. r \in Objects /\ (r = "rtr" <=> n = 5)
  BY <1>3 DEF Acquired, Objects
<1>5. Needs(r) \subseteq host.held
  <2>1. n = 0 \/ n = 1 \/ n = 2 \/ n = 3 \/ n = 4 \/ n = 5
    OBVIOUS
  <2>2. /\ n = 0 => r = "ctx"
        /\ n = 1 => r = "pd"
        /\ n = 2 => r = "mr"
        /\ n = 3 => r = "cq"
        /\ n = 4 => r = "qp"
        /\ n = 5 => r = "rtr"
    BY <1>3 DEF Acquired
  <2> HIDE DEF r
  <2> QED BY <1>2, <2>1, <2>2, NeedsAre, PrefixesAre
<1>6. n = 5 => "qp" \in host.held
  BY <1>2 DEF Acquired, Prefix
<1> HIDE DEF r
<1>7. HostOK'
  <2>1. CASE host' = [host EXCEPT !.pc = "destroy"]
    BY <1>1, <2>1 DEF HostOK, Introduced, Live
  <2>2. CASE host' = [host EXCEPT !.held = @ \cup {r}, !.pc = IF r = "rtr" THEN "ctor" ELSE @]
    <3>1. host' = [host EXCEPT !.held = @ \cup {r}, !.pc = IF r = "rtr" THEN "ctor" ELSE "rdma"]
      BY <1>1, <2>2 DEF HostOK
    <3>2. host.held \cup {r} \in SUBSET Objects
      BY <1>4 DEF HostOK
    <3> QED BY <1>1, <3>1, <3>2 DEF HostOK, Introduced, Live
  <2> QED BY <1>1, <2>1, <2>2
<1>8. Holding'
  <2>1. CASE host'.pc = "destroy"
    BY <1>1, <2>1 DEF Holding, HostOK, Introduced
  <2>2. CASE host'.pc # "destroy"
    <3>1. host'.held = host.held \cup {r} /\ host'.pc = IF r = "rtr" THEN "ctor" ELSE "rdma"
      BY <1>1, <2>2 DEF HostOK
    <3>2. \A x \in host'.held : Needs(x) \subseteq host'.held
      BY <1>5, <3>1 DEF Holding
    <3>3. r # "rtr" => n + 1 \in 0 .. 5 /\ host'.held = Prefix(n + 1)
      BY <1>3, <1>4, <3>1
    <3> QED BY <1>4, <1>6, <3>1, <3>2, <3>3 DEF Holding, Introduced
  <2> QED BY <2>1, <2>2
<1>9. ASSUME Live' PROVE InStep'
  <2>1. /\ host' = [host EXCEPT !.held = @ \cup {r}, !.pc = IF r = "rtr" THEN "ctor" ELSE @]
        /\ Live /\ InStep /\ script.pc \in {"accept", "recvInit"}
    BY <1>1, <1>9 DEF HostOK, Live, InStep, HasInit, Introduced
  <2>2. WireOK'
    BY <1>1, <2>1, InitMsgIs DEF HostOK, InStep, WireOK, WritesInit
  <2>3. Introducing'
    BY <1>1, <2>1 DEF HostOK, InStep, WireOK, Introducing, Told, Under, Written, WritesInit
  <2>4. (HasInit /\ SendingKeys /\ Answered /\ SwitchSet)'
    BY <1>1, <2>1 DEF HasInit, SendingKeys, Answered, SwitchSet, Registers, RdmaSet, MsgAddrSet, PsnSet
  <2>5. Receiving'
    BY <1>1, <2>1 DEF HostOK, InStep, Receiving, Introduced
  <2> QED BY <2>2, <2>3, <2>4, <2>5 DEF InStep
<1> QED BY <1>7, <1>8, <1>9

(* The controller posts its receives.                                      *)
LEMMA PostRecvsPreserves ==
  ASSUME IInv, PostBefore \/ PostAfter PROVE IInv'
<1> USE DEF IInv
<1>1. /\ nic' = [nic EXCEPT !.recvs = Slots]
      /\ UNCHANGED <<program, fileOpens, toScript, toHost, closed, script, switch>>
      /\ \/ /\ program = "query" /\ host.pc = "ctor"
            /\ host' = [host EXCEPT !.pc = "sayInit", !.held = @ \cup {"recv"}]
         \/ /\ program = "exp" /\ host.pc = "collect"
            /\ host' = [host EXCEPT !.pc = "ready", !.held = @ \cup {"recv"}]
  BY DEF PostBefore, PostAfter, PostRecvs
<1>2. HostOK'
  BY <1>1 DEF HostOK, Introduced, Live, Objects
<1>3. Holding'
  <2>1. /\ host'.held = host.held \cup {"recv"} /\ host'.pc \in {"sayInit", "ready"}
        /\ "qp" \in host.held
    BY <1>1 DEF Holding, HostOK, Introduced
  <2>2. \A x \in host'.held : Needs(x) \subseteq host'.held
    BY <2>1, NeedsAre DEF Holding
  <2> QED BY <2>1, <2>2 DEF Holding, Introduced
<1>4. Live /\ InStep
  BY <1>1 DEF Live
<1>5. WireOK'
  <2>1. Slots \in Nat /\ nic'.recvs = Slots /\ nic'.epsn = nic.epsn /\ nic'.unread = nic.unread
    BY <1>1, StartUpAssumption
  <2>2. host.written = 0
    BY <1>1, <1>4 DEF InStep, WireOK, WritesInit
  <2>3. nic' \in [epsn : Nat, recvs : Nat, unread : Seq(Nat)]
    BY <1>1, <1>4, <2>1 DEF InStep, WireOK
  <2>4. host'.written = 0 /\ host'.pc # "insKeys"
    BY <1>1, <2>2 DEF HostOK
  <2> QED BY <1>1, <1>4, <2>3, <2>4, InitMsgIs DEF InStep, WireOK
<1>6. Introducing'
  <2>1. CASE program = "query"
    <3>1. host.pc = "ctor" /\ host'.pc = "sayInit" /\ host'.written = 0 /\ program' = "query"
      BY <1>1, <1>4, <2>1 DEF HostOK, InStep, WireOK, WritesInit
    <3> QED BY <1>1, <1>4, <2>1, <3>1 DEF InStep, Introducing, Told, Under, Written, WritesInit
  <2>2. CASE program # "query"
    BY <1>1, <1>4, <2>2 DEF InStep, Introducing, Told
  <2> QED BY <2>1, <2>2
<1>7. (HasInit /\ SendingKeys /\ Answered)'
  BY <1>1, <1>4 DEF HostOK, InStep, HasInit, SendingKeys, Answered, Registers, Introduced,
                    Under, Written
<1>8. (SwitchSet /\ Receiving)'
  <2>1. /\ nic'.recvs = Slots /\ nic'.epsn = nic.epsn /\ nic'.unread = nic.unread
        /\ host'.msgTail = host.msgTail /\ Slots \in Nat
    BY <1>1, <1>4, StartUpAssumption DEF HostOK, InStep, WireOK
  <2>2. SwitchSet'
    BY <1>1, <1>4, <2>1 DEF InStep, SwitchSet, RdmaSet, MsgAddrSet, PsnSet
  <2>3. nic.epsn = 0 /\ nic.unread = <<>> /\ host.msgTail = 0
    BY <1>1, <1>4 DEF InStep, Receiving
  <2> QED BY <1>1, <2>1, <2>2, <2>3 DEF Receiving
<1> QED BY <1>2, <1>3, <1>5, <1>6, <1>7, <1>8 DEF InStep

(* What writeAll sends follows what it has sent of the same message.       *)
LEMMA UnderGrows ==
  ASSUME NEW msg \in Seq(Fields), NEW from \in Nat, NEW w \in Nat, NEW n \in w + 1 .. Len(msg),
         from <= w, Under(msg, from, w), toScript \in Seq(Fields),
         toScript' = toScript \o SubSeq(msg, w + 1, n)
  PROVE  toScript' \in Seq(Fields) /\ Under(msg, from, n)'
<1> DEFINE more == SubSeq(msg, w + 1, n)
<1>0. Len(msg) \in Nat /\ n \in Nat /\ n - w \in Nat /\ w - from \in Nat /\ n - from \in Nat
  OBVIOUS
<1>1. more \in Seq(Fields) /\ Len(more) = n - w /\ \A i \in 1 .. n - w : more[i] = msg[w + i]
  BY SMT
<1>2. Len(toScript) = w - from
  BY DEF Under
<1>3. toScript' = toScript \o more
  OBVIOUS
<1> HIDE DEF more
<1>4. /\ toScript' \in Seq(Fields)
      /\ Len(toScript') = Len(toScript) + Len(more)
      /\ \A i \in 1 .. Len(toScript) + Len(more) : toScript'[i] =
           IF i <= Len(toScript) THEN toScript[i] ELSE more[i - Len(toScript)]
  <2>1. /\ toScript \o more \in Seq(Fields)
        /\ Len(toScript \o more) = Len(toScript) + Len(more)
        /\ \A i \in 1 .. Len(toScript) + Len(more) : (toScript \o more)[i] =
             IF i <= Len(toScript) THEN toScript[i] ELSE more[i - Len(toScript)]
    BY <1>1, ConcatProperties
  <2> QED BY ONLY <1>3, <2>1, Zenon
<1> DEFINE a == Len(toScript)
           b == Len(more)
           s == toScript
           t == toScript'
<1>5. a = w - from /\ b = n - w /\ a \in Nat /\ b \in Nat /\ a + b = n - from
  BY <1>0, <1>1, <1>2
<1>6. /\ \A i \in 1 .. a : s[i] = msg[from + i]
      /\ \A i \in 1 .. b : more[i] = msg[w + i]
      /\ \A i \in 1 .. a + b : t[i] = IF i <= a THEN s[i] ELSE more[i - a]
  BY <1>1, <1>2, <1>4 DEF Under
<1> HIDE DEF a, b, s, t
<1>7. ASSUME NEW i \in 1 .. n - from PROVE t[i] = msg[from + i]
  <2>1. CASE i <= a
    <3>1. i \in 1 .. a /\ i \in 1 .. a + b
      BY <1>0, <1>5, <2>1
    <3> QED BY <1>6, <2>1, <3>1
  <2>2. CASE ~(i <= a)
    <3>1. i - a \in 1 .. b /\ w + (i - a) = from + i /\ i \in 1 .. a + b
      BY <1>0, <1>5, <2>2
    <3> QED BY <1>6, <2>2, <3>1
  <2> QED BY <2>1, <2>2
<1>8. Len(toScript') = n - from
  BY <1>4, <1>5 DEF a, b
<1> QED BY <1>4, <1>7, <1>8 DEF Under, t

(* The controller introduces itself.                                       *)
LEMMA WriteInitPreserves == ASSUME IInv, WriteInit PROVE IInv'
<1> USE DEF IInv
<1>1. /\ host.pc = WritesInit
      /\ UNCHANGED <<program, fileOpens, toHost, closed, script, switch, nic>>
  BY DEF WriteInit, WriteAll, WritesInit
<1>2. PICK n \in host.written + 1 .. Len(InitMsg) :
        /\ toScript' = toScript \o SubSeq(InitMsg, host.written + 1, n)
        /\ host' = IF n = Len(InitMsg) THEN [host EXCEPT !.pc = "readInit", !.written = 0]
                   ELSE [host EXCEPT !.written = n]
  BY DEF WriteInit, WriteAll
<1>3. Live /\ InStep /\ host.written \in Nat /\ host.pc \in {"ctor", "sayInit"} /\ n \in 1 .. 3
  BY <1>1, <1>2, InitMsgIs, SMTT(20) DEF HostOK, Live, WritesInit
<1>4. /\ host'.held = host.held /\ host'.msgTail = host.msgTail
      /\ n = 3 => host'.pc = "readInit" /\ host'.written = 0
      /\ n # 3 => host'.pc = host.pc /\ host'.written = n
  BY <1>2, InitMsgIs DEF HostOK
<1>5. HostOK'
  <2>1. CASE n = 3
    <3>1. host' = [host EXCEPT !.pc = "readInit", !.written = 0]
      BY <1>2, <2>1, InitMsgIs
    <3> QED BY <1>1, <1>3, <3>1 DEF HostOK, Introduced, Live
  <2>2. CASE n # 3
    <3>1. host' = [host EXCEPT !.written = n] /\ n \in Nat
      BY <1>2, <1>3, <2>2, InitMsgIs
    <3> QED BY <1>1, <1>3, <3>1 DEF HostOK, Introduced, Live
  <2> QED BY <2>1, <2>2
<1>6. Holding'
  BY <1>3, <1>4 DEF Holding, Introduced
<1>7. /\ script.pc \in {"accept", "recvInit"} /\ script.init \in Seq(Fields) /\ toScript \in Seq(Fields)
      /\ Len(script.init) \in Nat /\ Len(script.init) <= host.written
      /\ Under(InitMsg, Len(script.init), host.written)
  <2>1. script.pc \in {"accept", "recvInit"} /\ script.init \in Seq(Fields) /\ toScript \in Seq(Fields)
    BY <1>3 DEF InStep, WireOK, HasInit, Introduced, Registers
  <2>2. Len(script.init) <= host.written /\ Under(InitMsg, Len(script.init), host.written)
    BY <1>1, <1>3, <2>1 DEF InStep, Introducing, Told, Written, WritesInit
  <2> QED BY <2>1, <2>2
<1>8. toScript' \in Seq(Fields) /\ Under(InitMsg, Len(script.init), n)'
  <2>1. PICK m \in Nat : m = Len(script.init) /\ m = Len(script'.init)
    BY <1>1, <1>7
  <2>2. Under(InitMsg, m, host.written) /\ m <= host.written
    BY <1>7, <2>1
  <2>3. toScript' \in Seq(Fields) /\ Under(InitMsg, m, n)'
    BY <1>2, <1>3, <1>7, <2>2, InitMsgIs, UnderGrows
  <2> QED BY <2>1, <2>3
<1>9. WireOK'
  BY <1>1, <1>3, <1>4, <1>8, InitMsgIs, SMTT(20) DEF InStep, WireOK, WritesInit
<1>10. Introducing'
  BY <1>1, <1>3, <1>4, <1>7, <1>8, InitMsgIs, SMTT(20) DEF InStep, Introducing, Told, Under, Written, WritesInit
<1>11. (HasInit /\ SendingKeys /\ Answered /\ SwitchSet)'
  BY <1>1, <1>7 DEF HasInit, SendingKeys, Answered, SwitchSet, Registers, RdmaSet, MsgAddrSet, PsnSet
<1>12. Receiving'
  <2>1. host'.pc \in {"ctor", "sayInit", "readInit"} /\ (host'.pc = "sayInit" => host.pc = "sayInit")
    BY <1>3, <1>4
  <2>2. program = "query" => host.pc = "sayInit"
    BY <1>1 DEF WritesInit
  <2> QED BY <1>1, <1>3, <1>4, <1>7, <2>1, <2>2 DEF HostOK, InStep, Receiving, Introduced
<1> QED BY <1>5, <1>6, <1>9, <1>10, <1>11, <1>12 DEF InStep

(* insKeys writes the keys.                                                *)
LEMMA WriteKeysPreserves == ASSUME IInv, WriteKeys PROVE IInv'
<1> USE DEF IInv
<1>1. /\ host.pc = "insKeys"
      /\ UNCHANGED <<program, fileOpens, toHost, closed, script, switch, nic>>
  BY DEF WriteKeys, WriteAll
<1>2. PICK n \in host.written + 1 .. Len(KeyMsg) :
        /\ toScript' = toScript \o SubSeq(KeyMsg, host.written + 1, n)
        /\ host' = IF n = Len(KeyMsg) THEN [host EXCEPT !.pc = "readKeys", !.written = 0]
                   ELSE [host EXCEPT !.written = n]
  BY DEF WriteKeys, WriteAll
<1>3. /\ Live /\ InStep /\ host.written \in Nat /\ n \in Nat /\ n >= 1 /\ program = "query"
      /\ KeyMsg \in Seq(Fields) /\ Len(KeyMsg) \in Nat
  BY <1>1, <1>2, KeyMsgIs DEF HostOK, Live
<1>4. /\ host'.held = host.held /\ host'.msgTail = host.msgTail
      /\ n = Len(KeyMsg) => host'.pc = "readKeys" /\ host'.written = 0
      /\ n # Len(KeyMsg) => host'.pc = "insKeys" /\ host'.written = n /\ n < Len(KeyMsg)
  BY <1>1, <1>2, <1>3 DEF HostOK
<1>5. HostOK'
  <2>1. CASE n = Len(KeyMsg)
    BY <1>1, <1>2, <1>3, <2>1 DEF HostOK, Introduced, Live
  <2>2. CASE n # Len(KeyMsg)
    BY <1>1, <1>2, <1>3, <2>2 DEF HostOK, Introduced, Live
  <2> QED BY <2>1, <2>2
<1>6. Holding'
  BY <1>1, <1>3, <1>4 DEF Holding, Introduced
<1>7. script.pc \in {"recvSize", "recvKeys"} /\ toHost = 0 /\ toScript \in Seq(Fields)
  BY <1>1, <1>3 DEF InStep, WireOK, Introducing, Told, SendingKeys, Answered, Registers
<1>8. toScript' \in Seq(Fields)
  <2>1. SubSeq(KeyMsg, host.written + 1, n) \in Seq(Fields)
    BY <1>2, <1>3
  <2> QED BY <1>2, <1>7, <2>1
<1>9. WireOK'
  BY <1>1, <1>3, <1>4, <1>8 DEF InStep, WireOK, WritesInit
<1>10. Written("insKeys", KeyMsg)' = n
  BY <1>4 DEF Written
<1>11. SendingKeys'
  <2>1. CASE script.pc = "recvSize"
    <3>1. Under(KeyMsg, 0, host.written)
      BY <1>1, <1>3, <2>1 DEF InStep, SendingKeys, Written
    <3>2. Under(KeyMsg, 0, n)'
      <4>1. 0 \in Nat /\ 0 <= host.written
        BY <1>3
      <4> QED BY <1>2, <1>3, <1>7, <3>1, <4>1, UnderGrows
    <3> QED BY <1>1, <1>3, <1>4, <1>7, <1>10, <2>1, <3>2 DEF InStep, SendingKeys, Under
  <2>2. CASE script.pc = "recvKeys"
    <3>1. Under(KeyMsg, 1, host.written) /\ host.written >= 1
      BY <1>1, <1>3, <2>2 DEF InStep, SendingKeys, Written
    <3>2. Under(KeyMsg, 1, n)'
      BY <1>2, <1>3, <1>7, <3>1, UnderGrows
    <3> QED BY <1>1, <1>3, <1>4, <1>7, <1>10, <2>2, <3>2 DEF InStep, SendingKeys, Under
  <2> QED BY <1>7, <2>1, <2>2
<1>12. (Introducing /\ HasInit /\ Answered /\ SwitchSet)'
  BY <1>1, <1>3, <1>4, <1>7 DEF InStep, Introducing, Told, HasInit, Introduced, Answered, SwitchSet,
                                Registers, RdmaSet, MsgAddrSet, PsnSet
<1>13. Receiving'
  BY <1>1, <1>3, <1>4, <1>7 DEF InStep, Receiving, Introduced
<1> QED BY <1>5, <1>6, <1>9, <1>11, <1>12, <1>13 DEF InStep

(* The script's byte was its answer to what the controller had written.    *)
LEMMA ReadInitDonePreserves == ASSUME IInv, ReadInitDone PROVE IInv'
<1> USE DEF IInv
<1> DEFINE to == IF program = "exp" THEN "collect" ELSE IF fileOpens THEN "insKeys" ELSE "ready"
<1>1. /\ host.pc = "readInit" /\ toHost > 0 /\ toHost' = toHost - 1
      /\ host' = [host EXCEPT !.pc = to]
      /\ UNCHANGED <<program, fileOpens, toScript, closed, script, switch, nic>>
  BY DEF ReadInitDone, ReadChar, Goto
<1>2. Live /\ InStep /\ to \in {"collect", "insKeys", "ready"}
  BY <1>1 DEF Live
<1>3. HostOK'
  BY <1>1 DEF HostOK, Introduced, Live
<1>4. Holding' /\ host'.pc = to /\ host'.written = host.written /\ host'.msgTail = host.msgTail
  BY <1>1, <1>2 DEF HostOK, Holding, Introduced
<1>5. host.written = 0 /\ host.pc # WritesInit
  BY <1>1, <1>2 DEF InStep, WireOK, WritesInit
<1>6. script.pc \notin {"accept", "recvInit", "recvKeys", "sendDone"} /\ toHost = 1 /\ toScript = <<>>
  <2>1. script.pc \notin {"accept", "recvInit"}
    BY <1>1, <1>2 DEF InStep, Introducing, Told
  <2>2. script.pc \notin {"recvKeys", "sendDone"}
    BY <1>1, <1>2 DEF InStep, SendingKeys
  <2>3. script.pc \in {"recvSize"} \cup Registers
    BY <1>2, <2>1, <2>2 DEF InStep, WireOK
  <2>4. toHost = 1 /\ toScript = <<>>
    <3>1. CASE script.pc = "recvSize"
      BY <1>1, <1>2, <3>1 DEF InStep, SendingKeys
    <3>2. CASE script.pc \in Registers
      BY <1>1, <1>2, <3>2 DEF InStep, Answered
    <3> QED BY <2>3, <3>1, <3>2
  <2> QED BY <2>1, <2>2, <2>4
<1>7. WireOK'
  <2>1. to = "insKeys" => 0 < Len(KeyMsg)
    BY KeyMsgIs
  <2>2. host'.pc # WritesInit'
    BY <1>1, <1>4 DEF WritesInit, HostOK
  <2> QED BY <1>1, <1>2, <1>4, <1>5, <2>1, <2>2 DEF InStep, WireOK
<1>8. (Introducing /\ HasInit)'
  BY <1>1, <1>2, <1>4, <1>6 DEF InStep, Introducing, Told, HasInit, Introduced
<1>9. SendingKeys'
  <2>1. script.pc = "recvSize" => program = "query"
    BY <1>2 DEF InStep, SendingKeys
  <2>2. Under(KeyMsg, 0, 0)'
    BY <1>1, <1>6 DEF Under
  <2>3. host'.pc = "insKeys" => Written("insKeys", KeyMsg)' = 0
    BY <1>4, <1>5 DEF Written
  <2> QED BY <1>1, <1>2, <1>4, <1>6, <2>1, <2>2, <2>3 DEF InStep, SendingKeys, Under
<1>10. Answered'
  BY <1>1, <1>2, <1>4, <1>6 DEF HostOK, InStep, Answered, Registers
<1>11. (SwitchSet /\ Receiving)'
  BY <1>1, <1>2, <1>4 DEF HostOK, InStep, SwitchSet, Receiving, Introduced, RdmaSet, MsgAddrSet, PsnSet
<1> QED BY <1>3, <1>4, <1>7, <1>8, <1>9, <1>10, <1>11 DEF InStep

LEMMA ReadKeysDonePreserves == ASSUME IInv, ReadKeysDone PROVE IInv'
<1> USE DEF IInv
<1>1. /\ host.pc = "readKeys" /\ toHost > 0 /\ toHost' = toHost - 1
      /\ host' = [host EXCEPT !.pc = "ready"]
      /\ UNCHANGED <<program, fileOpens, toScript, closed, script, switch, nic>>
  BY DEF ReadKeysDone, ReadChar, Goto
<1>2. Live /\ InStep /\ program = "query"
  BY <1>1 DEF HostOK, Live
<1>3. HostOK'
  BY <1>1 DEF HostOK, Introduced, Live
<1>4. /\ Holding' /\ host'.pc = "ready" /\ host'.written = host.written
      /\ host'.msgTail = host.msgTail
  BY <1>1, <1>2 DEF HostOK, Holding, Introduced
<1>5. script.pc \in Registers /\ toHost = 1
  <2>1. script.pc \notin {"accept", "recvInit"}
    BY <1>1, <1>2 DEF InStep, Introducing, Told
  <2>2. script.pc \notin {"recvSize", "recvKeys", "sendDone"}
    BY <1>1, <1>2 DEF InStep, SendingKeys
  <2>3. script.pc \in Registers
    BY <1>2, <2>1, <2>2 DEF InStep, WireOK
  <2> QED BY <1>1, <1>2, <2>3 DEF InStep, Answered
<1>6. WireOK'
  BY <1>1, <1>2, <1>4 DEF InStep, WireOK, WritesInit
<1>7. (Introducing /\ HasInit /\ SendingKeys)'
  BY <1>1, <1>2, <1>4, <1>5 DEF InStep, Introducing, Told, HasInit, Introduced, SendingKeys, Registers
<1>8. Answered'
  BY <1>1, <1>2, <1>4, <1>5 DEF InStep, Answered, Registers
<1>9. (SwitchSet /\ Receiving)'
  BY <1>1, <1>2, <1>4 DEF InStep, SwitchSet, Receiving, Introduced, RdmaSet, MsgAddrSet, PsnSet
<1> QED BY <1>3, <1>4, <1>6, <1>7, <1>8, <1>9 DEF InStep

(* A message was written behind those that the controller has read.        *)
LEMMA WaitNewMsgPreserves == ASSUME IInv, WaitNewMsg PROVE IInv'
<1> USE DEF IInv
<1>1. /\ program = "query" /\ host.pc = "ready" /\ nic.unread # <<>>
      /\ host' = [host EXCEPT !.msgTail = Head(nic.unread) + 1]
      /\ nic' = [nic EXCEPT !.unread = Tail(@), !.recvs = @ + 1]
      /\ UNCHANGED <<program, fileOpens, toScript, toHost, closed, script, switch>>
  BY DEF WaitNewMsg
<1>2. Live /\ InStep
  BY <1>1 DEF Live
<1>3. nic.unread \in Seq(Nat) /\ nic.recvs \in Nat /\ host.msgTail \in Nat
  BY <1>2 DEF HostOK, InStep, WireOK
<1>4. /\ Tail(nic.unread) \in Seq(Nat) /\ Len(nic.unread) \in Nat \ {0}
      /\ Len(Tail(nic.unread)) = Len(nic.unread) - 1
      /\ \A i \in 1 .. Len(Tail(nic.unread)) : Tail(nic.unread)[i] = nic.unread[i + 1]
      /\ Head(nic.unread) = nic.unread[1]
  BY <1>1, <1>3
<1>5. \A i \in 1 .. Len(nic.unread) : nic.unread[i] = host.msgTail + i - 1
  BY <1>2 DEF InStep, Receiving
<1>6. Head(nic.unread) = host.msgTail
  BY <1>3, <1>4, <1>5
<1>7. /\ host' = [host EXCEPT !.msgTail = host.msgTail + 1]
      /\ nic'.unread = Tail(nic.unread) /\ nic'.recvs = nic.recvs + 1 /\ nic'.epsn = nic.epsn
      /\ nic' \in [epsn : Nat, recvs : Nat, unread : Seq(Nat)]
  <2>1. nic \in [epsn : Nat, recvs : Nat, unread : Seq(Nat)]
    BY <1>2 DEF InStep, WireOK
  <2>2. nic' = [nic EXCEPT !.unread = Tail(nic.unread), !.recvs = nic.recvs + 1]
    BY <1>1
  <2>3. Tail(nic.unread) \in Seq(Nat) /\ nic.recvs + 1 \in Nat
    BY <1>3, <1>4
  <2>4. host' = [host EXCEPT !.msgTail = host.msgTail + 1]
    BY <1>1, <1>6
  <2> QED BY <2>1, <2>2, <2>3, <2>4
<1>8. /\ host'.pc = host.pc /\ host'.held = host.held /\ host'.written = host.written
      /\ host'.msgTail = host.msgTail + 1
  BY <1>7 DEF HostOK
<1>9. HostOK'
  <2>1. host' = [host EXCEPT !.msgTail = host.msgTail + 1] /\ host.msgTail + 1 \in Nat
    BY <1>3, <1>7
  <2>2. UNCHANGED <<program, fileOpens, toHost, closed>>
    BY <1>1
  <2> QED BY <1>8, <2>1, <2>2 DEF HostOK, Live
<1>10. Holding'
  BY <1>8 DEF Holding
<1>11. script.pc = "done"
  BY <1>1, <1>2 DEF InStep, Receiving
<1>12. WireOK'
  BY <1>1, <1>2, <1>7, <1>8 DEF InStep, WireOK, WritesInit
<1>13. (Introducing /\ HasInit /\ SendingKeys /\ Answered)'
  BY <1>1, <1>2, <1>8, <1>11 DEF InStep, Introducing, Told, HasInit, SendingKeys, Answered, Registers
<1>14. SwitchSet'
  BY <1>1, <1>2, <1>3, <1>4, <1>7, <1>8, <1>11 DEF InStep, SwitchSet, RdmaSet, MsgAddrSet, PsnSet
<1>15. Receiving'
  <2>1. nic'.recvs + Len(nic'.unread) = Slots
    BY <1>1, <1>2, <1>3, <1>4, <1>7 DEF InStep, Receiving, Introduced
  <2>2. \A i \in 1 .. Len(nic'.unread) : nic'.unread[i] = host'.msgTail + i - 1
    <3> SUFFICES ASSUME NEW i \in 1 .. Len(nic'.unread)
                 PROVE  nic'.unread[i] = host'.msgTail + i - 1
      OBVIOUS
    <3>0. Len(nic'.unread) = Len(nic.unread) - 1 /\ Len(nic'.unread) = Len(Tail(nic.unread))
      BY <1>4, <1>7
    <3>1. i + 1 \in 1 .. Len(nic.unread) /\ i \in 1 .. Len(Tail(nic.unread)) /\ i \in Nat
      BY <1>4, <3>0
    <3>2. nic'.unread[i] = nic.unread[i + 1]
      BY <1>4, <1>7, <3>1
    <3> QED BY <1>3, <1>5, <1>8, <3>1, <3>2, SMTT(20)
  <2> QED BY <1>1, <1>8, <1>11, <2>1, <2>2 DEF Receiving
<1> QED BY <1>9, <1>10, <1>12, <1>13, <1>14, <1>15 DEF InStep

(* The controller ends: what is destroyed first is needed by nothing left. *)
LEMMA QuitPreserves == ASSUME IInv, Quit PROVE IInv'
<1> USE DEF IInv
<1>1. /\ host' = [host EXCEPT !.pc = "destroy"]
      /\ UNCHANGED <<program, fileOpens, toScript, toHost, closed, script, switch, nic>>
  BY DEF Quit, Goto
<1>2. HostOK'
  BY <1>1 DEF HostOK, Introduced, Live
<1>3. Holding' /\ ~Live'
  BY <1>1 DEF HostOK, Holding, Introduced, Live
<1> QED BY <1>2, <1>3

LEMMA DestroyPreserves == ASSUME IInv, Destroy PROVE IInv'
<1> USE DEF IInv
<1> DEFINE r == NextToDestroy(host.held)
           left == {i \in DOMAIN DestroyOrder : DestroyOrder[i] \in host.held}
<1>1. /\ host.pc = "destroy"
      /\ UNCHANGED <<program, fileOpens, toScript, toHost, script, switch, nic>>
      /\ IF r # "nothing"
         THEN host' = [host EXCEPT !.held = @ \ Destroyed(r)] /\ closed' = closed
         ELSE host' = [host EXCEPT !.pc = "gone"] /\ closed' = TRUE
  BY DEF Destroy, Goto
<1>2. host.held \subseteq Objects /\ \A x \in host.held : Needs(x) \subseteq host.held
  BY DEF HostOK, Holding
<1>3. left \subseteq 1 .. 5 /\ \A i \in 1 .. 5 : i \in left <=> DestroyOrder[i] \in host.held
  BY DEF DestroyOrder
<1>4. CASE left = {}
  <2>1. r = "nothing"
    BY <1>4 DEF NextToDestroy
  <2>2. host.held \cap {"qp", "cq", "mr", "pd", "ctx"} = {}
    BY <1>3, <1>4 DEF DestroyOrder
  <2>3. host.held = {}
    BY <1>2, <2>2, NeedsAre DEF Objects
  <2>4. HostOK'
    BY <1>1, <2>1 DEF HostOK, Introduced, Live
  <2>5. Holding' /\ ~Live'
    BY <1>1, <2>1, <2>3 DEF HostOK, Holding, Introduced, Live
  <2> QED BY <2>4, <2>5
<1>5. CASE left # {}
  <2>1. PICK m \in left : \A j \in left : m <= j
    <3>1. CASE 1 \in left
      BY <1>3, <3>1
    <3>2. CASE 1 \notin left /\ 2 \in left
      BY <1>3, <3>2
    <3>3. CASE 1 \notin left /\ 2 \notin left /\ 3 \in left
      BY <1>3, <3>3
    <3>4. CASE 1 \notin left /\ 2 \notin left /\ 3 \notin left /\ 4 \in left
      BY <1>3, <3>4
    <3>5. CASE 1 \notin left /\ 2 \notin left /\ 3 \notin left /\ 4 \notin left
      <4>1. left = {5}
        BY <1>3, <1>5, <3>5
      <4> QED BY <4>1
    <3> QED BY <3>1, <3>2, <3>3, <3>4, <3>5
  <2> DEFINE n == CHOOSE i \in left : \A j \in left : i <= j
  <2>2. n \in left /\ \A j \in left : n <= j
    BY <2>1
  <2>3. r = DestroyOrder[n]
    BY <1>5 DEF NextToDestroy
  <2> HIDE DEF n, r
  <2>4. /\ n \in 1 .. 5 /\ r \in host.held
        /\ \A j \in 1 .. 5 : j < n => DestroyOrder[j] \notin host.held
    BY <1>3, <2>2, <2>3
  <2>5. /\ n = 1 => r = "qp"
        /\ n = 2 => r = "cq" /\ "qp" \notin host.held
        /\ n = 3 => r = "mr"
        /\ n = 4 => r = "pd" /\ "qp" \notin host.held /\ "mr" \notin host.held
        /\ n = 5 => r = "ctx" /\ "cq" \notin host.held /\ "pd" \notin host.held
    BY <2>3, <2>4 DEF DestroyOrder
  <2>6. r \in {"qp", "cq", "mr", "pd", "ctx"}
    BY <2>4, <2>5
  <2>7. \A x \in host.held \ Destroyed(r) : Needs(x) \subseteq host.held \ Destroyed(r)
    <3> SUFFICES ASSUME NEW x \in host.held, x \notin Destroyed(r)
                 PROVE  Needs(x) \cap Destroyed(r) = {}
      BY <1>2
    <3>1. x \in Objects
      BY <1>2
    <3>2. CASE n = 1
      BY <2>5, <3>1, <3>2, NeedsAre DEF Destroyed, Objects
    <3>3. CASE n # 1
      <4>1. Destroyed(r) = {r}
        BY <2>4, <2>5, <3>3 DEF Destroyed
      <4> QED BY <2>4, <2>5, <3>1, <3>3, <4>1, NeedsAre DEF Objects
    <3> QED BY <3>2, <3>3
  <2>8. host' = [host EXCEPT !.held = @ \ Destroyed(r)] /\ closed' = closed
    BY <1>1, <2>6
  <2>9. HostOK'
    BY <1>1, <2>8 DEF HostOK, Introduced, Live
  <2>10. host'.pc = "destroy" /\ host'.held = host.held \ Destroyed(r)
    BY <1>1, <2>8 DEF HostOK
  <2>11. Holding' /\ ~Live'
    BY <2>7, <2>10 DEF Holding, Introduced, Live
  <2> QED BY <2>9, <2>11
<1> QED BY <1>4, <1>5

(* A step of the script or of the switch leaves the controller as it is.   *)
LEMMA HostKept ==
  ASSUME HostOK, Holding, UNCHANGED <<program, fileOpens, host, closed>>, toHost' \in Nat
  PROVE  HostOK' /\ Holding' /\ (Live' <=> Live)
  BY DEF HostOK, Holding, Live

LEMMA AcceptPreserves == ASSUME IInv, Accept PROVE IInv'
<1> USE DEF IInv
<1>1. /\ script.pc = "accept" /\ script' = [script EXCEPT !.pc = "recvInit"]
      /\ UNCHANGED <<program, fileOpens, host, toScript, toHost, closed, switch, nic>>
  BY DEF Accept
<1>2. HostOK' /\ Holding' /\ (Live' <=> Live)
  BY <1>1, HostKept DEF HostOK
<1>3. ASSUME Live PROVE InStep'
  <2>1. /\ InStep /\ script' \in [pc : {"recvInit"}, init : Seq(Fields), nKeys : Nat]
        /\ script'.init = script.init
    BY <1>1, <1>3 DEF InStep, WireOK
  <2>2. WireOK'
    BY <1>1, <2>1 DEF InStep, WireOK, WritesInit
  <2>3. Introducing'
    BY <1>1, <2>1 DEF InStep, Introducing, Told, Under, Written, WritesInit
  <2>4. (HasInit /\ SendingKeys /\ Answered /\ SwitchSet)'
    BY <1>1, <2>1 DEF HasInit, SendingKeys, Answered, SwitchSet, Registers, RdmaSet, MsgAddrSet, PsnSet
  <2>5. Receiving'
    BY <1>1, <2>1 DEF InStep, Receiving
  <2> QED BY <2>2, <2>3, <2>4, <2>5 DEF InStep
<1> QED BY <1>2, <1>3

(* The script reads a field: one more behind it, one less ahead of it.     *)
LEMMA UnderShrinks ==
  ASSUME NEW msg, NEW from \in Nat, NEW w \in Nat, Under(msg, from, w),
         toScript \in Seq(Fields), toScript # <<>>, toScript' = Tail(toScript)
  PROVE  /\ toScript' \in Seq(Fields) /\ Head(toScript) = msg[from + 1] /\ from < w
         /\ Under(msg, from + 1, w)'
<1>1. /\ Len(toScript) = w - from /\ Len(toScript) \in Nat \ {0}
      /\ toScript' \in Seq(Fields) /\ Len(toScript') = Len(toScript) - 1
      /\ Head(toScript) = toScript[1]
      /\ \A i \in 1 .. Len(toScript') : toScript'[i] = toScript[i + 1]
  BY DEF Under
<1>2. Head(toScript) = msg[from + 1] /\ from < w
  BY <1>1 DEF Under
<1>3. ASSUME NEW i \in 1 .. w - (from + 1) PROVE toScript'[i] = msg[(from + 1) + i]
  <2>1. i \in 1 .. Len(toScript') /\ i + 1 \in 1 .. w - from
    BY <1>1
  <2>2. toScript'[i] = toScript[i + 1] /\ toScript[i + 1] = msg[from + (i + 1)]
    BY <1>1, <2>1 DEF Under
  <2>3. from + (i + 1) = (from + 1) + i
    OBVIOUS
  <2> QED BY <2>2, <2>3
<1>4. Len(toScript') = w - (from + 1)
  BY <1>1
<1> QED BY <1>1, <1>2, <1>3, <1>4 DEF Under

LEMMA RecvInitPreserves == ASSUME IInv, RecvInit PROVE IInv'
<1> USE DEF IInv
<1>1. /\ script.pc = "recvInit" /\ Len(script.init) < 3
      /\ UNCHANGED <<program, fileOpens, host, toHost, closed, switch, nic>>
  BY DEF RecvInit
<1>2. HostOK' /\ Holding' /\ (Live' <=> Live)
  BY <1>1, HostKept DEF HostOK
<1>3. ASSUME Live PROVE InStep'
  <2>1. InStep /\ toScript # <<>> /\ toScript' = Tail(toScript)
        /\ script' = [script EXCEPT !.init = Append(@, Head(toScript))]
    BY <1>3 DEF HostOK, RecvInit, Field
  <2>2. /\ toScript \in Seq(Fields) /\ script.init \in Seq(Fields)
        /\ script \in [pc : {"recvInit"}, init : Seq(Fields), nKeys : Nat]
    BY <1>1, <2>1 DEF InStep, WireOK
  <2> DEFINE read == Len(script.init)
  <2>3. Told \in Nat /\ Told' = Told /\ read \in Nat
    BY <1>1, <2>2, InitMsgIs DEF HostOK, Told, Written, WritesInit
  <2>4. /\ host.pc \in {"connect", "rdma", "ctor", "sayInit", "readInit"} /\ toHost = 0
        /\ \A i \in 1 .. read : script.init[i] = InitMsg[i]
        /\ Under(InitMsg, read, Told)
    BY <1>1, <2>1 DEF InStep, Introducing
  <2>5. PICK m \in Nat : m = read
    BY <2>3
  <2>6. /\ toScript' \in Seq(Fields) /\ Head(toScript) = InitMsg[m + 1] /\ m < Told
        /\ Under(InitMsg, m + 1, Told)'
    <3>1. PICK w \in Nat : w = Told /\ w = Told'
      BY <2>3
    <3>2. Under(InitMsg, m, w)
      BY <2>4, <2>5, <3>1
    <3>3. /\ toScript' \in Seq(Fields) /\ Head(toScript) = InitMsg[m + 1] /\ m < w
          /\ Under(InitMsg, m + 1, w)'
      BY <2>1, <2>2, <3>2, UnderShrinks
    <3> QED BY <3>1, <3>3 DEF Under
  <2>7. Head(toScript) \in Fields
    BY <2>1, <2>2
  <2>8. /\ script'.init \in Seq(Fields) /\ Len(script'.init) = m + 1 /\ script'.pc = "recvInit"
        /\ script' \in [pc : {"recvInit"}, init : Seq(Fields), nKeys : Nat]
        /\ script'.init[m + 1] = Head(toScript)
        /\ \A i \in 1 .. m : script'.init[i] = script.init[i]
    <3>1. script'.init = Append(script.init, Head(toScript)) /\ script'.pc = "recvInit"
      BY <2>1, <2>2
    <3>2. script'.init \in Seq(Fields) /\ Len(script'.init) = m + 1
      BY <2>2, <2>5, <2>7, <3>1
    <3>3. script'.init[m + 1] = Head(toScript) /\ \A i \in 1 .. m : script'.init[i] = script.init[i]
      BY <2>2, <2>5, <2>7, <3>1
    <3>4. script' \in [pc : {"recvInit"}, init : Seq(Fields), nKeys : Nat]
      BY <2>1, <2>2, <3>2
    <3> QED BY <3>1, <3>2, <3>3, <3>4
  <2>9. WireOK'
    BY <1>1, <2>1, <2>6, <2>8 DEF InStep, WireOK, WritesInit
  <2>10. \A i \in 1 .. Len(script'.init) : script'.init[i] = InitMsg[i]
    BY <2>4, <2>5, <2>6, <2>8
  <2>11. Introducing'
    <3>1. Under(InitMsg, Len(script.init), Told)'
      BY <2>6, <2>8 DEF Under
    <3>2. Len(script'.init) <= Told'
      BY <2>3, <2>6, <2>8
    <3> QED BY <1>1, <2>4, <2>8, <2>10, <3>1, <3>2 DEF Introducing
  <2>12. (HasInit /\ SendingKeys /\ Answered /\ SwitchSet)'
    BY <2>8 DEF HasInit, SendingKeys, Answered, SwitchSet, Registers, RdmaSet, MsgAddrSet, PsnSet
  <2>13. Receiving'
    BY <1>1, <2>1, <2>8 DEF InStep, Receiving
  <2> QED BY <2>9, <2>11, <2>12, <2>13 DEF InStep
<1> QED BY <1>2, <1>3

(* The script has the three fields: it answers and, for a query, clears    *)
(* the keys of an earlier run.                                             *)
LEMMA SendInitDonePreserves == ASSUME IInv, SendInitDone PROVE IInv'
<1> USE DEF IInv
<1> DEFINE to == IF program = "query" THEN "recvSize" ELSE "clearPsn"
<1>1. /\ script.pc = "recvInit" /\ Len(script.init) = 3
      /\ UNCHANGED <<program, fileOpens, host, toScript, closed, nic>>
      /\ \/ toHost' = toHost + 1 /\ script' = [script EXCEPT !.pc = to]
         \/ closed /\ toHost' = toHost
      /\ switch' = IF program = "query" /\ script'.pc # "raised"
                   THEN [switch EXCEPT !.tabAddr = {}] ELSE switch
  BY DEF SendInitDone, SendAll
<1>2. HostOK' /\ Holding' /\ (Live' <=> Live)
  BY <1>1, HostKept DEF HostOK
<1>3. ASSUME Live PROVE InStep'
  <2>1. InStep /\ toHost' = toHost + 1 /\ script' = [script EXCEPT !.pc = to]
    BY <1>1, <1>3 DEF HostOK
  <2>2. /\ script' \in [pc : {to}, init : Seq(Fields), nKeys : Nat]
        /\ script'.pc = to /\ script'.init = script.init /\ script.init \in Seq(Fields)
    BY <2>1 DEF InStep, WireOK
  <2>3. /\ Told \in 0 .. 3 /\ Told >= 3 /\ Under(InitMsg, 3, Told) /\ toHost = 0
        /\ \A i \in 1 .. 3 : script.init[i] = InitMsg[i]
    BY <1>1, <2>1, InitMsgIs DEF InStep, Introducing, WireOK, HostOK, Told, Written
  <2>4. host.pc = "readInit" /\ toScript = <<>>
    <3>1. Told = 3
      BY <2>3
    <3>2. host.pc = "readInit"
      BY <1>1, <2>1, <3>1, InitMsgIs DEF InStep, Introducing, WireOK, HostOK, Told, Written, WritesInit
    <3>3. Len(toScript) = 0 /\ toScript \in Seq(Fields)
      BY <2>1, <2>3, <3>1 DEF Under, InStep, WireOK
    <3> QED BY <3>2, <3>3
  <2>5. script'.init = InitMsg
    <3>1. script.init \in Seq(Fields) /\ InitMsg \in Seq(Fields) /\ Len(InitMsg) = 3
      BY <2>2, InitMsgIs
    <3> QED BY <1>1, <2>2, <2>3, <3>1
  <2>6. /\ switch' \in [tabAddr : SUBSET Fields, tabRdma : Seq(Fields), psn : Nat, msgAddr : Nat]
        /\ program = "query" => switch'.tabAddr = {}
        /\ switch'.psn = switch.psn /\ switch'.msgAddr = switch.msgAddr
    BY <1>1, <2>1, <2>2 DEF InStep, WireOK
  <2>7. WireOK'
    BY <1>1, <2>1, <2>2, <2>6 DEF InStep, WireOK, WritesInit, Registers
  <2>8. Introducing' /\ HasInit'
    BY <1>1, <2>2, <2>4, <2>5 DEF Introducing, HasInit, Introduced
  <2>9. (SendingKeys /\ Answered /\ SwitchSet)'
    BY <1>1, <2>1, <2>2, <2>3, <2>4, <2>6
       DEF SendingKeys, Answered, SwitchSet, Registers, RdmaSet, MsgAddrSet, PsnSet, HostOK
  <2>10. Receiving'
    BY <1>1, <2>1, <2>2 DEF InStep, Receiving
  <2> QED BY <2>7, <2>8, <2>9, <2>10 DEF InStep
<1> QED BY <1>2, <1>3

(* The number of keys is what it reads first.                              *)
LEMMA RecvSizePreserves == ASSUME IInv, RecvSize PROVE IInv'
<1> USE DEF IInv
<1>1. /\ script.pc = "recvSize"
      /\ script' = [script EXCEPT !.nKeys = Field[2], !.pc = "recvKeys"]
      /\ UNCHANGED <<program, fileOpens, host, toHost, closed, switch, nic>>
  BY DEF RecvSize
<1>2. HostOK' /\ Holding' /\ (Live' <=> Live)
  BY <1>1, HostKept DEF HostOK
<1>3. ASSUME Live PROVE InStep'
  <2>1. InStep /\ toScript # <<>> /\ toScript' = Tail(toScript) /\ Field = Head(toScript)
    BY <1>3 DEF HostOK, RecvSize, Field
  <2>2. program = "query" /\ host.pc \in {"insKeys", "readKeys"} /\ toHost = 0
        /\ Under(KeyMsg, 0, Written("insKeys", KeyMsg)) /\ script.init = InitMsg
        /\ switch.tabAddr = {}
    BY <1>1, <2>1 DEF InStep, SendingKeys, HasInit, Introduced, HostOK
  <2>3. PICK w \in Nat : w = Written("insKeys", KeyMsg)
    BY KeyMsgIs DEF Written, HostOK
  <2>4. /\ toScript' \in Seq(Fields) /\ Head(toScript) = KeyMsg[1] /\ 0 < w
        /\ Under(KeyMsg, 1, w)'
    <3>1. /\ toScript' \in Seq(Fields) /\ Head(toScript) = KeyMsg[0 + 1] /\ 0 < w
          /\ Under(KeyMsg, 0 + 1, w)'
      BY <2>1, <2>2, <2>3, UnderShrinks DEF InStep, WireOK
    <3> QED BY <3>1 DEF Under
  <2>5. Field[2] = Len(InputKeys) /\ Len(InputKeys) \in Nat
    BY <2>1, <2>4, KeyMsgIs
  <2>6. /\ script' \in [pc : {"recvKeys"}, init : Seq(Fields), nKeys : Nat]
        /\ script'.init = InitMsg /\ script'.nKeys = Len(InputKeys)
    BY <1>1, <2>1, <2>2, <2>5 DEF InStep, WireOK
  <2>7. Written("insKeys", KeyMsg)' = w /\ Under(KeyMsg, 1, Written("insKeys", KeyMsg))'
    BY <1>1, <2>3, <2>4, KeyMsgIs DEF Written, Under
  <2>8. WireOK'
    BY <1>1, <2>1, <2>4, <2>6 DEF InStep, WireOK, WritesInit
  <2>9. (Introducing /\ HasInit /\ Answered /\ SwitchSet)'
    BY <1>1, <2>2, <2>6 DEF Introducing, HasInit, Introduced, Answered, SwitchSet, Registers,
                            RdmaSet, MsgAddrSet, PsnSet
  <2>10. SendingKeys'
    BY <1>1, <2>2, <2>4, <2>6, <2>7 DEF SendingKeys
  <2>11. Receiving'
    BY <1>1, <2>1, <2>6 DEF InStep, Receiving
  <2> QED BY <2>8, <2>9, <2>10, <2>11 DEF InStep
<1> QED BY <1>2, <1>3

(* Once all keys are there the controller has written its whole message:   *)
(* nothing is left, and the table gets exactly the controller's keys.      *)
LEMMA RecvKeysPreserves == ASSUME IInv, RecvKeys PROVE IInv'
<1> USE DEF IInv
<1>1. /\ script.pc = "recvKeys" /\ Len(toScript) >= script.nKeys
      /\ switch' = [switch EXCEPT !.tabAddr = @ \cup {toScript[i] : i \in 1 .. script.nKeys}]
      /\ toScript' = SubSeq(toScript, script.nKeys + 1, Len(toScript))
      /\ script' = [script EXCEPT !.pc = "sendDone"]
      /\ UNCHANGED <<program, fileOpens, host, toHost, closed, nic>>
  BY DEF RecvKeys
<1>2. HostOK' /\ Holding' /\ (Live' <=> Live)
  BY <1>1, HostKept DEF HostOK
<1>3. ASSUME Live PROVE InStep'
  <2>1. InStep /\ toScript \in Seq(Fields)
    BY <1>3 DEF InStep, WireOK
  <2>2. /\ program = "query" /\ host.pc \in {"insKeys", "readKeys"} /\ toHost = 0
        /\ script.nKeys = Len(InputKeys) /\ script.init = InitMsg /\ switch.tabAddr = {}
        /\ Under(KeyMsg, 1, Written("insKeys", KeyMsg))
    BY <1>1, <2>1 DEF InStep, SendingKeys, HasInit
  <2>3. PICK n \in Nat : n = Len(InputKeys)
    BY KeyMsgIs
  <2>4. Len(toScript) = Written("insKeys", KeyMsg) - 1
    BY <2>2 DEF Under
  <2>5. host.pc = "readKeys" /\ Len(toScript) = n /\ Written("insKeys", KeyMsg) = n + 1
    BY <1>1, <2>1, <2>2, <2>3, <2>4, KeyMsgIs, SMTT(20) DEF Written, InStep, WireOK, HostOK
  <2>6. \A i \in 1 .. n : toScript[i] = <<InputKeys[i], i - 1>> /\ toScript[i] \in Fields
    <3> SUFFICES ASSUME NEW i \in 1 .. n
                 PROVE  toScript[i] = <<InputKeys[i], i - 1>> /\ toScript[i] \in Fields
      OBVIOUS
    <3>1. toScript[i] = KeyMsg[1 + i] /\ toScript[i] \in Fields
      BY <2>1, <2>2, <2>5 DEF Under
    <3> QED BY <2>3, <3>1, KeyMsgIs
  <2>7. {toScript[i] : i \in 1 .. n} = Addresses /\ Addresses \subseteq Fields
    <3>1. DOMAIN InputKeys = 1 .. n
      BY <2>3, StartUpAssumption
    <3> QED BY <2>6, <3>1 DEF Addresses
  <2>8. toScript' = <<>>
    <3>1. toScript' \in Seq(Fields) /\ Len(toScript') = 0
      BY <1>1, <2>1, <2>2, <2>3, <2>5
    <3> QED BY <3>1
  <2>9. switch' = [switch EXCEPT !.tabAddr = Addresses]
    BY <1>1, <2>2, <2>3, <2>7
  <2>10. /\ script' \in [pc : {"sendDone"}, init : Seq(Fields), nKeys : Nat]
         /\ script'.init = InitMsg
    BY <1>1, <2>1, <2>2 DEF InStep, WireOK
  <2>11. WireOK'
    <3>1. switch' \in [tabAddr : SUBSET Fields, tabRdma : Seq(Fields), psn : Nat, msgAddr : Nat]
      BY <2>1, <2>7, <2>9 DEF InStep, WireOK
    <3>2. toScript' \in Seq(Fields)
      BY <2>8
    <3> QED BY <1>1, <2>1, <2>10, <3>1, <3>2 DEF InStep, WireOK, WritesInit
  <2>12. (Introducing /\ HasInit /\ SendingKeys)'
    BY <1>1, <2>2, <2>5, <2>8, <2>10 DEF Introducing, HasInit, Introduced, SendingKeys
  <2>13. (Answered /\ SwitchSet)'
    <3>1. switch'.tabAddr = Addresses
      BY <2>1, <2>9 DEF InStep, WireOK
    <3>2. Addresses' = Addresses
      BY DEF Addresses
    <3> QED BY <2>10, <3>1, <3>2 DEF Answered, SwitchSet, Registers, RdmaSet, MsgAddrSet, PsnSet
  <2>14. Receiving'
    BY <1>1, <2>1, <2>10 DEF InStep, Receiving
  <2> QED BY <2>11, <2>12, <2>13, <2>14 DEF InStep
<1> QED BY <1>2, <1>3

LEMMA SendKeysDonePreserves == ASSUME IInv, SendKeysDone PROVE IInv'
<1> USE DEF IInv
<1>1. /\ script.pc = "sendDone" /\ UNCHANGED <<program, fileOpens, host, toScript, closed, nic, switch>>
      /\ \/ toHost' = toHost + 1 /\ script' = [script EXCEPT !.pc = "setRdma"]
         \/ closed /\ toHost' = toHost
  BY DEF SendKeysDone, SendAll
<1>2. HostOK' /\ Holding' /\ (Live' <=> Live)
  BY <1>1, HostKept DEF HostOK
<1>3. ASSUME Live PROVE InStep'
  <2>1. InStep /\ toHost' = toHost + 1 /\ script' = [script EXCEPT !.pc = "setRdma"]
    BY <1>1, <1>3 DEF HostOK
  <2>2. /\ script' \in [pc : {"setRdma"}, init : Seq(Fields), nKeys : Nat]
        /\ script'.init = script.init
    BY <2>1 DEF InStep, WireOK
  <2>3. host.pc = "readKeys" /\ toHost = 0 /\ toScript = <<>> /\ program = "query"
    BY <1>1, <2>1 DEF InStep, SendingKeys
  <2>4. WireOK'
    BY <1>1, <2>1, <2>2 DEF InStep, WireOK, WritesInit, Registers
  <2>5. (Introducing /\ HasInit /\ SendingKeys)'
    BY <1>1, <2>1, <2>2, <2>3 DEF InStep, Introducing, HasInit, SendingKeys
  <2>6. (Answered /\ SwitchSet)'
    BY <1>1, <2>1, <2>2, <2>3 DEF InStep, Answered, Addresses, SwitchSet, Registers,
                                  RdmaSet, MsgAddrSet, PsnSet
  <2>7. Receiving'
    BY <1>1, <2>1, <2>2 DEF InStep, Receiving
  <2> QED BY <2>4, <2>5, <2>6, <2>7 DEF InStep
<1> QED BY <1>2, <1>3

(* The calls that set up the switch, each of which establishes one part of *)
(* the agreement.                                                          *)
LEMMA SetRdmaPreserves == ASSUME IInv, SetRdma PROVE IInv'
<1> USE DEF IInv
<1>1. /\ script.pc = "setRdma" /\ switch' = [switch EXCEPT !.tabRdma = script.init]
      /\ script' = [script EXCEPT !.pc = "clearMsgAddr"]
      /\ UNCHANGED <<program, fileOpens, host, toScript, toHost, closed, nic>>
  BY DEF SetRdma
<1>2. HostOK' /\ Holding' /\ (Live' <=> Live)
  BY <1>1, HostKept DEF HostOK
<1>3. ASSUME Live PROVE InStep'
  <2>1. InStep /\ script.init = InitMsg /\ InitMsg \in Seq(Fields)
    BY <1>1, <1>3, InitMsgIs DEF InStep, HasInit
  <2>2. /\ script' \in [pc : {"clearMsgAddr"}, init : Seq(Fields), nKeys : Nat]
        /\ script'.init = script.init
    BY <1>1, <2>1 DEF InStep, WireOK
  <2>3. /\ switch' \in [tabAddr : SUBSET Fields, tabRdma : Seq(Fields), psn : Nat, msgAddr : Nat]
        /\ switch'.tabRdma = InitMsg /\ switch'.psn = switch.psn /\ switch'.tabAddr = switch.tabAddr
    BY <1>1, <2>1 DEF InStep, WireOK
  <2>4. WireOK'
    BY <1>1, <2>1, <2>2, <2>3 DEF InStep, WireOK, WritesInit, Registers
  <2>5. (Introducing /\ HasInit /\ SendingKeys)'
    BY <1>1, <2>1, <2>2 DEF InStep, Introducing, HasInit, SendingKeys
  <2>6. (Answered /\ SwitchSet)'
    BY <1>1, <2>1, <2>2, <2>3 DEF InStep, Answered, Addresses, SwitchSet, Registers,
                                  RdmaSet, MsgAddrSet, PsnSet
  <2>7. Receiving'
    BY <1>1, <2>1, <2>2 DEF InStep, Receiving
  <2> QED BY <2>4, <2>5, <2>6, <2>7 DEF InStep
<1> QED BY <1>2, <1>3

LEMMA ClearMsgAddrPreserves == ASSUME IInv, ClearMsgAddr PROVE IInv'
<1> USE DEF IInv
<1> DEFINE to == IF program = "query" THEN "clearPsn" ELSE "done"
<1>1. /\ script.pc = "clearMsgAddr" /\ switch' = [switch EXCEPT !.msgAddr = 0]
      /\ script' = [script EXCEPT !.pc = to]
      /\ UNCHANGED <<program, fileOpens, host, toScript, toHost, closed, nic>>
  BY DEF ClearMsgAddr
<1>2. HostOK' /\ Holding' /\ (Live' <=> Live)
  BY <1>1, HostKept DEF HostOK
<1>3. ASSUME Live PROVE InStep'
  <2>1. InStep
    BY <1>3
  <2>2. /\ script' \in [pc : {to}, init : Seq(Fields), nKeys : Nat]
        /\ script'.init = script.init
    BY <1>1, <2>1 DEF InStep, WireOK
  <2>3. /\ switch' \in [tabAddr : SUBSET Fields, tabRdma : Seq(Fields), psn : Nat, msgAddr : Nat]
        /\ switch'.tabRdma = switch.tabRdma /\ switch'.psn = switch.psn
        /\ switch'.tabAddr = switch.tabAddr /\ switch'.msgAddr = 0
    BY <1>1, <2>1 DEF InStep, WireOK
  <2>4. host.msgTail = 0 /\ Len(nic.unread) = 0
    BY <1>1, <2>1 DEF InStep, Receiving
  <2>5. WireOK'
    BY <1>1, <2>1, <2>2, <2>3 DEF InStep, WireOK, WritesInit, Registers
  <2>6. (Introducing /\ HasInit /\ SendingKeys)'
    BY <1>1, <2>1, <2>2 DEF InStep, Introducing, HasInit, SendingKeys
  <2>7. Answered'
    BY <1>1, <2>1, <2>2, <2>3 DEF InStep, Answered, Addresses, Registers
  <2>8. SwitchSet'
    BY <1>1, <2>1, <2>2, <2>3, <2>4 DEF InStep, SwitchSet, RdmaSet, MsgAddrSet, PsnSet
  <2>9. Receiving'
    BY <1>1, <2>1, <2>2 DEF InStep, Receiving
  <2> QED BY <2>5, <2>6, <2>7, <2>8, <2>9 DEF InStep
<1> QED BY <1>2, <1>3

LEMMA ClearPsnPreserves == ASSUME IInv, ClearPsn PROVE IInv'
<1> USE DEF IInv
<1> DEFINE to == IF program = "query" THEN "done" ELSE "setRdma"
<1>1. /\ script.pc = "clearPsn" /\ switch' = [switch EXCEPT !.psn = 0]
      /\ script' = [script EXCEPT !.pc = to]
      /\ UNCHANGED <<program, fileOpens, host, toScript, toHost, closed, nic>>
  BY DEF ClearPsn
<1>2. HostOK' /\ Holding' /\ (Live' <=> Live)
  BY <1>1, HostKept DEF HostOK
<1>3. ASSUME Live PROVE InStep'
  <2>1. InStep
    BY <1>3
  <2>2. /\ script' \in [pc : {to}, init : Seq(Fields), nKeys : Nat]
        /\ script'.init = script.init
    BY <1>1, <2>1 DEF InStep, WireOK
  <2>3. /\ switch' \in [tabAddr : SUBSET Fields, tabRdma : Seq(Fields), psn : Nat, msgAddr : Nat]
        /\ switch'.tabRdma = switch.tabRdma /\ switch'.psn = 0
        /\ switch'.tabAddr = switch.tabAddr /\ switch'.msgAddr = switch.msgAddr
    BY <1>1, <2>1 DEF InStep, WireOK
  <2>4. nic.epsn = 0
    BY <1>1, <2>1 DEF InStep, Receiving
  <2>5. WireOK'
    BY <1>1, <2>1, <2>2, <2>3 DEF InStep, WireOK, WritesInit, Registers
  <2>6. (Introducing /\ HasInit /\ SendingKeys)'
    BY <1>1, <2>1, <2>2 DEF InStep, Introducing, HasInit, SendingKeys
  <2>7. Answered'
    BY <1>1, <2>1, <2>2, <2>3 DEF InStep, Answered, Addresses, Registers
  <2>8. SwitchSet'
    BY <1>1, <2>1, <2>2, <2>3, <2>4 DEF InStep, SwitchSet, RdmaSet, MsgAddrSet, PsnSet
  <2>9. Receiving'
    BY <1>1, <2>1, <2>2 DEF InStep, Receiving
  <2> QED BY <2>5, <2>6, <2>7, <2>8, <2>9 DEF InStep
<1> QED BY <1>2, <1>3

(* A message has the sequence number that is expected and the address that *)
(* is read next after those unread.                                        *)
LEMMA MessagePreserves == ASSUME IInv, Message PROVE IInv'
<1> USE DEF IInv
<1>1. /\ script.pc = "done" /\ host.pc = "ready" /\ nic.recvs > 0
      /\ switch' = [switch EXCEPT !.psn = @ + 1, !.msgAddr = @ + 1]
      /\ UNCHANGED <<program, fileOpens, host, toScript, toHost, closed, script>>
  BY DEF Message
<1>2. HostOK' /\ Holding' /\ (Live' <=> Live)
  BY <1>1, HostKept DEF HostOK
<1>3. Live
  BY <1>1 DEF Live
<1>4. InStep /\ switch.psn = nic.epsn /\ switch.tabRdma = InitMsg
      /\ switch.msgAddr = host.msgTail + Len(nic.unread) /\ nic.recvs + Len(nic.unread) = Slots
  BY <1>1, <1>3 DEF InStep, SwitchSet, RdmaSet, MsgAddrSet, PsnSet, Receiving, Introduced, HostOK
<1>5. nic' = [epsn |-> nic.epsn + 1, recvs |-> nic.recvs - 1,
              unread |-> Append(nic.unread, switch.msgAddr)]
  BY <1>4 DEF Message
<1>6. nic.unread \in Seq(Nat) /\ Len(nic.unread) \in Nat /\ nic.recvs \in Nat /\ nic.epsn \in Nat
      /\ switch.msgAddr \in Nat /\ host.msgTail \in Nat /\ switch.psn \in Nat
  BY <1>4 DEF InStep, WireOK, HostOK
<1>7. /\ nic'.unread \in Seq(Nat) /\ Len(nic'.unread) = Len(nic.unread) + 1
      /\ nic'.unread[Len(nic.unread) + 1] = switch.msgAddr
      /\ \A i \in 1 .. Len(nic.unread) : nic'.unread[i] = nic.unread[i]
  <2>1. nic'.unread = Append(nic.unread, switch.msgAddr)
    BY <1>5
  <2> QED BY <1>6, <2>1
<1>8. nic' \in [epsn : Nat, recvs : Nat, unread : Seq(Nat)]
  BY <1>1, <1>5, <1>6, <1>7
<1>9. /\ switch' \in [tabAddr : SUBSET Fields, tabRdma : Seq(Fields), psn : Nat, msgAddr : Nat]
      /\ switch'.tabRdma = switch.tabRdma /\ switch'.tabAddr = switch.tabAddr
      /\ switch'.psn = switch.psn + 1 /\ switch'.msgAddr = switch.msgAddr + 1
  <2>1. switch \in [tabAddr : SUBSET Fields, tabRdma : Seq(Fields), psn : Nat, msgAddr : Nat]
    BY <1>4 DEF InStep, WireOK
  <2>2. switch' = [switch EXCEPT !.psn = switch.psn + 1, !.msgAddr = switch.msgAddr + 1]
    BY <1>1
  <2>3. /\ switch'.psn = switch.psn + 1 /\ switch'.msgAddr = switch.msgAddr + 1
        /\ switch'.tabRdma = switch.tabRdma /\ switch'.tabAddr = switch.tabAddr
    BY <2>1, <2>2
  <2>4. switch' \in [tabAddr : SUBSET Fields, tabRdma : Seq(Fields), psn : Nat, msgAddr : Nat]
    <3>1. switch.psn + 1 \in Nat /\ switch.msgAddr + 1 \in Nat
      BY <1>6
    <3> QED BY <2>1, <2>2, <3>1
  <2> QED BY <2>3, <2>4
<1>10. WireOK'
  BY <1>1, <1>4, <1>8, <1>9 DEF InStep, WireOK, WritesInit
<1>11. (Introducing /\ HasInit /\ SendingKeys)'
  BY <1>1, <1>4 DEF InStep, Introducing, HasInit, SendingKeys
<1>12. Answered'
  BY <1>1, <1>4, <1>9 DEF InStep, Answered, Addresses, Registers
<1>13. SwitchSet'
  <2>1. nic'.epsn = nic.epsn + 1
    BY <1>5
  <2>2. switch'.msgAddr = host.msgTail + Len(nic'.unread)
    BY <1>4, <1>6, <1>7, <1>9
  <2> QED BY <1>1, <1>4, <1>9, <2>1, <2>2 DEF SwitchSet
<1>14. Receiving'
  <2>1. nic'.recvs + Len(nic'.unread) = Slots
    <3>1. nic'.recvs = nic.recvs - 1
      BY <1>5
    <3>2. PICK n \in Nat : n = Len(nic.unread)
      BY <1>6
    <3>3. Len(nic'.unread) = n + 1 /\ nic.recvs + n = Slots /\ nic.recvs \in Nat
      BY <1>4, <1>6, <1>7, <3>2
    <3> QED BY <3>1, <3>3
  <2>2. \A i \in 1 .. Len(nic'.unread) : nic'.unread[i] = host.msgTail + i - 1
    <3> SUFFICES ASSUME NEW i \in 1 .. Len(nic'.unread)
                 PROVE  nic'.unread[i] = host.msgTail + i - 1
      OBVIOUS
    <3>1. CASE i \in 1 .. Len(nic.unread)
      BY <1>4, <1>7, <3>1 DEF InStep, Receiving
    <3>2. CASE i = Len(nic.unread) + 1
      BY <1>4, <1>6, <1>7, <3>2
    <3> QED BY <1>6, <1>7, <3>1, <3>2
  <2> QED BY <1>1, <2>1, <2>2 DEF Receiving
<1> QED BY <1>2, <1>10, <1>11, <1>12, <1>13, <1>14 DEF InStep

LEMMA StutterPreserves == ASSUME IInv, UNCHANGED startVars PROVE IInv'
<1> USE DEF IInv, startVars
<1>1. HostOK' /\ Holding' /\ (Live' <=> Live)
  BY HostKept DEF HostOK
<1>2. ASSUME Live PROVE InStep'
  <2>1. InStep
    BY <1>2
  <2>2. (WireOK /\ Introducing /\ HasInit)'
    BY <2>1 DEF InStep, WireOK, WritesInit, Introducing, Told, Under, Written, HasInit
  <2>3. (SendingKeys /\ Answered)'
    BY <2>1 DEF InStep, SendingKeys, Under, Written, Answered, Addresses
  <2>4. (SwitchSet /\ Receiving)'
    BY <2>1 DEF InStep, SwitchSet, RdmaSet, MsgAddrSet, PsnSet, Receiving
  <2> QED BY <2>2, <2>3, <2>4 DEF InStep
<1> QED BY <1>1, <1>2

(* The invariant holds initially and every step preserves it.              *)
THEOREM StartUpInductive == StartUpSpec => []IInv
<1>1. StartUpInit => IInv
  BY InitEstablishes
<1>2. IInv /\ [StartUpNext]_startVars => IInv'
  <2> SUFFICES ASSUME IInv, [StartUpNext]_startVars PROVE IInv'
    OBVIOUS
  <2>1. CASE Connect
    BY <2>1, ConnectPreserves
  <2>2. CASE Acquire
    BY <2>2, AcquirePreserves
  <2>3. CASE PostBefore \/ PostAfter
    BY <2>3, PostRecvsPreserves
  <2>4. CASE WriteInit
    BY <2>4, WriteInitPreserves
  <2>5. CASE WriteKeys
    BY <2>5, WriteKeysPreserves
  <2>6. CASE ReadInitDone
    BY <2>6, ReadInitDonePreserves
  <2>7. CASE ReadKeysDone
    BY <2>7, ReadKeysDonePreserves
  <2>8. CASE WaitNewMsg
    BY <2>8, WaitNewMsgPreserves
  <2>9. CASE Quit
    BY <2>9, QuitPreserves
  <2>10. CASE Destroy
    BY <2>10, DestroyPreserves
  <2>11. CASE Accept
    BY <2>11, AcceptPreserves
  <2>12. CASE RecvInit
    BY <2>12, RecvInitPreserves
  <2>13. CASE SendInitDone
    BY <2>13, SendInitDonePreserves
  <2>14. CASE RecvSize
    BY <2>14, RecvSizePreserves
  <2>15. CASE RecvKeys
    BY <2>15, RecvKeysPreserves
  <2>16. CASE SendKeysDone
    BY <2>16, SendKeysDonePreserves
  <2>17. CASE SetRdma
    BY <2>17, SetRdmaPreserves
  <2>18. CASE ClearMsgAddr
    BY <2>18, ClearMsgAddrPreserves
  <2>19. CASE ClearPsn
    BY <2>19, ClearPsnPreserves
  <2>20. CASE Message
    BY <2>20, MessagePreserves
  <2>21. CASE UNCHANGED startVars
    BY <2>21, StutterPreserves
  <2> QED BY <2>1, <2>2, <2>3, <2>4, <2>5, <2>6, <2>7, <2>8, <2>9, <2>10, <2>11, <2>12, <2>13,
             <2>14, <2>15, <2>16, <2>17, <2>18, <2>19, <2>20, <2>21 DEF StartUpNext
<1> QED BY <1>1, <1>2, PTL DEF StartUpSpec

(* Wherever the constructor fails and whenever the controller ends, no     *)
(* RDMA object is given back before those made from it; and a script that  *)
(* is done and a controller that waits for input agree on the memory, the  *)
(* input keys, the next sequence number and the next address.              *)
THEOREM StartUpRight == StartUpSpec => []StartUpCorrect
<1>1. IInv => StartUpCorrect
  <2> SUFFICES ASSUME IInv PROVE StartUpCorrect
    OBVIOUS
  <2>1. ResourcesOrdered
    BY DEF IInv, Holding, ResourcesOrdered
  <2>2. StartUpAgrees
    <3> SUFFICES ASSUME script.pc = "done", host.pc = "ready" PROVE StartUpAgrees
      BY DEF StartUpAgrees
    <3>1. InStep /\ program \in {"query", "exp"}
      BY DEF IInv, Live, HostOK
    <3>2. switch.tabRdma = InitMsg /\ switch.psn = nic.epsn
          /\ switch.msgAddr = host.msgTail + Len(nic.unread)
      BY <3>1 DEF InStep, SwitchSet, RdmaSet, MsgAddrSet, PsnSet
    <3>3. program = "query" => switch.tabAddr = {<<InputKeys[i], i - 1>> : i \in DOMAIN InputKeys}
      BY <3>1 DEF InStep, Answered, Registers, Addresses
    <3>4. nic.recvs + Len(nic.unread) = Slots
      BY <3>1 DEF InStep, Receiving, Introduced
    <3> QED BY <3>2, <3>3, <3>4 DEF StartUpAgrees
  <2> QED BY <2>1, <2>2 DEF StartUpCorrect
<1> QED BY <1>1, StartUpInductive, PTL

(* The constants, for the setup that runs.                                 *)
LEMMA SizesAre ==
  ASSUME setup \in Setups
  PROVE  /\ N \in Nat /\ N > 1 /\ M \in Nat /\ M > 0 /\ NKeysDp \in Nat /\ NKeysDp > 0
         /\ nKey \in Nat /\ nKey > 0 /\ setup.num \in Nat /\ setup.num > 0
         /\ setup.scheme \in Schemes
         /\ Room \in Nat /\ nInject \in Nat /\ Room + nInject = nKey /\ Room <= NKeysDp /\ Room > 0
         /\ (nInject > 0 => Room = NKeysDp)
  BY CollectionAssumption DEF nKey, Room, nInject, Smaller, Schemes

(* A packet with some fields changed.                                      *)
LEMMA AlteredLast ==
  ASSUME NEW p \in Packet, NEW b \in BOOLEAN, NEW q, q = [p EXCEPT !.last = b]
  PROVE  /\ q \in Packet
         /\ q.start = p.start /\ q.col = p.col /\ q.key = p.key /\ q.idx = p.idx /\ q.last = b
  BY DEF Packet

(* A COL packet of the host has no key and is never the last.              *)
LEMMA CollectIs ==
  /\ Collect \in Packet
  /\ Collect.start = FALSE /\ Collect.col = TRUE /\ Collect.key = NoKey
  /\ Collect.idx = 0 /\ Collect.last = FALSE
  BY DEF Collect, Packet, NoKey

(* A query has its number, and the key that the buffer holds there.        *)
LEMMA QueryIs ==
  ASSUME NEW i \in Int, setup \in Setups
  PROVE  /\ Query(i) \in Packet
         /\ ~Query(i).start /\ ~Query(i).col /\ ~Query(i).last /\ Query(i).idx = i
         /\ Query(i).key = (IF i < nKey THEN i ELSE Junk)
<1> DEFINE k == IF i < nKey THEN i ELSE Junk
<1>1. k \in Int
  BY DEF Junk
<1>2. Query(i) = [Collect EXCEPT !.col = FALSE, !.key = k, !.idx = i]
  BY DEF Query
<1> HIDE DEF k
<1>3. /\ Query(i) \in Packet
      /\ Query(i).start = Collect.start /\ Query(i).col = FALSE /\ Query(i).key = k
      /\ Query(i).idx = i /\ Query(i).last = Collect.last
  <2> DEFINE c == Collect
             q == Query(i)
  <2>1. c \in Packet /\ q = [c EXCEPT !.col = FALSE, !.key = k, !.idx = i]
    BY <1>2, CollectIs
  <2> HIDE DEF c, q
  <2>2. q \in Packet /\ q.start = c.start /\ q.col = FALSE /\ q.key = k /\ q.idx = i /\ q.last = c.last
    BY <1>1, <2>1 DEF Packet
  <2> QED BY <2>2 DEF c, q
<1> QED BY <1>3, CollectIs DEF k

(* The requests of the host.                                               *)
LEMMA RequestsTyped ==
  ASSUME setup \in Setups
  PROVE  /\ Collect \in Packet
         /\ \A i \in Int : Query(i) \in Packet
         /\ \A from, to \in Int : QueriesDown(from, to) \in Seq(Packet) /\ QueriesUp(from, to) \in Seq(Packet)
         /\ \A s \in Seq(Packet) : Notify(s) \in Seq(Packet)
         /\ \A k \in Nat : Collects(k) \in Seq(Packet)
         /\ \A k \in Nat \ {0} : StartCollects(k) \in Seq(Packet)
<1>1. Collect \in Packet
  BY CollectIs
<1>2. \A i \in Int : Query(i) \in Packet
  BY QueryIs
<1>3. ASSUME NEW from \in Int, NEW to \in Int
      PROVE  QueriesDown(from, to) \in Seq(Packet)
  <2>1. CASE from - to \in Nat
    <3>1. \A i \in 1 .. from - to : Query(NKeysDp + from - i) \in Packet
      BY <1>2, SizesAre
    <3> QED BY <2>1, <3>1 DEF QueriesDown
  <2>2. CASE from - to \notin Nat
    <3>1. 1 .. from - to = {}
      BY <2>2
    <3>2. QueriesDown(from, to) = [i \in 1 .. 0 |-> Query(NKeysDp + from - i)]
      BY <3>1 DEF QueriesDown
    <3> QED BY <3>2
  <2> QED BY <2>1, <2>2
<1>4. ASSUME NEW from \in Int, NEW to \in Int
      PROVE  QueriesUp(from, to) \in Seq(Packet)
  <2>1. CASE to - from \in Nat
    <3>1. \A i \in 1 .. to - from : Query(from + i - 1) \in Packet
      BY <1>2
    <3> QED BY <2>1, <3>1 DEF QueriesUp
  <2>2. CASE to - from \notin Nat
    <3>1. 1 .. to - from = {}
      BY <2>2
    <3>2. QueriesUp(from, to) = [i \in 1 .. 0 |-> Query(from + i - 1)]
      BY <3>1 DEF QueriesUp
    <3> QED BY <3>2
  <2> QED BY <2>1, <2>2
<1>5. ASSUME NEW s \in Seq(Packet) PROVE Notify(s) \in Seq(Packet)
  <2> DEFINE t(i) == [s[i] EXCEPT !.last = (i = Len(s))]
  <2>1. ASSUME NEW i \in 1 .. Len(s) PROVE t(i) \in Packet
    <3>1. s[i] \in Packet
      OBVIOUS
    <3> QED BY <3>1, AlteredLast DEF Packet
  <2>2. Notify(s) = [i \in 1 .. Len(s) |-> t(i)]
    BY DEF Notify
  <2> QED BY <2>1, <2>2
<1>6. \A k \in Nat : Collects(k) \in Seq(Packet)
  BY <1>1 DEF Collects
<1>7. ASSUME NEW k \in Nat \ {0} PROVE StartCollects(k) \in Seq(Packet)
  <2>1. [Collect EXCEPT !.start = TRUE] \in Packet
    BY CollectIs DEF Packet
  <2>2. Collects(k - 1) \in Seq(Packet)
    BY <1>6
  <2> QED BY <2>1, <2>2 DEF StartCollects
<1> QED BY <1>1, <1>2, <1>3, <1>4, <1>5, <1>6, <1>7

(* What the switch takes from either queue, and what is left.              *)
LEMMA Served ==
  ASSUME NEW S, NEW s \in Seq(S), s # <<>>
  PROVE  /\ Head(s) \in S /\ Head(s) = s[1]
         /\ Tail(s) \in Seq(S) /\ Len(s) \in Nat /\ Len(s) > 0 /\ Len(Tail(s)) = Len(s) - 1
         /\ \A i \in 1 .. Len(s) - 1 : Tail(s)[i] = s[i + 1]
  OBVIOUS

-----------------------------------------------------------------------------
(***************************************************************************)
(* Types, and what each action does to the fields of the records.          *)
(***************************************************************************)

(* The types of the fields.                                                *)
LEMMA FieldsTyped ==
  ASSUME CollectionTyped
  PROVE  /\ register.stored \in Seq(Int) /\ register.cell \in 0 .. N
         /\ register.dirty \subseteq Cells /\ register.msn \in Nat
         /\ main.round \in Nat /\ main.rem \in Int /\ main.next \in Int /\ main.barrier \in Int
         /\ main.nKeys \in Int /\ main.pc \in {"init", "injected", "wait", "done", "thrown"}
         /\ qp.recvs \in Nat /\ qp.completions \in Seq(Int)
  BY DEF CollectionTyped, Register, QueuePair, Locals

(* The constants stay.                                                     *)
LEMMA SetupStays ==
  ASSUME setup' = setup
  PROVE  /\ nKey' = nKey /\ Room' = Room /\ nInject' = nInject
         /\ Stored' = Stored /\ Queried' = Queried /\ Is(Rdma)' = Is(Rdma)
         /\ \A names : Is(names)' = Is(names)
         /\ \A p : IsQueryOf(p)' = IsQueryOf(p)
         /\ \A p, i : IsQuery(p, i)' = IsQuery(p, i)
         /\ \A k : Final(k)' = Final(k)
         /\ \A s, q : Awaited(s, q)' = Awaited(s, q)
         /\ \A n : Asked(n)' = Asked(n)
         /\ TooMany' = TooMany
  BY DEF nKey, Room, nInject, Smaller, Stored, Queried, Is, IsQueryOf, IsQuery, Final, Awaited,
         Asked, TooMany

(* The host begins a collection with the requests reqs.                    *)
LEMMA BeginIs ==
  ASSUME CollectionTyped, NEW reqs \in Seq(Packet), NEW rem \in Int, NEW barrier \in Nat,
         Begin(reqs, rem, barrier)
  PROVE  /\ CollectionTyped'
         /\ main.pc = "injected" /\ main'.pc = "wait"
         /\ main'.rem = rem /\ main'.next = NextInject(rem) /\ main'.barrier = barrier
         /\ Is(Rdma) => qp'.recvs = qp.recvs + barrier /\ qp'.completions = qp.completions
         /\ requests' = requests \o reqs /\ got' = <<>>
         /\ UNCHANGED <<setup, register, mirrored, answers>>
<1>1. /\ main.pc = "injected" /\ requests' = requests \o reqs
      /\ main' = [main EXCEPT !.pc = "wait", !.rem = rem, !.next = NextInject(rem),
                              !.barrier = barrier, !.nKeys = 0]
      /\ qp' = IF Is(Rdma) THEN [qp EXCEPT !.recvs = qp.recvs + barrier] ELSE qp
      /\ got' = <<>> /\ UNCHANGED <<setup, register, mirrored, answers>>
  BY DEF Begin
<1>2. NextInject(rem) \in Int
  BY SizesAre DEF NextInject, CollectionTyped
<1>3. /\ main' \in Locals
      /\ main'.pc = "wait" /\ main'.rem = rem /\ main'.next = NextInject(rem)
      /\ main'.barrier = barrier
  <2> DEFINE wait == "wait"
             zero == 0
             next == NextInject(rem)
  <2>1. /\ wait \in {"init", "injected", "wait", "done", "thrown"} /\ zero \in Int /\ next \in Int
        /\ main \in Locals /\ barrier \in Int
        /\ main' = [main EXCEPT !.pc = wait, !.rem = rem, !.next = next, !.barrier = barrier,
                                !.nKeys = zero]
    BY <1>1, <1>2 DEF CollectionTyped
  <2> HIDE DEF wait, zero, next
  <2>2. /\ main' \in Locals
        /\ main'.pc = wait /\ main'.rem = rem /\ main'.next = next /\ main'.barrier = barrier
    BY <2>1 DEF Locals
  <2> QED BY <2>2 DEF wait, next
<1>4. /\ qp' \in QueuePair
      /\ Is(Rdma) => qp'.recvs = qp.recvs + barrier /\ qp'.completions = qp.completions
  <2> DEFINE recvs == qp.recvs + barrier
  <2>1. recvs \in Nat /\ qp \in QueuePair /\ qp' = IF Is(Rdma) THEN [qp EXCEPT !.recvs = recvs] ELSE qp
    <3>1. recvs \in Nat /\ qp \in QueuePair
      BY FieldsTyped, SMTT(30) DEF CollectionTyped
    <3> QED BY <1>1, <3>1
  <2> HIDE DEF recvs
  <2>2. /\ qp' \in QueuePair
        /\ Is(Rdma) => qp'.recvs = recvs /\ qp'.completions = qp.completions
    BY <2>1 DEF QueuePair
  <2> QED BY <2>2 DEF recvs
<1>5. requests' \in Seq(Packet)
  BY <1>1 DEF CollectionTyped
<1>6. got' \in Seq(Reply)
  BY <1>1
<1> QED BY <1>1, <1>3, <1>4, <1>5, <1>6 DEF CollectionTyped

(* The first keys of the input file, for an empty key buffer.              *)
FirstKeys(k) == [i \in 1 .. k |-> i - 1]

(* The trace is replayed, and the registers of the scheme are set.         *)
LEMMA InjectIs ==
  ASSUME CollectionTyped, InjectTrace
  PROVE  /\ CollectionTyped'
         /\ main.pc \in {"init", "done"} /\ main'.pc = "injected" /\ requests = <<>>
         /\ Is({"ow", "ow-rdma"}) /\ register.stored = <<>> => register'.stored = FirstKeys(Room)
         /\ register'.dirty = Cells /\ register'.cell = register.cell /\ register'.msn = 0
         /\ UNCHANGED <<setup, requests, mirrored, answers, qp, got>>
<1>0. setup \in Setups
  BY DEF CollectionTyped
<1> DEFINE room == NKeysDp - Len(register.stored)
           k == Smaller(room, nKey)
           s == IF Is({"ow", "ow-rdma"}) THEN register.stored \o FirstKeys(k) ELSE register.stored
<1>1. /\ main.pc \in {"init", "done"} /\ requests = <<>>
      /\ register' = [register EXCEPT !.stored = s, !.dirty = Cells, !.msn = 0]
      /\ main' = [main EXCEPT !.pc = "injected", !.round = @ + 1]
      /\ UNCHANGED <<setup, requests, mirrored, answers, qp, got>>
  BY DEF InjectTrace, FirstKeys
<1>2. FirstKeys(k) \in Seq(Int)
  <2>1. k \in Int
    BY <1>0, SizesAre, FieldsTyped, SMTT(30) DEF Smaller
  <2> HIDE DEF k
  <2>2. CASE k \in Nat
    BY <2>2 DEF FirstKeys
  <2>3. CASE k \notin Nat
    <3>1. 1 .. k = {}
      BY <2>1, <2>3
    <3>2. FirstKeys(k) = [i \in 1 .. 0 |-> i - 1]
      BY <3>1 DEF FirstKeys
    <3> QED BY <3>2
  <2> QED BY <2>2, <2>3
<1>3. s \in Seq(Int)
  BY <1>2, FieldsTyped
<1>4. Is({"ow", "ow-rdma"}) /\ register.stored = <<>> => s = FirstKeys(Room)
  <2>1. register.stored = <<>> => k = Room
    BY <1>0, SizesAre DEF Room, Smaller
  <2>2. \A t \in Seq(Int) : <<>> \o t = t
    OBVIOUS
  <2> QED BY <1>2, <2>1, <2>2
<1> HIDE DEF s
<1>5. /\ register' \in Register /\ register'.stored = s
      /\ register'.dirty = Cells /\ register'.msn = 0 /\ register'.cell = register.cell
  <2> DEFINE zero == 0
             cells == Cells
  <2>1. /\ s \in Seq(Int) /\ zero \in Nat /\ cells \in SUBSET Cells /\ register \in Register
        /\ register' = [register EXCEPT !.stored = s, !.dirty = cells, !.msn = zero]
    BY <1>1, <1>3 DEF CollectionTyped
  <2> HIDE DEF zero, cells
  <2>2. /\ register' \in Register /\ register'.stored = s
        /\ register'.dirty = cells /\ register'.msn = zero /\ register'.cell = register.cell
    BY <2>1 DEF Register
  <2> QED BY <2>2 DEF zero, cells
<1>6. main' \in Locals /\ main'.pc = "injected"
  <2> DEFINE next == main.round + 1
  <2>1. next \in Nat /\ main \in Locals /\ main' = [main EXCEPT !.pc = "injected", !.round = next]
    BY <1>1, FieldsTyped DEF CollectionTyped
  <2> HIDE DEF next
  <2> QED BY <2>1 DEF Locals
<1> QED BY <1>1, <1>4, <1>5, <1>6 DEF CollectionTyped

(* An answer is appended, or not.                                          *)
LEMMA AnswerIs ==
  ASSUME CollectionTyped, NEW key \in Int, NEW idx \in Int, NEW last \in BOOLEAN
  PROVE  /\ Answer(key, idx, last) = Append(answers, [key |-> key, idx |-> idx, last |-> last])
         /\ Answer(key, idx, last) \in Seq(Reply)
  BY DEF Answer, Reply, CollectionTyped

(* ow, ow-rdma: a packet takes a stored key, or its key is answered.       *)
LEMMA OwEgressIs ==
  ASSUME CollectionTyped, NEW p \in Packet, NEW rest \in Seq(Packet), OwEgress(p, rest),
         UNCHANGED <<setup, main, qp, got>>, requests' \in Seq(Packet)
  PROVE  /\ CollectionTyped'
         /\ IF p.key = NoKey
            THEN answers' = answers /\ register'.msn = register.msn
            ELSE /\ answers' = Append(answers, [key |-> p.key, idx |-> IF Is(Rdma) THEN register.msn ELSE p.idx,
                                                last |-> p.last])
                 /\ register'.msn = IF Is(Rdma) THEN register.msn + 1 ELSE register.msn
         /\ IF p.col /\ register.stored # <<>>
            THEN /\ register'.stored = Front(register.stored)
                 /\ \E q \in Packet :
                      /\ mirrored' = Append(rest, q)
                      /\ q.col /\ q.key = Last(register.stored) /\ q.idx = Len(register.stored) - 1
                      /\ (q.last <=> Len(register.stored) = 1)
            ELSE register'.stored = register.stored /\ mirrored' = rest
<1> DEFINE k == Last(register.stored)
           i == Len(register.stored) - 1
           b == (Len(register.stored) - 1 = 0)
           taken == [Collect EXCEPT !.key = k, !.idx = i, !.last = b]
           takes == p.col /\ register.stored # <<>>
           hasKey == p.key # NoKey
           stored == IF takes THEN Front(register.stored) ELSE register.stored
           msn == IF hasKey /\ Is(Rdma) THEN register.msn + 1 ELSE register.msn
           idx == IF Is(Rdma) THEN register.msn ELSE p.idx
<1>1. /\ answers' = IF ~hasKey THEN answers ELSE Answer(p.key, idx, p.last)
      /\ mirrored' = IF takes THEN Append(rest, taken) ELSE rest
      /\ register' = [register EXCEPT !.stored = stored, !.msn = msn]
  BY DEF OwEgress
<1>2. p.key \in Int /\ p.idx \in Int /\ p.last \in BOOLEAN
  BY DEF Packet
<1>3. ASSUME takes
      PROVE  /\ k \in Int /\ i \in Int /\ Front(register.stored) \in Seq(Int)
  BY <1>3, FieldsTyped, SMTT(30) DEF Last, Front
<1>4. ASSUME takes
      PROVE  /\ taken \in Packet /\ taken.col /\ taken.key = k /\ taken.idx = i /\ taken.last = b
  <2>1. k \in Int /\ i \in Int /\ b \in BOOLEAN /\ Collect \in Packet /\ Collect.col
    BY <1>3, <1>4, CollectIs
  <2> DEFINE c == Collect
             q == taken
  <2>2. q = [c EXCEPT !.key = k, !.idx = i, !.last = b] /\ c \in Packet /\ c.col
    BY <2>1
  <2> HIDE DEF k, i, b, c, q
  <2>3. q \in Packet /\ q.col /\ q.key = k /\ q.idx = i /\ q.last = b
    BY <2>1, <2>2 DEF Packet
  <2> QED BY <2>3 DEF q
<1>5. register' \in Register /\ register'.stored = stored /\ register'.msn = msn
  <2>1. stored \in Seq(Int) /\ msn \in Nat
    BY <1>3, FieldsTyped, SMTT(30)
  <2> HIDE DEF stored, msn
  <2>2. register \in Register
    BY DEF CollectionTyped
  <2> QED BY <1>1, <2>1, <2>2 DEF Register
<1>6. answers' \in Seq(Reply) /\ (hasKey => answers' = Append(answers, [key |-> p.key, idx |-> idx, last |-> p.last]))
  <2>1. idx \in Int
    BY <1>2, FieldsTyped
  <2> QED BY <1>1, <1>2, <2>1, AnswerIs DEF CollectionTyped
<1> HIDE DEF taken
<1>7. mirrored' \in Seq(Packet)
  BY <1>1, <1>4
<1>8. CollectionTyped'
  BY <1>5, <1>6, <1>7 DEF CollectionTyped
<1>9. takes => \E q \in Packet : /\ mirrored' = Append(rest, q)
                      /\ q.col /\ q.key = Last(register.stored) /\ q.idx = Len(register.stored) - 1
                      /\ (q.last <=> Len(register.stored) = 1)
  <2>1. b <=> Len(register.stored) = 1
    <3>1. Len(register.stored) \in Nat
      BY FieldsTyped
    <3> QED BY <3>1
  <2> QED BY <1>1, <1>4, <2>1
<1> QED BY <1>1, <1>5, <1>6, <1>8, <1>9

(* cpc, cpc-rdma: every request is answered.                               *)
LEMMA CpcEgressIs ==
  ASSUME CollectionTyped, NEW p \in Packet, NEW rest \in Seq(Packet), CpcEgress(p, rest),
         UNCHANGED <<setup, main, qp, got>>, requests' \in Seq(Packet)
  PROVE  /\ CollectionTyped'
         /\ answers' = Append(answers, [key |-> p.key, idx |-> p.idx, last |-> p.last])
         /\ mirrored' = rest
<1>1. p.key \in Int /\ p.idx \in Int /\ p.last \in BOOLEAN
  BY DEF Packet
<1> QED BY <1>1, AnswerIs DEF CpcEgress, CollectionTyped

(* dpc, dpc-rdma: a packet takes the next cell, if there is one.           *)
LEMMA DpcEgressIs ==
  ASSUME CollectionTyped, NEW p \in Packet, NEW rest \in Seq(Packet), DpcEgress(p, rest),
         UNCHANGED <<setup, main, qp, got>>, requests' \in Seq(Packet),
         NEW c, c = IF p.start THEN 0 ELSE register.cell
  PROVE  /\ CollectionTyped'
         /\ register'.cell = IF c = N THEN N ELSE c + 1
         /\ IF c = N
            THEN mirrored' = rest /\ answers' = answers
            ELSE /\ mirrored' = Append(rest, Collect)
                 /\ answers' = Append(answers, [key |-> NoKey, idx |-> c, last |-> (c = N - 1)])
<1>0. setup \in Setups
  BY DEF CollectionTyped
<1>1. c \in 0 .. N /\ N \in Nat /\ N > 1
  BY <1>0, SizesAre, FieldsTyped
<1> DEFINE next == IF p.start THEN 1 ELSE Smaller(register.cell + 1, N)
<1>2. next = (IF c = N THEN N ELSE c + 1) /\ next \in 0 .. N
  <2>1. register.cell \in 0 .. N /\ c = IF p.start THEN 0 ELSE register.cell
    BY FieldsTyped
  <2>2. Smaller(register.cell + 1, N) = IF register.cell + 1 < N THEN register.cell + 1 ELSE N
    BY DEF Smaller
  <2> QED BY <1>1, <2>1, <2>2
<1>3. /\ register' = [register EXCEPT !.cell = next]
      /\ IF c = N
         THEN mirrored' = rest /\ UNCHANGED answers
         ELSE answers' = Answer(NoKey, c, c = N - 1) /\ mirrored' = Append(rest, Collect)
  BY DEF DpcEgress
<1>4. register' \in Register /\ register'.cell = next
  <2>1. register \in Register
    BY DEF CollectionTyped
  <2> HIDE DEF next
  <2> QED BY <1>2, <1>3, <2>1 DEF Register
<1>5. mirrored' \in Seq(Packet)
  BY <1>3, CollectIs
<1>6. answers' \in Seq(Reply)
      /\ (c # N => answers' = Append(answers, [key |-> NoKey, idx |-> c, last |-> (c = N - 1)]))
  <2>1. NoKey \in Int /\ c \in Int /\ (c = N - 1) \in BOOLEAN
    BY <1>1 DEF NoKey
  <2> QED BY <1>3, <2>1, AnswerIs DEF CollectionTyped
<1> QED BY <1>2, <1>3, <1>4, <1>5, <1>6 DEF CollectionTyped

(* reset: a packet zeroes the next cell, and the one after the last answers. *)
LEMMA ResetEgressIs ==
  ASSUME CollectionTyped, NEW p \in Packet, NEW rest \in Seq(Packet), ResetEgress(p, rest),
         UNCHANGED <<setup, main, qp, got>>, requests' \in Seq(Packet),
         NEW c, c = IF p.start THEN 0 ELSE register.cell
  PROVE  /\ CollectionTyped'
         /\ register'.cell = IF p.start THEN 0 ELSE IF c = N THEN N ELSE c + 1
         /\ register'.dirty = register.dirty \ {c}
         /\ IF c = N THEN mirrored' = rest ELSE mirrored' = Append(rest, Collect)
         /\ IF c = N - 1 THEN answers' = Append(answers, [key |-> NoKey, idx |-> c, last |-> TRUE])
                         ELSE answers' = answers
<1>0. setup \in Setups
  BY DEF CollectionTyped
<1>1. c \in 0 .. N /\ N \in Nat /\ N > 1
  BY <1>0, SizesAre, FieldsTyped
<1> DEFINE next == IF p.start THEN 0 ELSE Smaller(register.cell + 1, N)
           dirty == register.dirty \ {c}
<1>2. next = (IF p.start THEN 0 ELSE IF c = N THEN N ELSE c + 1) /\ next \in 0 .. N
  <2>1. register.cell \in 0 .. N /\ c = IF p.start THEN 0 ELSE register.cell
    BY FieldsTyped
  <2>2. Smaller(register.cell + 1, N) = IF register.cell + 1 < N THEN register.cell + 1 ELSE N
    BY DEF Smaller
  <2> QED BY <1>1, <2>1, <2>2
<1>3. /\ register' = [register EXCEPT !.cell = next, !.dirty = dirty]
      /\ answers' = IF c = N - 1 THEN Answer(NoKey, c, TRUE) ELSE answers
      /\ mirrored' = IF c = N THEN rest ELSE Append(rest, Collect)
  BY DEF ResetEgress
<1>4. register' \in Register /\ register'.cell = next /\ register'.dirty = dirty
  <2>1. register \in Register /\ dirty \in SUBSET Cells
    BY FieldsTyped DEF CollectionTyped
  <2> HIDE DEF next, dirty
  <2> QED BY <1>2, <1>3, <2>1 DEF Register
<1>5. mirrored' \in Seq(Packet)
  BY <1>3, CollectIs
<1>6. answers' \in Seq(Reply)
      /\ (c = N - 1 => answers' = Append(answers, [key |-> NoKey, idx |-> c, last |-> TRUE]))
  <2>1. NoKey \in Int /\ c \in Int
    BY <1>1 DEF NoKey
  <2> QED BY <1>3, <2>1, AnswerIs DEF CollectionTyped
<1> QED BY <1>2, <1>3, <1>4, <1>5, <1>6 DEF CollectionTyped

(* The NIC stores an answer, and completes a receive if it is a last one.  *)
LEMMA NicWriteIs ==
  ASSUME CollectionTyped, NicWrite
  PROVE  /\ CollectionTyped' /\ Is(Rdma) /\ answers # <<>>
         /\ got' = Append(got, answers[1]) /\ answers' = Tail(answers)
         /\ IF answers[1].last
            THEN /\ qp.recvs > 0 /\ qp'.recvs = qp.recvs - 1
                 /\ qp'.completions = Append(qp.completions, answers[1].idx + 1)
            ELSE qp' = qp
         /\ UNCHANGED <<setup, register, requests, mirrored, main>>
<1> DEFINE a == answers[1]
           recvs == qp.recvs - 1
           completions == Append(qp.completions, a.idx + 1)
<1>1. answers # <<>> /\ Head(answers) = a /\ a \in Reply /\ Tail(answers) \in Seq(Reply)
  BY DEF NicWrite, CollectionTyped
<1>2. /\ Is(Rdma) /\ (a.last => qp.recvs > 0)
      /\ qp' = IF a.last THEN [recvs |-> recvs, completions |-> completions] ELSE qp
      /\ got' = Append(got, a) /\ answers' = Tail(answers)
      /\ UNCHANGED <<setup, register, requests, mirrored, main>>
  BY <1>1 DEF NicWrite
<1>3. a.idx \in Int /\ qp \in QueuePair
  BY <1>1 DEF Reply, CollectionTyped
<1>4. a.last => recvs \in Nat /\ completions \in Seq(Int)
  <2>1. qp.recvs \in Nat /\ qp.completions \in Seq(Int) /\ a.idx + 1 \in Int
    BY <1>3, FieldsTyped
  <2> QED BY <1>2, <2>1
<1> HIDE DEF recvs, completions, a
<1>5. qp' \in QueuePair /\ (a.last => qp'.recvs = recvs /\ qp'.completions = completions)
  BY <1>2, <1>3, <1>4 DEF QueuePair
<1>6. got' \in Seq(Reply) /\ answers' \in Seq(Reply)
  BY <1>1, <1>2 DEF CollectionTyped
<1>7. CollectionTyped'
  BY <1>2, <1>5, <1>6 DEF CollectionTyped
<1> QED BY <1>1, <1>2, <1>5, <1>7 DEF recvs, completions, a

(* The host takes a completion.                                            *)
LEMMA PollCQIs ==
  ASSUME CollectionTyped, PollCQ
  PROVE  /\ CollectionTyped' /\ main.pc = "wait" /\ qp.completions # <<>>
         /\ qp'.recvs = qp.recvs /\ qp'.completions = Tail(qp.completions)
         /\ main'.barrier = main.barrier - 1 /\ main'.nKeys = qp.completions[1]
         /\ main'.pc = IF main.barrier = 1 THEN "done" ELSE "wait"
         /\ main'.rem = main.rem /\ main'.next = main.next
         /\ UNCHANGED <<setup, register, requests, mirrored, answers, got>>
<1> DEFINE barrier == main.barrier - 1
           nKeys == qp.completions[1]
           pc == IF main.barrier = 1 THEN "done" ELSE main.pc
           rest == Tail(qp.completions)
<1>1. /\ main.pc = "wait" /\ qp.completions # <<>>
      /\ UNCHANGED <<setup, register, requests, mirrored, answers, got>>
  BY DEF PollCQ
<1>2. nKeys \in Int /\ rest \in Seq(Int) /\ Head(qp.completions) = nKeys /\ barrier \in Int
      /\ pc \in {"init", "injected", "wait", "done", "thrown"}
  BY <1>1, FieldsTyped
<1>3. /\ qp' = [qp EXCEPT !.completions = rest]
      /\ main' = [main EXCEPT !.barrier = barrier, !.nKeys = nKeys, !.pc = pc]
  BY <1>2 DEF PollCQ
<1>4. qp \in QueuePair /\ main \in Locals
  BY DEF CollectionTyped
<1>5. pc = IF main.barrier = 1 THEN "done" ELSE "wait"
  BY <1>1
<1> HIDE DEF barrier, nKeys, pc, rest
<1>6. qp' \in QueuePair /\ qp'.recvs = qp.recvs /\ qp'.completions = rest
  BY <1>2, <1>3, <1>4 DEF QueuePair
<1>7. main' \in Locals /\ main'.barrier = barrier /\ main'.nKeys = nKeys /\ main'.pc = pc
      /\ main'.rem = main.rem /\ main'.next = main.next
  BY <1>2, <1>3, <1>4 DEF Locals
<1> QED BY <1>1, <1>5, <1>6, <1>7 DEF CollectionTyped, barrier, nKeys, rest

(* The host takes an answer.                                               *)
LEMMA RecvIs ==
  ASSUME CollectionTyped, NEW a, Recv(a)
  PROVE  /\ main.pc = "wait" /\ ~Is(Rdma) /\ answers # <<>> /\ a = answers[1] /\ a \in Reply
         /\ answers' = Tail(answers) /\ got' = Append(got, a)
         /\ answers' \in Seq(Reply) /\ got' \in Seq(Reply)
         /\ UNCHANGED <<setup, register, mirrored, qp>>
<1>1. answers \in Seq(Reply) /\ got \in Seq(Reply) /\ answers # <<>>
  BY DEF Recv, CollectionTyped
<1>2. Head(answers) = answers[1] /\ answers[1] \in Reply /\ Tail(answers) \in Seq(Reply)
  BY <1>1
<1> QED BY <1>1, <1>2 DEF Recv

(* Only main.pc is set.                                                    *)
LEMMA PcSet ==
  ASSUME CollectionTyped, NEW pc \in {"wait", "done", "thrown"}, main' = [main EXCEPT !.pc = pc]
  PROVE  /\ main' \in Locals /\ main'.pc = pc /\ main'.barrier = main.barrier
         /\ main'.rem = main.rem /\ main'.next = main.next
<1>1. main \in Locals /\ pc \in {"init", "injected", "wait", "done", "thrown"}
  BY DEF CollectionTyped
<1> QED BY <1>1 DEF Locals

(* ow: it counts down what it waits for and sends the next batch.          *)
LEMMA RecvOwIs ==
  ASSUME CollectionTyped, NEW a, RecvOw(a),
         NEW rem, rem = IF a.idx = main.next THEN main.rem - Smaller(M, main.rem) ELSE main.rem
  PROVE  /\ CollectionTyped' /\ Is({"ow"}) /\ Recv(a) /\ rem \in Int
         /\ requests' = requests \o QueriesDown(main.rem, rem)
         /\ main'.rem = rem
         /\ main'.next = IF a.idx = main.next THEN NextInject(rem) ELSE main.next
         /\ main'.barrier = IF a.idx \in {0, NKeysDp} THEN main.barrier - 1 ELSE main.barrier
         /\ main'.pc = IF a.idx \in {0, NKeysDp} /\ main.barrier = 1 THEN "done" ELSE "wait"
<1> DEFINE next == IF a.idx = main.next THEN NextInject(rem) ELSE main.next
           barrier == IF a.idx \in {0, NKeysDp} THEN main.barrier - 1 ELSE main.barrier
           pc == IF a.idx \in {0, NKeysDp} /\ main.barrier = 1 THEN "done" ELSE main.pc
<1>0. setup \in Setups
  BY DEF CollectionTyped
<1>1. Is({"ow"}) /\ Recv(a) /\ requests' = requests \o QueriesDown(main.rem, rem)
  BY DEF RecvOw
<1>2. main' = [main EXCEPT !.rem = rem, !.next = next, !.barrier = barrier, !.pc = pc]
  BY DEF RecvOw
<1>3. rem \in Int
  BY <1>0, SizesAre, FieldsTyped DEF Smaller
<1>4. next \in Int
  BY <1>0, <1>3, SizesAre, FieldsTyped DEF NextInject
<1>5. /\ barrier \in Int /\ pc \in {"init", "injected", "wait", "done", "thrown"}
      /\ pc = IF a.idx \in {0, NKeysDp} /\ main.barrier = 1 THEN "done" ELSE "wait"
  BY <1>1, RecvIs, FieldsTyped
<1>6. main \in Locals
  BY DEF CollectionTyped
<1>7. requests' \in Seq(Packet)
  <2>1. QueriesDown(main.rem, rem) \in Seq(Packet)
    BY <1>0, <1>3, RequestsTyped, FieldsTyped
  <2> QED BY <1>1, <2>1 DEF CollectionTyped
<1> HIDE DEF next, barrier, pc
<1>8. main' \in Locals /\ main'.rem = rem /\ main'.next = next /\ main'.barrier = barrier /\ main'.pc = pc
  BY <1>2, <1>3, <1>4, <1>5, <1>6 DEF Locals
<1>9. CollectionTyped'
  BY <1>1, <1>7, <1>8, RecvIs DEF CollectionTyped
<1> QED BY <1>1, <1>3, <1>5, <1>8, <1>9 DEF next, barrier

(* cpc: it checks the key, ends with the last, sends the next batch.       *)
LEMMA RecvCpcIs ==
  ASSUME CollectionTyped, NEW a, RecvCpc(a),
         NEW n, n = Len(got) + 1, NEW b, b = M * ((n - 1) \div M)
  PROVE  /\ CollectionTyped' /\ Is({"cpc"}) /\ Recv(a)
         /\ IF a.key # n - 1
            THEN main'.pc = "thrown" /\ requests' = requests
            ELSE /\ requests' = IF (n % M = 0 \/ n = nKey) /\ b + 2 * M < nKey
                                THEN requests \o QueriesUp(b + 2 * M, Smaller(b + 3 * M, nKey))
                                ELSE requests
                 /\ main'.pc = IF n = nKey THEN "done" ELSE "wait"
<1>0. setup \in Setups
  BY DEF CollectionTyped
<1> DEFINE pc == IF a.key # n - 1 THEN "thrown" ELSE IF n = nKey THEN "done" ELSE "wait"
<1>1. Is({"cpc"}) /\ Recv(a) /\ main.pc = "wait"
  BY RecvIs DEF RecvCpc
<1>2. /\ main' = [main EXCEPT !.pc = pc]
      /\ requests' = IF a.key = n - 1 /\ (n % M = 0 \/ n = nKey) /\ b + 2 * M < nKey
                     THEN requests \o QueriesUp(b + 2 * M, Smaller(b + 3 * M, nKey))
                     ELSE requests
  BY <1>1 DEF RecvCpc
<1>3. main' \in Locals /\ main'.pc = pc
  BY <1>2, PcSet
<1>4. requests' \in Seq(Packet)
  <2>1. n \in Nat
    BY DEF CollectionTyped
  <2>2. b + 2 * M \in Int /\ b + 3 * M \in Int
    BY <1>0, <2>1, SizesAre, SMTT(30)
  <2>3. Smaller(b + 3 * M, nKey) \in Int
    BY <1>0, <2>2, SizesAre DEF Smaller
  <2>4. QueriesUp(b + 2 * M, Smaller(b + 3 * M, nKey)) \in Seq(Packet)
    BY <1>0, <2>2, <2>3, RequestsTyped
  <2> QED BY <1>2, <2>4 DEF CollectionTyped
<1>5. CollectionTyped'
  BY <1>1, <1>3, <1>4, RecvIs DEF CollectionTyped
<1> QED BY <1>1, <1>2, <1>3, <1>5

(* dpc: it checks the number of the cell and ends with the last.           *)
LEMMA RecvDpcIs ==
  ASSUME CollectionTyped, NEW a, RecvDpc(a)
  PROVE  /\ CollectionTyped' /\ Is({"dpc"}) /\ Recv(a) /\ requests' = requests
         /\ main'.pc = IF a.idx # Len(got) THEN "thrown" ELSE IF Len(got) = N - 1 THEN "done" ELSE "wait"
<1> DEFINE pc == IF a.idx # Len(got) THEN "thrown" ELSE IF Len(got) = N - 1 THEN "done" ELSE "wait"
<1>1. Is({"dpc"}) /\ Recv(a) /\ requests' = requests /\ main.pc = "wait"
  BY RecvIs DEF RecvDpc
<1>2. main' = [main EXCEPT !.pc = pc]
  BY <1>1 DEF RecvDpc
<1>3. main' \in Locals /\ main'.pc = pc
  BY <1>2, PcSet
<1> QED BY <1>1, <1>3, RecvIs DEF CollectionTyped

(* reset: any answer ends it.                                              *)
LEMMA RecvResetIs ==
  ASSUME CollectionTyped, NEW a, RecvReset(a)
  PROVE  /\ CollectionTyped' /\ Is({"reset"}) /\ Recv(a) /\ requests' = requests
         /\ main'.pc = "done"
<1>1. Is({"reset"}) /\ Recv(a) /\ requests' = requests
  BY DEF RecvReset
<1>2. main' \in Locals /\ main'.pc = "done"
  BY PcSet DEF RecvReset
<1> QED BY <1>1, <1>2, RecvIs DEF CollectionTyped

-----------------------------------------------------------------------------
(***************************************************************************)
(* Sequences that carry keys in turn.                                      *)
(***************************************************************************)

IsNone(k, turns) == \A t \in DOMAIN turns : turns[t] # k

(* A sequence without any key of turns.                                    *)
LEMMA CarriesNothing ==
  ASSUME NEW S, NEW s \in Seq(S), NEW turns \in Seq(Int), NEW a \in 0 .. Len(turns),
         \A i \in DOMAIN s : IsNone(s[i].key, turns)
  PROVE  Carries(s, turns, a, a)
<1>1. a + 1 .. a = {} /\ Len(turns) \in Nat
  OBVIOUS
<1> QED BY <1>1 DEF Carries, IsNone

(* A key joins at the end.                                                 *)
LEMMA CarriesAppend ==
  ASSUME NEW S, NEW s \in Seq(S), NEW e \in S, NEW turns \in Seq(Int), IsInjective(turns),
         NEW a \in Nat, NEW b \in Nat, Carries(s, turns, a, b)
  PROVE  /\ b < Len(turns) /\ e.key = turns[b + 1] => Carries(Append(s, e), turns, a, b + 1)
         /\ IsNone(e.key, turns) => Carries(Append(s, e), turns, a, b)
<1> DEFINE z == Append(s, e)
<1>1. /\ DOMAIN s = 1 .. Len(s) /\ DOMAIN z = 1 .. Len(s) + 1 /\ Len(s) \in Nat
      /\ \A i \in DOMAIN s : z[i] = s[i]
      /\ z[Len(s) + 1] = e
      /\ DOMAIN turns = 1 .. Len(turns) /\ Len(turns) \in Nat
  OBVIOUS
<1> HIDE DEF z
<1>2. ASSUME b < Len(turns), e.key = turns[b + 1]
      PROVE  Carries(z, turns, a, b + 1)
  <2>0. b + 1 \in DOMAIN turns
    BY <1>1, <1>2
  <2>1. ASSUME NEW i \in DOMAIN z, NEW t \in DOMAIN turns, z[i].key = turns[t]
        PROVE  t \in a + 1 .. b + 1 /\ (i = Len(s) + 1 => t = b + 1) /\ (i # Len(s) + 1 => t \in a + 1 .. b)
    <3>1. CASE i = Len(s) + 1
      <4>1. t = b + 1
        BY <1>1, <1>2, <2>0, <2>1, <3>1 DEF IsInjective
      <4> QED BY <3>1, <4>1 DEF Carries
    <3>2. CASE i # Len(s) + 1
      <4>1. i \in DOMAIN s /\ z[i] = s[i]
        BY <1>1, <3>2
      <4>2. t \in a + 1 .. b
        BY <2>1, <4>1 DEF Carries
      <4> QED BY <3>2, <4>2
    <3> QED BY <3>1, <3>2
  <2>2. ASSUME NEW t \in a + 1 .. b + 1 PROVE \E i \in DOMAIN z : z[i].key = turns[t]
    <3>1. CASE t = b + 1
      BY <1>1, <1>2, <3>1, SMTT(30)
    <3>2. CASE t # b + 1
      <4>1. t \in a + 1 .. b
        BY <3>2
      <4>2. PICK i \in DOMAIN s : s[i].key = turns[t]
        BY <4>1 DEF Carries
      <4> QED BY <1>1, <4>2
    <3> QED BY <3>1, <3>2
  <2>3. ASSUME NEW i \in DOMAIN z, NEW j \in DOMAIN z, NEW t \in DOMAIN turns, NEW u \in DOMAIN turns,
               i < j, z[i].key = turns[t], z[j].key = turns[u]
        PROVE  t < u
    <3>1. i \in DOMAIN s /\ z[i] = s[i] /\ i # Len(s) + 1
      BY <1>1, <2>3
    <3>2. t \in a + 1 .. b
      BY <2>1, <2>3, <3>1
    <3>3. CASE j = Len(s) + 1
      BY <2>1, <2>3, <3>2, <3>3
    <3>4. CASE j # Len(s) + 1
      <4>1. j \in DOMAIN s /\ z[j] = s[j]
        BY <1>1, <3>4
      <4> QED BY <2>3, <3>1, <4>1 DEF Carries
    <3> QED BY <3>3, <3>4
  <2>4. a <= b + 1 /\ b + 1 <= Len(turns)
    BY <1>1, <1>2 DEF Carries
  <2> QED BY <2>1, <2>2, <2>3, <2>4 DEF Carries
<1>3. ASSUME IsNone(e.key, turns)
      PROVE  Carries(z, turns, a, b)
  <2>1. ASSUME NEW i \in DOMAIN z, NEW t \in DOMAIN turns, z[i].key = turns[t]
        PROVE  i \in DOMAIN s /\ z[i] = s[i]
    BY <1>1, <1>3, <2>1 DEF IsNone
  <2>2. \A t \in a + 1 .. b : \E i \in DOMAIN z : z[i].key = turns[t]
    <3> SUFFICES ASSUME NEW t \in a + 1 .. b PROVE \E i \in DOMAIN z : z[i].key = turns[t]
      OBVIOUS
    <3>1. PICK i \in DOMAIN s : s[i].key = turns[t]
      BY DEF Carries
    <3> QED BY <1>1, <3>1
  <2> QED BY <2>1, <2>2 DEF Carries
<1> QED BY <1>2, <1>3 DEF z

(* The first one leaves.                                                   *)
LEMMA CarriesTail ==
  ASSUME NEW S, NEW s \in Seq(S), s # <<>>, NEW turns \in Seq(Int), IsInjective(turns),
         NEW a \in Nat, NEW b \in Nat, Carries(s, turns, a, b)
  PROVE  /\ ~IsNone(s[1].key, turns) =>
              a < b /\ a + 1 \in DOMAIN turns /\ s[1].key = turns[a + 1] /\ Carries(Tail(s), turns, a + 1, b)
         /\ IsNone(s[1].key, turns) => Carries(Tail(s), turns, a, b)
<1> DEFINE z == Tail(s)
<1>1. /\ DOMAIN s = 1 .. Len(s) /\ DOMAIN z = 1 .. Len(s) - 1 /\ Len(s) \in Nat /\ Len(s) > 0
      /\ \A i \in DOMAIN z : z[i] = s[i + 1] /\ i + 1 \in DOMAIN s
      /\ \A i \in DOMAIN s : i # 1 => i - 1 \in DOMAIN z /\ z[i - 1] = s[i]
      /\ DOMAIN turns = 1 .. Len(turns) /\ Len(turns) \in Nat
  OBVIOUS
<1> HIDE DEF z
<1>2. ASSUME NEW i \in DOMAIN z, NEW j \in DOMAIN z, NEW t \in DOMAIN turns, NEW u \in DOMAIN turns,
             i < j, z[i].key = turns[t], z[j].key = turns[u]
      PROVE  t < u
  <2>1. i + 1 \in DOMAIN s /\ j + 1 \in DOMAIN s /\ i + 1 < j + 1
        /\ s[i + 1].key = turns[t] /\ s[j + 1].key = turns[u]
    BY <1>1, <1>2
  <2> QED BY <2>1 DEF Carries
<1>3. ASSUME ~IsNone(s[1].key, turns)
      PROVE  a < b /\ a + 1 \in DOMAIN turns /\ s[1].key = turns[a + 1] /\ Carries(z, turns, a + 1, b)
  <2>1. PICK t \in DOMAIN turns : turns[t] = s[1].key
    BY <1>3 DEF IsNone
  <2>2. 1 \in DOMAIN s /\ t \in a + 1 .. b
    <3>1. 1 \in DOMAIN s
      BY <1>1
    <3> QED BY <2>1, <3>1 DEF Carries
  <2>3. a < b /\ a + 1 \in a + 1 .. b /\ b <= Len(turns)
    BY <2>2 DEF Carries
  <2>4. a + 1 \in DOMAIN turns
    BY <1>1, <2>3
  <2>5. PICK i \in DOMAIN s : s[i].key = turns[a + 1]
    BY <2>3 DEF Carries
  <2>6. t = a + 1
    <3>1. CASE i = 1
      BY <2>1, <2>4, <2>5, <3>1 DEF IsInjective
    <3>2. CASE i # 1
      <4>1. 1 < i
        BY <1>1, <3>2
      <4>2. t < a + 1
        BY <2>1, <2>2, <2>4, <2>5, <4>1 DEF Carries
      <4> QED BY <2>2, <4>2
    <3> QED BY <3>1, <3>2
  <2>7. ASSUME NEW j \in DOMAIN z, NEW u \in DOMAIN turns, z[j].key = turns[u]
        PROVE  u \in (a + 1) + 1 .. b
    <3>1. j + 1 \in DOMAIN s /\ s[j + 1].key = turns[u] /\ 1 < j + 1
      BY <1>1, <2>7
    <3>2. u \in a + 1 .. b /\ t < u
      BY <2>1, <2>2, <3>1 DEF Carries
    <3> QED BY <2>6, <3>2
  <2>8. ASSUME NEW u \in (a + 1) + 1 .. b
        PROVE  \E j \in DOMAIN z : z[j].key = turns[u]
    <3>1. u \in a + 1 .. b /\ u # a + 1
      OBVIOUS
    <3>2. PICK j \in DOMAIN s : s[j].key = turns[u]
      BY <3>1 DEF Carries
    <3>3. u \in DOMAIN turns
      BY <1>1, <2>3, <3>1
    <3>4. j # 1
      BY <2>1, <2>6, <3>1, <3>2, <3>3 DEF IsInjective
    <3> QED BY <1>1, <3>2, <3>4
  <2>9. a + 1 <= b /\ a + 1 \in Nat
    BY <2>3
  <2>10. Carries(z, turns, a + 1, b)
    BY <1>2, <2>3, <2>7, <2>8, <2>9 DEF Carries
  <2> QED BY <2>1, <2>3, <2>4, <2>6, <2>10
<1>4. ASSUME IsNone(s[1].key, turns) PROVE Carries(z, turns, a, b)
  <2>1. ASSUME NEW j \in DOMAIN z, NEW u \in DOMAIN turns, z[j].key = turns[u]
        PROVE  u \in a + 1 .. b
    <3>1. j + 1 \in DOMAIN s /\ s[j + 1].key = turns[u]
      BY <1>1, <2>1
    <3> QED BY <3>1 DEF Carries
  <2>2. ASSUME NEW u \in a + 1 .. b
        PROVE  \E j \in DOMAIN z : z[j].key = turns[u]
    <3>1. PICK j \in DOMAIN s : s[j].key = turns[u]
      BY DEF Carries
    <3>2. u \in DOMAIN turns
      BY <1>1 DEF Carries
    <3>3. j # 1
      BY <1>4, <3>1, <3>2 DEF IsNone
    <3> QED BY <1>1, <3>1, <3>3
  <2>3. a <= b /\ b <= Len(turns)
    BY DEF Carries
  <2> QED BY <1>2, <2>1, <2>2, <2>3 DEF Carries
<1> QED BY <1>3, <1>4 DEF z

(* More of them join, in turn.                                             *)
LEMMA CarriesConcat ==
  ASSUME NEW S, NEW s \in Seq(S), NEW z \in Seq(S), NEW turns \in Seq(Int), IsInjective(turns),
         NEW a \in Nat, NEW b \in Nat, Carries(s, turns, a, b), b + Len(z) <= Len(turns),
         \A i \in DOMAIN z : z[i].key = turns[b + i]
  PROVE  Carries(s \o z, turns, a, b + Len(z))
<1> DEFINE y == s \o z
           n == Len(s)
           m == Len(z)
<1>1. /\ DOMAIN s = 1 .. n /\ DOMAIN z = 1 .. m /\ DOMAIN y = 1 .. n + m /\ n \in Nat /\ m \in Nat
      /\ \A i \in DOMAIN s : y[i] = s[i]
      /\ \A i \in DOMAIN z : y[n + i] = z[i]
      /\ DOMAIN turns = 1 .. Len(turns) /\ Len(turns) \in Nat
  BY SMTT(30)
<1>2. \A i \in DOMAIN y : i \in DOMAIN s \/ (i - n \in DOMAIN z /\ y[i] = z[i - n] /\ i > n)
  <2> SUFFICES ASSUME NEW i \in DOMAIN y, i \notin DOMAIN s
               PROVE  i - n \in DOMAIN z /\ y[i] = z[i - n] /\ i > n
    OBVIOUS
  <2>1. i > n /\ i - n \in 1 .. m /\ i = n + (i - n)
    BY <1>1
  <2> QED BY <1>1, <2>1
<1> HIDE DEF y, n, m
<1>3. \A i \in DOMAIN z : b + i \in DOMAIN turns
  BY <1>1 DEF m
<1>4. ASSUME NEW i \in DOMAIN y, NEW t \in DOMAIN turns, y[i].key = turns[t]
      PROVE  /\ t \in a + 1 .. b + m
             /\ i \in DOMAIN s => t \in a + 1 .. b
             /\ i \notin DOMAIN s => t = b + (i - n)
  <2>1. CASE i \in DOMAIN s
    <3>1. t \in a + 1 .. b
      BY <1>1, <1>4, <2>1 DEF Carries
    <3> QED BY <1>1, <2>1, <3>1
  <2>2. CASE i \notin DOMAIN s
    <3>1. i - n \in DOMAIN z /\ y[i] = z[i - n]
      BY <1>2, <2>2
    <3>2. turns[b + (i - n)] = turns[t] /\ b + (i - n) \in DOMAIN turns
      BY <1>3, <1>4, <3>1
    <3>3. t = b + (i - n)
      BY <3>2 DEF IsInjective
    <3>4. a <= b
      BY DEF Carries
    <3> QED BY <1>1, <2>2, <3>1, <3>3, <3>4, SMTT(30)
  <2> QED BY <2>1, <2>2
<1>5. ASSUME NEW t \in a + 1 .. b + m
      PROVE  \E i \in DOMAIN y : y[i].key = turns[t]
  <2>1. CASE t <= b
    <3>1. PICK i \in DOMAIN s : s[i].key = turns[t]
      BY <2>1 DEF Carries
    <3> QED BY <1>1, <3>1
  <2>2. CASE t > b
    <3>1. t - b \in DOMAIN z /\ t = b + (t - b)
      BY <1>1, <2>2
    <3>2. z[t - b].key = turns[t]
      BY <3>1
    <3> DEFINE j == t - b
    <3>3. j \in DOMAIN z /\ z[j].key = turns[t]
      BY <3>1, <3>2
    <3> HIDE DEF j
    <3>4. n + j \in DOMAIN y /\ y[n + j] = z[j]
      BY <1>1, <3>3, SMTT(30)
    <3> QED BY <3>3, <3>4
  <2> QED BY <2>1, <2>2
<1>6. ASSUME NEW i \in DOMAIN y, NEW j \in DOMAIN y, NEW t \in DOMAIN turns, NEW u \in DOMAIN turns,
             i < j, y[i].key = turns[t], y[j].key = turns[u]
      PROVE  t < u
  <2>1. CASE j \in DOMAIN s
    <3>1. i \in DOMAIN s
      BY <1>1, <1>6, <2>1
    <3> QED BY <1>1, <1>6, <2>1, <3>1 DEF Carries
  <2>2. CASE j \notin DOMAIN s /\ i \in DOMAIN s
    <3>1. t \in a + 1 .. b /\ u = b + (j - n) /\ j > n
      BY <1>2, <1>4, <1>6, <2>2
    <3> QED BY <1>1, <3>1
  <2>3. CASE j \notin DOMAIN s /\ i \notin DOMAIN s
    <3>1. t = b + (i - n) /\ u = b + (j - n)
      BY <1>4, <1>6, <2>3
    <3> QED BY <1>1, <1>6, <3>1
  <2> QED BY <2>1, <2>2, <2>3
<1>7. a <= b + m /\ b + m <= Len(turns) /\ b + m \in Nat
  BY <1>1 DEF Carries, m
<1>8. Carries(y, turns, a, b + m)
  BY <1>4, <1>5, <1>6, <1>7 DEF Carries
<1> QED BY <1>8 DEF y, m

(* There are as many of them as turns.                                     *)
LEMMA CarriesCount ==
  ASSUME NEW S, NEW s \in Seq(S), NEW turns \in Seq(Int), IsInjective(turns),
         NEW a \in Nat, NEW b \in Nat, Carries(s, turns, a, b),
         NEW I, I = {i \in DOMAIN s : ~IsNone(s[i].key, turns)}
  PROVE  IsFiniteSet(I) /\ Cardinality(I) = b - a
<1> DEFINE T == a + 1 .. b
           turn(i) == CHOOSE t \in DOMAIN turns : turns[t] = s[i].key
           f == [i \in I |-> turn(i)]
<1>1. \A i \in I : turn(i) \in DOMAIN turns /\ turns[turn(i)] = s[i].key /\ i \in DOMAIN s /\ i \in Nat
  BY DEF IsNone
<1>2. \A i \in I : turn(i) \in T
  BY <1>1 DEF Carries
<1> HIDE DEF turn
<1>3. f \in [I -> T]
  BY <1>2
<1>4. \A i, j \in I : f[i] = f[j] => i = j
  <2> SUFFICES ASSUME NEW i \in I, NEW j \in I, f[i] = f[j], i # j PROVE FALSE
    OBVIOUS
  <2>1. turn(i) = turn(j)
    OBVIOUS
  <2>2. CASE i < j
    <3>1. turn(i) < turn(j)
      BY <1>1, <2>2 DEF Carries
    <3>2. turn(i) \in T
      BY <1>2
    <3> QED BY <2>1, <3>1, <3>2
  <2>3. CASE j < i
    <3>1. turn(j) < turn(i)
      BY <1>1, <2>3 DEF Carries
    <3>2. turn(i) \in T
      BY <1>2
    <3> QED BY <2>1, <3>1, <3>2
  <2> QED BY <1>1, <2>2, <2>3
<1>5. \A t \in T : \E i \in I : f[i] = t
  <2> SUFFICES ASSUME NEW t \in T PROVE \E i \in I : f[i] = t
    OBVIOUS
  <2>1. PICK i \in DOMAIN s : s[i].key = turns[t]
    BY DEF Carries
  <2>2. t \in DOMAIN turns
    BY DEF Carries
  <2>3. i \in I
    BY <2>1, <2>2 DEF IsNone
  <2>4. turn(i) = t
    BY <1>1, <2>1, <2>2, <2>3 DEF IsInjective
  <2> QED BY <2>3, <2>4
<1>6. f \in Injection(I, T) /\ f \in Surjection(I, T)
  BY <1>3, <1>4, <1>5 DEF Injection, Surjection, IsInjective
<1>7. IsFiniteSet(T) /\ Cardinality(T) = b - a
  <2>1. a <= b
    BY DEF Carries
  <2>2. IsFiniteSet(T) /\ Cardinality(T) = IF a + 1 > b THEN 0 ELSE b - (a + 1) + 1
    BY FS_Interval
  <2> QED BY <2>1, <2>2
<1> QED BY <1>6, <1>7, FS_Injection

-----------------------------------------------------------------------------
(***************************************************************************)
(* ow, ow-rdma.                                                            *)
(***************************************************************************)
LEMMA TurnsAre ==
  ASSUME setup \in Setups
  PROVE  /\ Stored \in Seq(Int) /\ Len(Stored) = Room /\ IsInjective(Stored)
         /\ \A t \in 1 .. Room : Stored[t] = Room - t
         /\ Queried \in Seq(Int) /\ Len(Queried) = nInject /\ IsInjective(Queried)
         /\ \A t \in 1 .. nInject : Queried[t] = IF Is(Rdma) THEN (NKeysDp + t) - 1 ELSE (NKeysDp + nInject) - t
<1>1. Room \in Nat /\ nInject \in Nat /\ NKeysDp \in Nat
  BY SizesAre
<1> DEFINE queried(t) == IF Is(Rdma) THEN (NKeysDp + t) - 1 ELSE (NKeysDp + nInject) - t
<1>2. /\ Stored \in Seq(Int) /\ Len(Stored) = Room /\ DOMAIN Stored = 1 .. Room
      /\ \A t \in 1 .. Room : Stored[t] = Room - t
  BY <1>1 DEF Stored
<1>3. \A t \in 1 .. nInject : queried(t) \in Int
  BY <1>1
<1>4. \A t, u \in 1 .. nInject : queried(t) = queried(u) => t = u
  BY <1>1
<1>5. Queried = [t \in 1 .. nInject |-> queried(t)]
  BY DEF Queried
<1> HIDE DEF queried
<1>6. /\ Queried \in Seq(Int) /\ Len(Queried) = nInject /\ DOMAIN Queried = 1 .. nInject
      /\ \A t \in 1 .. nInject : Queried[t] = queried(t)
  BY <1>1, <1>3, <1>5
<1>7. IsInjective(Stored)
  BY <1>1, <1>2 DEF IsInjective
<1>8. IsInjective(Queried)
  BY <1>4, <1>6 DEF IsInjective
<1> QED BY <1>2, <1>6, <1>7, <1>8 DEF queried

(* Where a key belongs.                                                    *)
LEMMA KeysAre ==
  ASSUME setup \in Setups
  PROVE  /\ IsNone(NoKey, Stored) /\ IsNone(NoKey, Queried)
         /\ \A t \in 1 .. Room : /\ IsNone(Stored[t], Queried) /\ ~IsNone(Stored[t], Stored)
                                 /\ Stored[t] \in 0 .. nKey - 1 /\ Stored[t] < NKeysDp
                                 /\ (Final(Stored[t]) <=> t = Room) /\ (Stored[t] = 0 <=> t = Room)
         /\ \A t \in 1 .. nInject : /\ IsNone(Queried[t], Stored) /\ ~IsNone(Queried[t], Queried)
                                    /\ Queried[t] \in 0 .. nKey - 1 /\ Queried[t] >= NKeysDp
                                    /\ (Final(Queried[t]) <=> t = nInject)
         /\ \A k \in 0 .. nKey - 1 : ~IsNone(k, Stored) \/ ~IsNone(k, Queried)
<1>1. /\ Room \in Nat /\ nInject \in Nat /\ NKeysDp \in Nat /\ NKeysDp > 0 /\ nKey \in Nat
      /\ Room + nInject = nKey /\ Room <= NKeysDp /\ (nInject > 0 => Room = NKeysDp)
  BY SizesAre
<1>2. /\ DOMAIN Stored = 1 .. Room /\ DOMAIN Queried = 1 .. nInject
      /\ \A t \in 1 .. Room : Stored[t] = Room - t
      /\ \A t \in 1 .. nInject : Queried[t] = IF Is(Rdma) THEN (NKeysDp + t) - 1 ELSE (NKeysDp + nInject) - t
  BY <1>1, TurnsAre
<1>3. \A t \in 1 .. Room : Stored[t] \in 0 .. nKey - 1 /\ Stored[t] < NKeysDp
  BY <1>1, <1>2
<1>4. \A t \in 1 .. nInject : Queried[t] \in 0 .. nKey - 1 /\ Queried[t] >= NKeysDp
  BY <1>1, <1>2
<1>5. IsNone(NoKey, Stored) /\ IsNone(NoKey, Queried)
  BY <1>1, <1>2, <1>3, <1>4 DEF IsNone, NoKey
<1>6. ASSUME NEW t \in 1 .. Room
      PROVE  /\ IsNone(Stored[t], Queried) /\ ~IsNone(Stored[t], Stored)
             /\ (Final(Stored[t]) <=> t = Room) /\ (Stored[t] = 0 <=> t = Room)
  <2>1. IsNone(Stored[t], Queried) /\ ~IsNone(Stored[t], Stored)
    BY <1>1, <1>2, <1>3, <1>4 DEF IsNone
  <2>2. Stored[t] = 0 <=> t = Room
    BY <1>1, <1>2
  <2>3. nInject > 0 => Stored[t] # Queried[nInject]
    BY <1>1, <1>3, <1>4
  <2> QED BY <2>1, <2>2, <2>3 DEF Final
<1>7. ASSUME NEW t \in 1 .. nInject
      PROVE  /\ IsNone(Queried[t], Stored) /\ ~IsNone(Queried[t], Queried)
             /\ (Final(Queried[t]) <=> t = nInject)
  <2>1. IsNone(Queried[t], Stored) /\ ~IsNone(Queried[t], Queried)
    <3>1. IsNone(Queried[t], Stored)
      BY <1>1, <1>2, <1>3, <1>4 DEF IsNone
    <3>2. ~IsNone(Queried[t], Queried)
      BY <1>2 DEF IsNone
    <3> QED BY <3>1, <3>2
  <2>2. Queried[t] # 0
    BY <1>1, <1>4
  <2>3. Queried[t] = Queried[nInject] => t = nInject
    <3> DEFINE x == Queried[t]
               y == Queried[nInject]
               n == nInject
    <3>1. n \in 1 .. n /\ n \in Nat /\ t \in 1 .. n /\ NKeysDp \in Nat
      BY <1>1
    <3>2. CASE Is(Rdma)
      <4>1. x = (NKeysDp + t) - 1 /\ y = (NKeysDp + n) - 1
        BY <1>2, <3>1, <3>2
      <4> HIDE DEF x, y, n
      <4>2. x = y => t = n
        BY <3>1, <4>1
      <4> QED BY <4>2 DEF x, y, n
    <3>3. CASE ~Is(Rdma)
      <4>1. x = (NKeysDp + n) - t /\ y = (NKeysDp + n) - n
        BY <1>2, <3>1, <3>3
      <4> HIDE DEF x, y, n
      <4>2. x = y => t = n
        BY <3>1, <4>1
      <4> QED BY <4>2 DEF x, y, n
    <3> QED BY <3>2, <3>3
  <2> QED BY <1>1, <2>1, <2>2, <2>3 DEF Final
<1>8. ASSUME NEW k \in 0 .. nKey - 1
      PROVE  ~IsNone(k, Stored) \/ ~IsNone(k, Queried)
  <2>1. CASE k < Room
    <3>1. Room - k \in 1 .. Room /\ Stored[Room - k] = k
      BY <1>1, <1>2, <2>1
    <3> QED BY <1>2, <3>1 DEF IsNone
  <2>2. CASE k >= Room
    <3> DEFINE t == IF Is(Rdma) THEN (k - NKeysDp) + 1 ELSE (NKeysDp + nInject) - k
    <3>1. t \in 1 .. nInject
      BY <1>1, <2>2
    <3>2. Queried[t] = k
      BY <1>1, <1>2, <3>1
    <3> HIDE DEF t
    <3> QED BY <1>2, <3>1, <3>2 DEF IsNone
  <2> QED BY <1>1, <2>1, <2>2
<1> QED BY <1>3, <1>4, <1>5, <1>6, <1>7, <1>8

(* The host, or the NIC, takes the next answer: a stored key or a queried  *)
(* one, the next of its kind.                                              *)
LEMMA OwArrives ==
  ASSUME CollectionTyped, NEW s \in Nat, NEW q \in Nat, NEW p \in Nat, answers # <<>>,
         Carries(answers, Stored, s, Room - Left), Carries(answers, Queried, q, p),
         Carries(got, Stored, 0, s), Carries(got, Queried, 0, q),
         AnswersOw(got, 0), AnswersOw(answers, Len(got)),
         setup' = setup, got' = Append(got, answers[1]), answers' = Tail(answers)
  PROVE  /\ \/ /\ s < Room - Left /\ s + 1 \in 1 .. Room /\ answers[1].key = Stored[s + 1]
               /\ Carries(answers', Stored, s + 1, Room - Left) /\ Carries(answers', Queried, q, p)
               /\ Carries(got', Stored, 0, s + 1) /\ Carries(got', Queried, 0, q)
            \/ /\ q < p /\ q + 1 \in 1 .. nInject /\ answers[1].key = Queried[q + 1]
               /\ Carries(answers', Stored, s, Room - Left) /\ Carries(answers', Queried, q + 1, p)
               /\ Carries(got', Stored, 0, s) /\ Carries(got', Queried, 0, q + 1)
         /\ AnswersOw(got, 0)' /\ AnswersOw(answers, Len(got))'
         /\ Len(got') = Len(got) + 1 /\ Len(answers') = Len(answers) - 1
<1> DEFINE a == answers[1]
           c == Room - Left
<1>0. setup \in Setups
  BY DEF CollectionTyped
<1>1. /\ answers \in Seq(Reply) /\ got \in Seq(Reply) /\ a \in Reply
      /\ Stored \in Seq(Int) /\ Queried \in Seq(Int) /\ IsInjective(Stored) /\ IsInjective(Queried)
      /\ DOMAIN Stored = 1 .. Room /\ DOMAIN Queried = 1 .. nInject
      /\ Room \in Nat /\ nInject \in Nat
  BY <1>0, SizesAre, TurnsAre, SMTT(30) DEF CollectionTyped
<1>2. c \in Nat
  <2>1. Left \in Nat
    BY FieldsTyped, SMTT(30) DEF Left, CollectionTyped
  <2>2. s <= c
    BY DEF Carries
  <2> QED BY <1>1, <2>1, <2>2
<1>3. a.key \in 0 .. nKey - 1
  <2>1. 1 \in DOMAIN answers
    BY <1>1
  <2> QED BY <2>1 DEF AnswersOw
<1> HIDE DEF c
<1>4. Carries(answers, Stored, s, c)
  BY DEF c
<1>5. AnswersOw(got, 0)' /\ AnswersOw(answers, Len(got))'
  <2>1. /\ Len(got) \in Nat /\ Len(answers) \in Nat /\ Len(answers) > 0
        /\ DOMAIN got = 1 .. Len(got) /\ DOMAIN got' = 1 .. Len(got) + 1
        /\ DOMAIN answers = 1 .. Len(answers) /\ DOMAIN answers' = 1 .. Len(answers) - 1
        /\ \A i \in DOMAIN got : got'[i] = got[i]
        /\ got'[Len(got) + 1] = a
        /\ \A i \in DOMAIN answers' : answers'[i] = answers[i + 1]
        /\ Len(got') = Len(got) + 1
    BY <1>1
  <2> DEFINE Right(e, i) == /\ e.key \in 0 .. nKey - 1
                            /\ IF Is(Rdma) THEN e.idx = i - 1 /\ (e.last <=> Final(e.key)) ELSE e.idx = e.key
  <2>2. \A i \in DOMAIN got : Right(got[i], i)
    BY <2>1 DEF AnswersOw
  <2>3. \A i \in DOMAIN answers : Right(answers[i], Len(got) + i)
    BY DEF AnswersOw
  <2> HIDE DEF Right
  <2>4. \A i \in DOMAIN got' : Right(got'[i], 0 + i)
    BY <2>1, <2>2, <2>3
  <2>5. \A i \in DOMAIN answers' : Right(answers'[i], Len(got') + i)
    <3> SUFFICES ASSUME NEW i \in DOMAIN answers' PROVE Right(answers'[i], Len(got') + i)
      OBVIOUS
    <3>1. i + 1 \in DOMAIN answers /\ answers'[i] = answers[i + 1] /\ Len(got') + i = Len(got) + (i + 1)
      BY <2>1, SMTT(30)
    <3> QED BY <2>3, <3>1
  <2> QED BY <2>4, <2>5, SetupStays DEF AnswersOw, Right
<1>6. Len(got') = Len(got) + 1 /\ Len(answers') = Len(answers) - 1
  BY <1>1
<1>7. CASE ~IsNone(a.key, Stored)
  <2>1. s < c /\ s + 1 \in DOMAIN Stored /\ a.key = Stored[s + 1] /\ Carries(Tail(answers), Stored, s + 1, c)
    BY <1>1, <1>2, <1>4, <1>7, CarriesTail
  <2>2. IsNone(a.key, Queried)
    BY <1>0, <1>1, <2>1, KeysAre
  <2>3. Carries(Tail(answers), Queried, q, p)
    BY <1>1, <2>2, CarriesTail
  <2>4. s < Len(Stored)
    BY <1>1, <2>1
  <2>5. Carries(Append(got, a), Stored, 0, s + 1)
    BY <1>1, <2>1, <2>4, CarriesAppend
  <2>6. Carries(Append(got, a), Queried, 0, q)
    BY <1>1, <2>2, CarriesAppend
  <2> QED BY <1>1, <2>1, <2>3, <2>5, <2>6, <1>5, <1>6 DEF c
<1>8. CASE IsNone(a.key, Stored)
  <2>0. ~IsNone(a.key, Queried)
    BY <1>0, <1>3, <1>8, KeysAre
  <2>1. q < p /\ q + 1 \in DOMAIN Queried /\ a.key = Queried[q + 1] /\ Carries(Tail(answers), Queried, q + 1, p)
    BY <1>1, <2>0, CarriesTail
  <2>3. Carries(Tail(answers), Stored, s, c)
    BY <1>1, <1>2, <1>4, <1>8, CarriesTail
  <2>4. q < Len(Queried)
    BY <1>1, <2>1
  <2>5. Carries(Append(got, a), Queried, 0, q + 1)
    BY <1>1, <2>1, <2>4, CarriesAppend
  <2>6. Carries(Append(got, a), Stored, 0, s)
    BY <1>1, <1>8, CarriesAppend
  <2> QED BY <1>1, <2>1, <2>3, <2>5, <2>6, <1>5, <1>6 DEF c
<1> QED BY <1>7, <1>8

(* Schemes exclude each other.                                             *)
LEMMA SchemesApart ==
  ASSUME setup \in Setups
  PROVE  /\ \/ Is({"ow", "ow-rdma"}) \/ Is({"cpc", "cpc-rdma"}) \/ Is({"dpc", "dpc-rdma"}) \/ Is({"reset"})
         /\ Is({"ow", "ow-rdma"}) => ~Is({"cpc", "cpc-rdma"}) /\ ~Is({"dpc", "dpc-rdma"}) /\ ~Is({"reset"})
         /\ Is({"cpc", "cpc-rdma"}) => ~Is({"dpc", "dpc-rdma"}) /\ ~Is({"reset"})
         /\ Is({"dpc", "dpc-rdma"}) => ~Is({"reset"})
         /\ Is({"ow"}) <=> Is({"ow", "ow-rdma"}) /\ ~Is(Rdma)
         /\ Is({"ow-rdma"}) <=> Is({"ow", "ow-rdma"}) /\ Is(Rdma)
         /\ Is({"cpc"}) <=> Is({"cpc", "cpc-rdma"}) /\ ~Is(Rdma)
         /\ Is({"cpc-rdma"}) <=> Is({"cpc", "cpc-rdma"}) /\ Is(Rdma)
         /\ Is({"dpc"}) <=> Is({"dpc", "dpc-rdma"}) /\ ~Is(Rdma)
         /\ Is({"dpc-rdma"}) <=> Is({"dpc", "dpc-rdma"}) /\ Is(Rdma)
         /\ Is({"dpc", "dpc-rdma", "reset"}) <=> Is({"dpc", "dpc-rdma"}) \/ Is({"reset"})
         /\ Is({"reset"}) => ~Is(Rdma)
  BY SizesAre DEF Is, Rdma, Schemes

(* What is to be shown of a step of a host that collects.                  *)
LEMMA StillOwRight ==
  ASSUME main'.pc \in {"wait", "done"}, StoredRight', NEW s \in Nat, NEW q \in Nat, NEW r \in Nat,
         Collecting(s, q, r)', main'.pc = "done" <=> main'.barrier = 0
  PROVE  OwRight'
BY DEF OwRight, At, NotAsking

(* So many queries have been sent, and so many keys are left: numbers.     *)
LEMMA SentType ==
  ASSUME CollectionTyped, NEW s \in Nat, NEW q \in Nat, NEW r \in Nat, OnTheWay(s, q, r)
  PROVE  Sent \in Nat
<1>1. setup \in Setups /\ main.rem \in Int
  BY FieldsTyped DEF CollectionTyped
<1>2. Sent \in Int
  BY <1>1, SizesAre DEF Sent
<1>3. r <= Sent
  BY DEF OnTheWay, Carries
<1> QED BY <1>2, <1>3

LEMMA LeftType ==
  ASSUME CollectionTyped, NEW s \in Nat, NEW q \in Nat, NEW r \in Nat, OnTheWay(s, q, r)
  PROVE  Left \in Nat /\ Room - Left \in Nat
<1>0. setup \in Setups /\ mirrored \in Seq(Packet) /\ register.stored \in Seq(Int)
  BY FieldsTyped DEF CollectionTyped
<1>1. Left \in Nat /\ Room \in Nat
  BY <1>0, SizesAre DEF Left
<1>2. s <= Room - Left
  BY DEF OnTheWay, Carries
<1> QED BY <1>1, <1>2

(* A key goes from the buffer into the mirror session.                     *)
LEMMA Takes ==
  ASSUME CollectionTyped, StoredRight, register.stored # <<>>, NEW e \in Packet,
         NEW rest \in Seq(Packet), NEW n \in Nat, n = Len(register.stored) + Len(rest),
         \A i \in DOMAIN rest : IsTaken(rest[i], n - i), n <= Room, setup' = setup,
         mirrored' = Append(rest, e), register'.stored = Front(register.stored),
         e.col, e.key = Last(register.stored), e.idx = Len(register.stored) - 1,
         e.last <=> Len(register.stored) = 1
  PROVE  Left' = n /\ StoredRight'
<1> DEFINE z == register.stored
           m == Len(z)
<1>1. /\ z \in Seq(Int) /\ m \in Nat /\ m > 0 /\ DOMAIN z = 1 .. m
      /\ Last(z) = z[m] /\ Len(rest) \in Nat
  <2>1. z \in Seq(Int) /\ z # <<>>
    BY FieldsTyped
  <2> HIDE DEF z
  <2>2. Last(z) = z[Len(z)]
    BY DEF Last
  <2> QED BY <2>1, <2>2
<1>2. Front(z) = [i \in 1 .. m - 1 |-> z[i]]
  BY <1>1 DEF Front
<1>3. Len(Front(z)) = m - 1 /\ DOMAIN Front(z) = 1 .. m - 1 /\ \A i \in 1 .. m - 1 : Front(z)[i] = z[i]
  BY <1>1, <1>2
<1>4. /\ Len(mirrored') = Len(rest) + 1 /\ DOMAIN mirrored' = 1 .. Len(rest) + 1
      /\ \A i \in 1 .. Len(rest) : mirrored'[i] = rest[i]
      /\ mirrored'[Len(rest) + 1] = e /\ DOMAIN rest = 1 .. Len(rest)
  OBVIOUS
<1>5. Left' = n
  <2>1. Len(register'.stored) = m - 1 /\ Len(mirrored') = Len(rest) + 1
    BY <1>3, <1>4
  <2>2. Left' = Len(register'.stored) + Len(mirrored')
    BY DEF Left
  <2> HIDE DEF m
  <2>3. n = m + Len(rest)
    BY DEF m
  <2>4. m \in Nat /\ Len(rest) \in Nat
    BY <1>1
  <2> QED BY <2>1, <2>2, <2>3, <2>4
<1>6. Room' = Room
  BY SetupStays
<1>7. \A i \in DOMAIN z : z[i] = i - 1
  BY DEF StoredRight
<1>8. IsTaken(e, n - (Len(rest) + 1))
  <2>1. e.key = m - 1 /\ e.idx = m - 1 /\ n - (Len(rest) + 1) = m - 1
    <3>1. m \in DOMAIN z /\ e.key = z[m]
      BY <1>1
    <3>2. n = m + Len(rest) /\ e.idx = m - 1
      OBVIOUS
    <3>3. e.key = m - 1
      BY <1>7, <3>1
    <3> HIDE DEF m
    <3> QED BY <1>1, <3>2, <3>3
  <2>2. m - 1 = 0 <=> m = 1
    BY <1>1
  <2> QED BY <2>1, <2>2 DEF IsTaken
<1>9. \A i \in DOMAIN mirrored' : IsTaken(mirrored'[i], n - i)
  <2> SUFFICES ASSUME NEW i \in DOMAIN mirrored' PROVE IsTaken(mirrored'[i], n - i)
    OBVIOUS
  <2>1. CASE i \in DOMAIN rest
    BY <1>4, <2>1
  <2>2. CASE i \notin DOMAIN rest
    <3>1. i = Len(rest) + 1
      BY <1>1, <1>4, <2>2
    <3> QED BY <1>4, <1>8, <3>1
  <2> QED BY <2>1, <2>2
<1>10. \A i \in DOMAIN register'.stored : register'.stored[i] = i - 1
  <2>1. /\ register'.stored = Front(z) /\ DOMAIN Front(z) = 1 .. m - 1
        /\ \A i \in 1 .. m - 1 : Front(z)[i] = z[i] /\ i \in DOMAIN z
    <3>1. register'.stored = Front(z) /\ \A i \in 1 .. m - 1 : i \in DOMAIN z
      BY <1>1
    <3>2. DOMAIN Front(z) = 1 .. m - 1 /\ \A i \in 1 .. m - 1 : Front(z)[i] = z[i]
      BY <1>1, <1>3
    <3> QED BY <3>1, <3>2
  <2> QED BY <1>7, <2>1
<1> QED BY <1>5, <1>6, <1>9, <1>10 DEF StoredRight, IsTaken

(* The answer that joins is numbered next, or by its key.                  *)
LEMMA AnswersAppended ==
  ASSUME CollectionTyped, AnswersOw(answers, Len(got)), NEW a \in Reply,
         answers' = Append(answers, a), UNCHANGED <<setup, got>>, a.key \in 0 .. nKey - 1,
         IF Is(Rdma) THEN a.idx = Len(got) + Len(answers) /\ (a.last <=> Final(a.key)) ELSE a.idx = a.key
  PROVE  AnswersOw(answers, Len(got))'
<1>1. answers \in Seq(Reply) /\ Len(got) \in Nat /\ Len(answers) \in Nat
  BY DEF CollectionTyped
<1>2. /\ DOMAIN answers = 1 .. Len(answers) /\ DOMAIN answers' = 1 .. Len(answers) + 1
      /\ \A i \in DOMAIN answers : answers'[i] = answers[i]
      /\ answers'[Len(answers) + 1] = a
  BY <1>1
<1>3. Len(got) + Len(answers) = (Len(got) + (Len(answers) + 1)) - 1
  BY <1>1
<1> DEFINE Right(e, i) == /\ e.key \in 0 .. nKey - 1
                          /\ IF Is(Rdma) THEN e.idx = i - 1 /\ (e.last <=> Final(e.key)) ELSE e.idx = e.key
<1>4. \A i \in DOMAIN answers : Right(answers[i], Len(got) + i)
  BY DEF AnswersOw
<1>5. Right(a, Len(got) + (Len(answers) + 1))
  BY <1>3
<1> HIDE DEF Right
<1>6. \A i \in DOMAIN answers' : Right(answers'[i], Len(got) + i)
  <2> SUFFICES ASSUME NEW i \in DOMAIN answers' PROVE Right(answers'[i], Len(got) + i)
    OBVIOUS
  <2>1. CASE i \in DOMAIN answers
    BY <1>2, <1>4, <2>1
  <2>2. CASE i = Len(answers) + 1
    BY <1>2, <1>5, <2>2
  <2> QED BY <1>1, <1>2, <2>1, <2>2
<1> QED BY <1>6, SetupStays DEF AnswersOw, Right

(* After a packet has passed: r queries were answered before, w now.       *)
LEMMA OwServed ==
  ASSUME UNCHANGED <<setup, main, qp, got>>, StoredRight',
         main.pc \in {"wait", "done"}, main.pc = "done" <=> main.barrier = 0,
         NEW s \in Nat, NEW q \in Nat, NEW r \in Nat, Collecting(s, q, r),
         \A i \in DOMAIN requests' : (IsCollect(requests[i]) \/ IsQueryOf(requests[i]))',
         NEW w \in Nat, Carries(requests', Queried, w, Sent),
         Carries(answers', Stored, s, Room - Left'), Carries(answers', Queried, q, w),
         Len(answers') = ((Room - Left') - s) + (w - q),
         Is(Rdma) => register'.msn = Len(got) + Len(answers'),
         AnswersOw(answers, Len(got))'
  PROVE  OwRight'
<1>1. /\ nInject' = nInject /\ Room' = Room /\ Stored' = Stored /\ Queried' = Queried /\ Is(Rdma)' = Is(Rdma)
      /\ Sent' = Sent
  BY SetupStays DEF Sent
<1>2. OnTheWay(s, q, r) /\ Counted(s, q) /\ AnswersOw(got, 0)
  BY DEF Collecting
<1>3. OnTheWay(s, q, w)'
  <2>1. /\ Carries(requests', Queried', w, Sent')
        /\ Carries(answers', Stored', s, Room' - Left') /\ Carries(answers', Queried', q, w)
    BY <1>1
  <2>2. Carries(got', Stored', 0, s) /\ Carries(got', Queried', 0, q) /\ Len(got') = s + q
    BY <1>1, <1>2 DEF OnTheWay
  <2>3. Len(answers') = ((Room' - Left') - s) + (w - q)
    BY <1>1
  <2> QED BY <2>1, <2>2, <2>3 DEF OnTheWay
<1>4. Counted(s, q)'
  BY <1>1, <1>2, SetupStays DEF Counted, Paced, NextInject
<1>5. AnswersOw(got, 0)'
  BY <1>2, SetupStays DEF AnswersOw
<1>6. Collecting(s, q, w)'
  BY <1>3, <1>4, <1>5 DEF Collecting
<1> QED BY <1>6, StillOwRight

(* A request passes.                                                       *)
LEMMA OwRequestServed ==
  ASSUME CollectionTyped, OwRight, Is({"ow", "ow-rdma"}), SwitchRequest
  PROVE  CollectionTyped' /\ OwRight'
<1> DEFINE p == requests[1]
<1>0. setup \in Setups /\ requests \in Seq(Packet) /\ mirrored \in Seq(Packet)
      /\ answers \in Seq(Reply) /\ got \in Seq(Reply)
  BY DEF CollectionTyped
<1>1. /\ requests # <<>> /\ p \in Packet /\ Head(requests) = p /\ requests' = Tail(requests)
      /\ Tail(requests) \in Seq(Packet) /\ 1 \in DOMAIN requests
      /\ UNCHANGED <<setup, main, qp, got>>
  BY <1>0 DEF SwitchRequest
<1>2. OwEgress(p, mirrored)
  BY <1>0, <1>1, SchemesApart DEF SwitchRequest, SwitchEgress, CpcEgress, DpcEgress, ResetEgress
<1>3. /\ CollectionTyped'
      /\ IF p.key = NoKey
         THEN answers' = answers /\ register'.msn = register.msn
         ELSE /\ answers' = Append(answers, [key |-> p.key, idx |-> IF Is(Rdma) THEN register.msn ELSE p.idx,
                                             last |-> p.last])
              /\ register'.msn = IF Is(Rdma) THEN register.msn + 1 ELSE register.msn
      /\ IF p.col /\ register.stored # <<>>
         THEN /\ register'.stored = Front(register.stored)
              /\ \E q \in Packet :
                   /\ mirrored' = Append(mirrored, q)
                   /\ q.col /\ q.key = Last(register.stored) /\ q.idx = Len(register.stored) - 1
                   /\ (q.last <=> Len(register.stored) = 1)
         ELSE register'.stored = register.stored /\ mirrored' = mirrored
  BY <1>0, <1>1, <1>2, OwEgressIs
<1>4. At({"wait", "done"})
  BY <1>1 DEF OwRight, At, NotAsking
<1>5. PICK s \in Nat, q \in Nat, r \in Nat : Collecting(s, q, r)
  BY <1>4 DEF OwRight
<1>6. StoredRight /\ (main.pc = "done" <=> main.barrier = 0)
  BY <1>4 DEF OwRight, At
<1>7. OnTheWay(s, q, r) /\ Counted(s, q) /\ AnswersOw(got, 0) /\ AnswersOw(answers, Len(got))
  BY <1>5 DEF Collecting
<1>8. /\ nInject' = nInject /\ Room' = Room /\ Stored' = Stored /\ Queried' = Queried /\ Is(Rdma)' = Is(Rdma)
      /\ Sent' = Sent
  BY <1>1, SetupStays DEF Sent
<1>9. \A i \in DOMAIN requests' : (IsCollect(requests[i]) \/ IsQueryOf(requests[i]))'
  <2> SUFFICES ASSUME NEW i \in DOMAIN requests' PROVE IsCollect(requests'[i]) \/ IsQueryOf(requests'[i])
    BY <1>1, SetupStays DEF IsCollect
  <2>1. i + 1 \in DOMAIN requests /\ requests'[i] = requests[i + 1]
    BY <1>0, <1>1
  <2> QED BY <1>7, <2>1 DEF OnTheWay
<1>10. ASSUME StoredRight', Left' = Left, NEW w \in Nat, Carries(requests', Queried, w, Sent),
              Carries(answers', Stored, s, Room - Left), Carries(answers', Queried, q, w),
              Len(answers') + r = Len(answers) + w,
              Is(Rdma) => register'.msn = Len(got) + Len(answers'),
              AnswersOw(answers, Len(got))'
       PROVE  OwRight'
  <2>1. Len(answers') = ((Room - Left') - s) + (w - q)
    <3>1. Len(answers) = ((Room - Left) - s) + (r - q)
      BY <1>7 DEF OnTheWay
    <3>2. Room \in Nat /\ Left \in Nat
      BY <1>0, <1>7, SizesAre, LeftType
    <3>3. Len(answers') \in Nat /\ Len(answers) \in Nat
      <4>1. answers' \in Seq(Reply)
        BY <1>3 DEF CollectionTyped
      <4> QED BY <1>0, <4>1
    <3>4. Left' = Left /\ Len(answers') + r = Len(answers) + w
      BY <1>10
    <3> QED BY <3>1, <3>2, <3>3, <3>4
  <2>2. Carries(answers', Stored, s, Room - Left')
    BY <1>10
  <2> QED BY <1>1, <1>4, <1>5, <1>6, <1>9, <1>10, <2>1, <2>2, OwServed DEF At
<1>11. CASE IsCollect(p)
  <2>1. p.key = NoKey /\ p.col
    BY <1>11 DEF IsCollect
  <2>2. IsNone(p.key, Queried) /\ Queried \in Seq(Int) /\ IsInjective(Queried)
    BY <1>0, <2>1, KeysAre, TurnsAre
  <2>3. Carries(requests', Queried, r, Sent)
    <3>1. Sent \in Nat
      BY <1>7, SentType
    <3>2. Carries(requests, Queried, r, Sent)
      BY <1>7 DEF OnTheWay
    <3> QED BY <1>0, <1>1, <2>2, <3>1, <3>2, CarriesTail
  <2>4. answers' = answers /\ register'.msn = register.msn
    BY <1>3, <2>1
  <2>5. Left' = Left /\ StoredRight'
    <3>1. CASE register.stored = <<>>
      BY <1>3, <1>6, <1>8, <3>1 DEF Left, StoredRight, IsTaken
    <3>2. CASE register.stored # <<>>
      <4>1. PICK e \in Packet :
                   /\ mirrored' = Append(mirrored, e)
                   /\ e.col /\ e.key = Last(register.stored) /\ e.idx = Len(register.stored) - 1
                   /\ (e.last <=> Len(register.stored) = 1)
        BY <1>3, <2>1, <3>2
      <4>2. register'.stored = Front(register.stored)
        BY <1>3, <2>1, <3>2
      <4>3. /\ Left = Len(register.stored) + Len(mirrored) /\ Left <= Room
            /\ \A i \in DOMAIN mirrored : IsTaken(mirrored[i], Left - i)
        BY <1>6 DEF StoredRight, Left
      <4>4. Left \in Nat
        BY <1>7, LeftType
      <4> QED BY <1>0, <1>1, <1>6, <3>2, <4>1, <4>2, <4>3, <4>4, Takes
    <3> QED BY <3>1, <3>2
  <2>6. AnswersOw(answers, Len(got))'
    BY <1>1, <1>7, <2>4, SetupStays DEF AnswersOw
  <2>7. Carries(answers', Stored, s, Room - Left) /\ Carries(answers', Queried, q, r)
        /\ Len(answers') + r = Len(answers) + r /\ (Is(Rdma) => register'.msn = Len(got) + Len(answers'))
    BY <1>0, <1>7, <2>4 DEF OnTheWay, Counted
  <2> QED BY <1>3, <1>10, <2>3, <2>5, <2>6, <2>7
<1>12. CASE IsQueryOf(p)
  <2>1. PICK t \in DOMAIN Queried :
          ~p.col /\ p.key = Queried[t] /\ p.idx = p.key /\ (p.last <=> Is(Rdma) /\ t = nInject)
    BY <1>12 DEF IsQueryOf
  <2>2. /\ Queried \in Seq(Int) /\ IsInjective(Queried) /\ Stored \in Seq(Int) /\ IsInjective(Stored)
        /\ DOMAIN Queried = 1 .. nInject /\ Len(Queried) = nInject /\ nInject \in Nat
    BY <1>0, SizesAre, TurnsAre
  <2>3. ~IsNone(p.key, Queried) /\ IsNone(p.key, Stored) /\ p.key # NoKey /\ p.key \in 0 .. nKey - 1
        /\ (Final(p.key) <=> t = nInject)
    BY <1>0, <2>1, <2>2, KeysAre, SMTT(30) DEF IsNone
  <2>4. /\ r < Sent /\ r + 1 \in DOMAIN Queried /\ p.key = Queried[r + 1]
        /\ Carries(requests', Queried, r + 1, Sent)
    <3>1. Sent \in Nat
      BY <1>7, SentType
    <3>2. Carries(requests, Queried, r, Sent)
      BY <1>7 DEF OnTheWay
    <3> QED BY <1>0, <1>1, <2>2, <2>3, <3>1, <3>2, CarriesTail
  <2> DEFINE a == [key |-> p.key, idx |-> IF Is(Rdma) THEN register.msn ELSE p.idx, last |-> p.last]
  <2>5. /\ answers' = Append(answers, a) /\ register'.msn = IF Is(Rdma) THEN register.msn + 1 ELSE register.msn
        /\ register'.stored = register.stored /\ mirrored' = mirrored
    BY <1>3, <2>1, <2>3
  <2>6. a \in Reply /\ a.key = p.key /\ a.last = p.last /\ a.idx = IF Is(Rdma) THEN register.msn ELSE p.idx
    BY <1>1, FieldsTyped, SMTT(30) DEF Reply, Packet
  <2> HIDE DEF a
  <2>7. Left' = Left /\ StoredRight'
    BY <1>6, <1>8, <2>5 DEF Left, StoredRight, IsTaken
  <2>8. Carries(answers', Queried, q, r + 1)
    <3>1. Carries(answers, Queried, q, r) /\ r < Len(Queried)
      BY <1>7, <2>2, <2>4 DEF OnTheWay
    <3> QED BY <1>0, <2>2, <2>4, <2>5, <2>6, <3>1, CarriesAppend
  <2>9. Carries(answers', Stored, s, Room - Left)
    <3>1. Carries(answers, Stored, s, Room - Left) /\ Room - Left \in Nat
      BY <1>7, LeftType DEF OnTheWay
    <3> QED BY <1>0, <2>2, <2>3, <2>5, <2>6, <3>1, CarriesAppend
  <2>10. Len(answers') + r = Len(answers) + (r + 1) /\ (Is(Rdma) => register'.msn = Len(got) + Len(answers'))
    BY <1>0, <1>7, <2>5, <2>6 DEF Counted
  <2>11. AnswersOw(answers, Len(got))'
    BY <1>0, <1>1, <1>7, <2>1, <2>3, <2>5, <2>6, AnswersAppended DEF Counted
  <2> DEFINE w == r + 1
  <2>12. w \in Nat
    OBVIOUS
  <2> HIDE DEF w
  <2>13. /\ Carries(requests', Queried, w, Sent) /\ Carries(answers', Queried, q, w)
         /\ Len(answers') + r = Len(answers) + w
    BY <2>4, <2>8, <2>10 DEF w
  <2> QED BY <1>3, <1>10, <2>7, <2>9, <2>10, <2>11, <2>12, <2>13
<1> QED BY <1>1, <1>3, <1>7, <1>11, <1>12 DEF OnTheWay

(* A mirrored packet brings back the key that it took, and takes another.  *)
LEMMA OwMirroredServed ==
  ASSUME CollectionTyped, OwRight, Is({"ow", "ow-rdma"}), SwitchMirrored
  PROVE  CollectionTyped' /\ OwRight'
<1> DEFINE p == mirrored[1]
           rest == Tail(mirrored)
           n == Len(register.stored) + Len(rest)
<1>0. setup \in Setups /\ requests \in Seq(Packet) /\ mirrored \in Seq(Packet)
      /\ answers \in Seq(Reply) /\ got \in Seq(Reply) /\ register.stored \in Seq(Int)
  BY FieldsTyped DEF CollectionTyped
<1>1. /\ mirrored # <<>> /\ p \in Packet /\ Head(mirrored) = p
      /\ rest \in Seq(Packet) /\ 1 \in DOMAIN mirrored
      /\ UNCHANGED <<setup, main, qp, got, requests>>
  BY <1>0 DEF SwitchMirrored
<1>2. OwEgress(p, rest)
  BY <1>0, <1>1, SchemesApart DEF SwitchMirrored, SwitchEgress, CpcEgress, DpcEgress, ResetEgress
<1>3. /\ CollectionTyped'
      /\ IF p.key = NoKey
         THEN answers' = answers /\ register'.msn = register.msn
         ELSE /\ answers' = Append(answers, [key |-> p.key, idx |-> IF Is(Rdma) THEN register.msn ELSE p.idx,
                                             last |-> p.last])
              /\ register'.msn = IF Is(Rdma) THEN register.msn + 1 ELSE register.msn
      /\ IF p.col /\ register.stored # <<>>
         THEN /\ register'.stored = Front(register.stored)
              /\ \E q \in Packet :
                   /\ mirrored' = Append(rest, q)
                   /\ q.col /\ q.key = Last(register.stored) /\ q.idx = Len(register.stored) - 1
                   /\ (q.last <=> Len(register.stored) = 1)
         ELSE register'.stored = register.stored /\ mirrored' = rest
  BY <1>0, <1>1, <1>2, OwEgressIs
<1>4. main.pc \in {"wait", "done"}
  BY <1>1 DEF OwRight, At, NotAsking
<1>5. PICK s \in Nat, q \in Nat, r \in Nat : Collecting(s, q, r)
  BY <1>4 DEF OwRight, At
<1>6. StoredRight /\ (main.pc = "done" <=> main.barrier = 0)
  BY <1>4 DEF OwRight, At
<1>7. OnTheWay(s, q, r) /\ Counted(s, q) /\ AnswersOw(got, 0) /\ AnswersOw(answers, Len(got))
  BY <1>5 DEF Collecting
<1>8. /\ Left \in Nat /\ Room \in Nat /\ Room - Left \in Nat /\ n \in Nat /\ Left = n + 1 /\ n < Room
      /\ \A i \in DOMAIN rest : rest[i] = mirrored[i + 1] /\ i + 1 \in DOMAIN mirrored
  <2>1. Len(rest) = Len(mirrored) - 1 /\ Len(mirrored) > 0 /\ Len(mirrored) \in Nat
    BY <1>0, <1>1
  <2>2. Left \in Nat /\ Room \in Nat /\ Room - Left \in Nat /\ Left <= Room
    BY <1>0, <1>6, <1>7, LeftType, SizesAre DEF StoredRight
  <2>3. Left = n + 1 /\ n \in Nat
    <3>1. Len(register.stored) \in Nat /\ Left = Len(register.stored) + Len(mirrored)
      BY <1>0 DEF Left
    <3> HIDE DEF rest
    <3> QED BY <2>1, <3>1
  <2>4. \A i \in DOMAIN rest : rest[i] = mirrored[i + 1] /\ i + 1 \in DOMAIN mirrored
    BY <1>0, <2>1
  <2> HIDE DEF n
  <2> QED BY <2>2, <2>3, <2>4
<1>9. IsTaken(p, n) /\ \A i \in DOMAIN rest : IsTaken(rest[i], n - i)
  <2>1. \A i \in DOMAIN mirrored : IsTaken(mirrored[i], (n + 1) - i)
    BY <1>6, <1>8 DEF StoredRight
  <2>2. IsTaken(p, (n + 1) - 1)
    BY <1>1, <2>1
  <2>3. ASSUME NEW i \in DOMAIN rest PROVE IsTaken(rest[i], n - i)
    <3>1. IsTaken(rest[i], (n + 1) - (i + 1))
      BY <1>8, <2>1
    <3>2. i \in Nat
      BY <1>1
    <3>3. (n + 1) - (i + 1) = n - i
      BY <1>8, <3>2
    <3> QED BY <3>1, <3>3
  <2>4. (n + 1) - 1 = n
    BY <1>8
  <2> QED BY <2>2, <2>3, <2>4
<1> HIDE DEF n, rest
<1>10. Left' = n /\ StoredRight'
  <2>1. CASE register.stored = <<>>
    <3>1. register'.stored = register.stored /\ mirrored' = rest
      BY <1>3, <2>1
    <3>2. Left' = n
      BY <3>1 DEF Left, n
    <3>3. Room' = Room
      BY <1>1, SetupStays
    <3>4. n <= Room
      BY <1>8
    <3> QED BY <1>6, <1>9, <3>1, <3>2, <3>3, <3>4 DEF StoredRight, IsTaken
  <2>2. CASE register.stored # <<>>
    <3>1. p.col
      BY <1>9 DEF IsTaken
    <3>2. PICK e \in Packet :
                 /\ mirrored' = Append(rest, e)
                 /\ e.col /\ e.key = Last(register.stored) /\ e.idx = Len(register.stored) - 1
                 /\ (e.last <=> Len(register.stored) = 1)
      BY <1>3, <2>2, <3>1
    <3>3. register'.stored = Front(register.stored)
      BY <1>3, <2>2, <3>1
    <3>4. n = Len(register.stored) + Len(rest) /\ n <= Room
      BY <1>8 DEF n
    <3> QED BY <1>1, <1>6, <1>8, <1>9, <2>2, <3>2, <3>3, <3>4, Takes
  <2> QED BY <2>1, <2>2
<1>11. /\ Queried \in Seq(Int) /\ IsInjective(Queried) /\ Stored \in Seq(Int) /\ IsInjective(Stored)
       /\ Len(Stored) = Room
  BY <1>0, TurnsAre
<1>12. (Room - Left) + 1 \in 1 .. Room /\ Stored[(Room - Left) + 1] = n
  <2>1. (Room - Left) + 1 \in 1 .. Room
    BY <1>8
  <2>2. Stored[(Room - Left) + 1] = Room - ((Room - Left) + 1)
    BY <1>0, <2>1, TurnsAre
  <2> QED BY <1>8, <2>1, <2>2
<1>13. /\ p.key = n /\ p.key # NoKey /\ IsNone(p.key, Queried) /\ p.key \in 0 .. nKey - 1
       /\ (p.last <=> Final(p.key)) /\ p.idx = n
  <2>1. p.key = n /\ p.idx = n /\ (p.last <=> n = 0)
    BY <1>9 DEF IsTaken
  <2>2. IsNone(n, Queried) /\ n \in 0 .. nKey - 1 /\ (Final(n) <=> (Room - Left) + 1 = Room)
    BY <1>0, <1>12, KeysAre
  <2>3. n = 0 <=> (Room - Left) + 1 = Room
    BY <1>8
  <2>4. n # NoKey
    BY <1>8 DEF NoKey
  <2> QED BY <2>1, <2>2, <2>3, <2>4
<1> DEFINE a == [key |-> p.key, idx |-> IF Is(Rdma) THEN register.msn ELSE p.idx, last |-> p.last]
<1>14. answers' = Append(answers, a) /\ register'.msn = IF Is(Rdma) THEN register.msn + 1 ELSE register.msn
  BY <1>3, <1>13
<1>15. a \in Reply /\ a.key = p.key /\ a.last = p.last /\ a.idx = IF Is(Rdma) THEN register.msn ELSE p.idx
  BY <1>1, FieldsTyped DEF Reply, Packet
<1> HIDE DEF a, p
<1>16. Carries(answers', Queried, q, r)
  <2>1. Carries(answers, Queried, q, r)
    BY <1>7 DEF OnTheWay
  <2> QED BY <1>0, <1>11, <1>13, <1>14, <1>15, <2>1, CarriesAppend
<1>17. Carries(answers', Stored, s, Room - Left')
  <2> DEFINE b == Room - Left
  <2>1. Carries(answers, Stored, s, b) /\ b \in Nat /\ b < Len(Stored) /\ Stored[b + 1] = a.key
    BY <1>7, <1>8, <1>11, <1>12, <1>13, <1>15 DEF OnTheWay
  <2>2. Room - Left' = b + 1
    BY <1>8, <1>10
  <2> HIDE DEF b
  <2>3. Carries(answers', Stored, s, b + 1)
    BY <1>0, <1>11, <1>14, <1>15, <2>1, CarriesAppend
  <2> QED BY <2>2, <2>3
<1>18. Len(answers') = ((Room - Left') - s) + (r - q)
  <2>1. Len(answers) = ((Room - Left) - s) + (r - q)
    BY <1>7 DEF OnTheWay
  <2>2. Len(answers') = Len(answers) + 1 /\ Len(answers) \in Nat
    BY <1>0, <1>14, <1>15
  <2> QED BY <1>8, <1>10, <2>1, <2>2
<1>19. Is(Rdma) => register'.msn = Len(got) + Len(answers')
  BY <1>0, <1>7, <1>14, <1>15 DEF Counted
<1>20. AnswersOw(answers, Len(got))'
  BY <1>0, <1>1, <1>7, <1>13, <1>14, <1>15, AnswersAppended DEF Counted
<1>21. /\ \A i \in DOMAIN requests' : (IsCollect(requests[i]) \/ IsQueryOf(requests[i]))'
       /\ Carries(requests', Queried, r, Sent)
  BY <1>1, <1>7, SetupStays DEF OnTheWay, IsCollect
<1> QED BY <1>1, <1>3, <1>4, <1>5, <1>6, <1>10, <1>16, <1>17, <1>18, <1>19, <1>20, <1>21, OwServed
(* Arithmetic on numbers of answers.                                       *)
LEMMA OneTaken ==
  ASSUME NEW g \in Nat, NEW h \in Nat, NEW s \in Nat, NEW q \in Nat, NEW r \in Nat, NEW c \in Int,
         g = s + q, h = (c - s) + (r - q)
  PROVE  /\ g + 1 = (s + 1) + q /\ h - 1 = (c - (s + 1)) + (r - q)
         /\ g + 1 = s + (q + 1) /\ h - 1 = (c - s) + (r - (q + 1))
         /\ (g + 1) + (h - 1) = g + h
  OBVIOUS

(* After an answer has arrived.                                            *)
LEMMA OwTaken ==
  ASSUME CollectionTyped, NEW s \in Nat, NEW q \in Nat, NEW r \in Nat, OnTheWay(s, q, r),
         AnswersOw(got, 0), AnswersOw(answers, Len(got)), answers # <<>>,
         UNCHANGED <<setup, register, mirrored>>, got' = Append(got, answers[1]), answers' = Tail(answers)
  PROVE  \E u, v \in Nat :
           /\ \/ u = s + 1 /\ v = q /\ u \in 1 .. Room /\ answers[1].key = Stored[u]
              \/ u = s /\ v = q + 1 /\ v \in 1 .. nInject /\ v <= r /\ answers[1].key = Queried[v]
           /\ Carries(answers', Stored, u, Room - Left) /\ Carries(answers', Queried, v, r)
           /\ Carries(got', Stored, 0, u) /\ Carries(got', Queried, 0, v)
           /\ Len(got') = u + v /\ Len(answers') = ((Room - Left) - u) + (r - v)
           /\ AnswersOw(got, 0)' /\ AnswersOw(answers, Len(got))'
           /\ Awaited(u, v) = IF Final(answers[1].key) THEN Awaited(s, q) - 1 ELSE Awaited(s, q)
           /\ Len(got') + Len(answers') = Len(got) + Len(answers)
<1>0. /\ setup \in Setups /\ Room \in Nat /\ nInject \in Nat /\ Left \in Nat
      /\ Len(got) \in Nat /\ Len(answers) \in Nat
  BY SizesAre, LeftType, SMTT(30) DEF CollectionTyped
<1>1. /\ Carries(answers, Stored, s, Room - Left) /\ Carries(answers, Queried, q, r)
      /\ Carries(got, Stored, 0, s) /\ Carries(got, Queried, 0, q)
      /\ Len(got) = s + q /\ Len(answers) = ((Room - Left) - s) + (r - q)
  BY DEF OnTheWay
<1>2. /\ \/ /\ s < Room - Left /\ s + 1 \in 1 .. Room /\ answers[1].key = Stored[s + 1]
            /\ Carries(answers', Stored, s + 1, Room - Left) /\ Carries(answers', Queried, q, r)
            /\ Carries(got', Stored, 0, s + 1) /\ Carries(got', Queried, 0, q)
         \/ /\ q < r /\ q + 1 \in 1 .. nInject /\ answers[1].key = Queried[q + 1]
            /\ Carries(answers', Stored, s, Room - Left) /\ Carries(answers', Queried, q + 1, r)
            /\ Carries(got', Stored, 0, s) /\ Carries(got', Queried, 0, q + 1)
      /\ AnswersOw(got, 0)' /\ AnswersOw(answers, Len(got))'
      /\ Len(got') = Len(got) + 1 /\ Len(answers') = Len(answers) - 1
  BY <1>1, OwArrives
<1>3. ASSUME NEW u \in Nat, u = s + 1, u \in 1 .. Room, answers[1].key = Stored[u]
      PROVE  /\ Awaited(u, q) = IF Final(answers[1].key) THEN Awaited(s, q) - 1 ELSE Awaited(s, q)
             /\ Len(got') = u + q /\ Len(answers') = ((Room - Left) - u) + (r - q)
             /\ Len(got') + Len(answers') = Len(got) + Len(answers)
  <2>1. Final(answers[1].key) <=> u = Room
    BY <1>0, <1>3, KeysAre
  <2>2. s # Room
    BY <1>0, <1>3
  <2>3. Awaited(u, q) = IF Final(answers[1].key) THEN Awaited(s, q) - 1 ELSE Awaited(s, q)
    BY <2>1, <2>2 DEF Awaited
  <2>4. Room - Left \in Int
    BY <1>0
  <2>5. /\ Len(got) + 1 = (s + 1) + q /\ Len(answers) - 1 = ((Room - Left) - (s + 1)) + (r - q)
        /\ (Len(got) + 1) + (Len(answers) - 1) = Len(got) + Len(answers)
    BY <1>0, <1>1, <2>4, OneTaken
  <2> QED BY <1>2, <1>3, <2>3, <2>5
<1>4. ASSUME NEW v \in Nat, v = q + 1, v \in 1 .. nInject, answers[1].key = Queried[v]
      PROVE  /\ Awaited(s, v) = IF Final(answers[1].key) THEN Awaited(s, q) - 1 ELSE Awaited(s, q)
             /\ Len(got') = s + v /\ Len(answers') = ((Room - Left) - s) + (r - v)
             /\ Len(got') + Len(answers') = Len(got) + Len(answers)
  <2>1. Final(answers[1].key) <=> v = nInject
    BY <1>0, <1>4, KeysAre
  <2>2. q # nInject /\ nInject > 0
    BY <1>0, <1>4
  <2>3. Awaited(s, v) = IF Final(answers[1].key) THEN Awaited(s, q) - 1 ELSE Awaited(s, q)
    BY <2>1, <2>2 DEF Awaited
  <2>4. Room - Left \in Int
    BY <1>0
  <2>5. /\ Len(got) + 1 = s + (q + 1) /\ Len(answers) - 1 = ((Room - Left) - s) + (r - (q + 1))
        /\ (Len(got) + 1) + (Len(answers) - 1) = Len(got) + Len(answers)
    BY <1>0, <1>1, <2>4, OneTaken
  <2> QED BY <1>2, <1>4, <2>3, <2>5
<1>5. CASE /\ s < Room - Left /\ s + 1 \in 1 .. Room /\ answers[1].key = Stored[s + 1]
           /\ Carries(answers', Stored, s + 1, Room - Left) /\ Carries(answers', Queried, q, r)
           /\ Carries(got', Stored, 0, s + 1) /\ Carries(got', Queried, 0, q)
  <2> DEFINE u == s + 1
  <2>1. u \in Nat /\ u = s + 1
    OBVIOUS
  <2> HIDE DEF u
  <2>2. /\ u \in 1 .. Room /\ answers[1].key = Stored[u]
        /\ Carries(answers', Stored, u, Room - Left) /\ Carries(answers', Queried, q, r)
        /\ Carries(got', Stored, 0, u) /\ Carries(got', Queried, 0, q)
    BY <1>5, <2>1
  <2>3. /\ Awaited(u, q) = IF Final(answers[1].key) THEN Awaited(s, q) - 1 ELSE Awaited(s, q)
        /\ Len(got') = u + q /\ Len(answers') = ((Room - Left) - u) + (r - q)
        /\ Len(got') + Len(answers') = Len(got) + Len(answers)
    BY <1>3, <2>1, <2>2
  <2> QED BY <1>2, <2>1, <2>2, <2>3
<1>6. CASE /\ q < r /\ q + 1 \in 1 .. nInject /\ answers[1].key = Queried[q + 1]
           /\ Carries(answers', Stored, s, Room - Left) /\ Carries(answers', Queried, q + 1, r)
           /\ Carries(got', Stored, 0, s) /\ Carries(got', Queried, 0, q + 1)
  <2> DEFINE v == q + 1
  <2>1. v \in Nat /\ v = q + 1 /\ v <= r
    BY <1>6
  <2> HIDE DEF v
  <2>2. /\ v \in 1 .. nInject /\ answers[1].key = Queried[v]
        /\ Carries(answers', Stored, s, Room - Left) /\ Carries(answers', Queried, v, r)
        /\ Carries(got', Stored, 0, s) /\ Carries(got', Queried, 0, v)
    BY <1>6, <2>1
  <2>3. /\ Awaited(s, v) = IF Final(answers[1].key) THEN Awaited(s, q) - 1 ELSE Awaited(s, q)
        /\ Len(got') = s + v /\ Len(answers') = ((Room - Left) - s) + (r - v)
        /\ Len(got') + Len(answers') = Len(got) + Len(answers)
    BY <1>4, <2>1, <2>2
  <2> QED BY <1>2, <2>1, <2>2, <2>3
<1> QED BY <1>2, <1>5, <1>6

(* The number of last keys to come.                                        *)
LEMMA AwaitedType ==
  ASSUME setup \in Setups, NEW s \in Nat, NEW q \in Nat
  PROVE  /\ Awaited(s, q) \in 0 .. 2
         /\ (Awaited(s, q) = 0 <=> s = Room /\ nInject > 0 /\ q = nInject)
         /\ (Awaited(s, q) = 0 => s + q = nKey)
<1>1. Room + nInject = nKey
  BY SizesAre
<1> QED BY <1>1 DEF Awaited

(* The completions, when one joins and when the first one leaves.          *)
LEMMA CompletionsAre ==
  ASSUME NEW z \in Seq(Int), NEW e \in Int
  PROVE  /\ Len(z) \in Nat
         /\ Len(Append(z, e)) = Len(z) + 1 /\ Append(z, e) # <<>> /\ Append(z, e)[Len(z) + 1] = e
         /\ z # <<>> => /\ Len(Tail(z)) = Len(z) - 1
                        /\ Tail(z) = <<>> => Len(z) = 1 /\ z[Len(z)] = z[1]
                        /\ Tail(z) # <<>> => Tail(z)[Len(Tail(z))] = z[Len(z)]
<1>1. /\ Len(z) \in Nat
      /\ Len(Append(z, e)) = Len(z) + 1 /\ Append(z, e) # <<>> /\ Append(z, e)[Len(z) + 1] = e
  OBVIOUS
<1>2. ASSUME z # <<>>
      PROVE  /\ Len(Tail(z)) = Len(z) - 1
             /\ Tail(z) = <<>> => Len(z) = 1 /\ z[Len(z)] = z[1]
             /\ Tail(z) # <<>> => Tail(z)[Len(Tail(z))] = z[Len(z)]
  <2>1. /\ Len(z) \in Nat /\ Len(z) > 0 /\ Len(Tail(z)) = Len(z) - 1 /\ Tail(z) \in Seq(Int)
        /\ \A i \in 1 .. Len(z) - 1 : Tail(z)[i] = z[i + 1]
    BY <1>2
  <2>2. Tail(z) = <<>> => Len(z) = 1
    <3>1. Len(<<>>) = 0
      OBVIOUS
    <3>2. Tail(z) = <<>> => Len(z) - 1 = 0
      BY <2>1, <3>1
    <3> QED BY <2>1, <3>2
  <2>3. ASSUME Tail(z) # <<>> PROVE Tail(z)[Len(Tail(z))] = z[Len(z)]
    <3>1. Len(Tail(z)) # 0
      BY <2>1, <2>3
    <3> DEFINE j == Len(z) - 1
    <3>2. j \in 1 .. Len(z) - 1 /\ j + 1 = Len(z) /\ Len(Tail(z)) = j
      BY <2>1, <3>1
    <3> HIDE DEF j
    <3>3. Tail(z)[j] = z[j + 1]
      BY <2>1, <3>2
    <3> QED BY <3>2, <3>3
  <2> QED BY <2>1, <2>2, <2>3
<1> QED BY <1>1, <1>2

(* The NIC takes the next answer; with a last key a receive completes.     *)
LEMMA OwNicWritten ==
  ASSUME CollectionTyped, OwRight, Is({"ow", "ow-rdma"}), NicWrite
  PROVE  CollectionTyped' /\ OwRight'
<1> DEFINE a == answers[1]
<1>0. setup \in Setups /\ answers \in Seq(Reply) /\ got \in Seq(Reply) /\ qp.completions \in Seq(Int)
      /\ qp.recvs \in Nat /\ main.barrier \in Int
  BY FieldsTyped DEF CollectionTyped
<1>1. /\ CollectionTyped' /\ Is(Rdma) /\ answers # <<>>
      /\ got' = Append(got, a) /\ answers' = Tail(answers)
      /\ IF a.last
         THEN /\ qp.recvs > 0 /\ qp'.recvs = qp.recvs - 1
              /\ qp'.completions = Append(qp.completions, a.idx + 1)
         ELSE qp' = qp
      /\ UNCHANGED <<setup, register, requests, mirrored, main>>
  BY NicWriteIs
<1>2. main.pc \in {"wait", "done"}
  BY <1>1 DEF OwRight, At, NotAsking, Silent
<1>3. PICK s \in Nat, q \in Nat, r \in Nat : Collecting(s, q, r)
  BY <1>2 DEF OwRight, At
<1>4. StoredRight /\ (main.pc = "done" <=> main.barrier = 0)
  BY <1>2 DEF OwRight, At
<1>5. OnTheWay(s, q, r) /\ Counted(s, q) /\ AnswersOw(got, 0) /\ AnswersOw(answers, Len(got))
  BY <1>3 DEF Collecting
<1>6. PICK u \in Nat, v \in Nat :
           /\ \/ u = s + 1 /\ v = q /\ u \in 1 .. Room /\ answers[1].key = Stored[u]
              \/ u = s /\ v = q + 1 /\ v \in 1 .. nInject /\ v <= r /\ answers[1].key = Queried[v]
           /\ Carries(answers', Stored, u, Room - Left) /\ Carries(answers', Queried, v, r)
           /\ Carries(got', Stored, 0, u) /\ Carries(got', Queried, 0, v)
           /\ Len(got') = u + v /\ Len(answers') = ((Room - Left) - u) + (r - v)
           /\ AnswersOw(got, 0)' /\ AnswersOw(answers, Len(got))'
           /\ Awaited(u, v) = IF Final(answers[1].key) THEN Awaited(s, q) - 1 ELSE Awaited(s, q)
           /\ Len(got') + Len(answers') = Len(got) + Len(answers)
  BY <1>1, <1>5, OwTaken
<1>7. a.idx = Len(got) /\ (a.last <=> Final(a.key)) /\ Len(got) \in Nat /\ Len(got') = Len(got) + 1
  <2>1. 1 \in DOMAIN answers /\ Len(got) \in Nat /\ a \in Reply
    BY <1>0, <1>1
  <2>2. a.idx = (Len(got) + 1) - 1 /\ (a.last <=> Final(a.key))
    BY <1>1, <1>5, <2>1 DEF AnswersOw
  <2>3. Len(got') = Len(got) + 1
    BY <1>0, <1>1, <2>1
  <2> QED BY <2>1, <2>2, <2>3
<1>8. /\ nInject' = nInject /\ Room' = Room /\ Stored' = Stored /\ Queried' = Queried /\ Is(Rdma)' = Is(Rdma)
      /\ Sent' = Sent /\ Left' = Left /\ nKey' = nKey
  BY <1>1, SetupStays DEF Sent, Left
<1> HIDE DEF a
<1>9. Counted(u, v)'
  <2>1. /\ main.rem = 0
        /\ register.msn = Len(got) + Len(answers)
        /\ qp.recvs = Awaited(s, q) /\ Len(qp.completions) = main.barrier - Awaited(s, q)
        /\ Awaited(s, q) = 0 => main.nKeys = nKey \/ qp.completions # <<>>
        /\ Awaited(s, q) = 0 /\ qp.completions # <<>> =>
             qp.completions[Len(qp.completions)] = nKey
    BY <1>1, <1>5 DEF Counted
  <2>2. Awaited(u, v) = 0 => u + v = nKey
    BY <1>0, AwaitedType
  <2>3. Awaited(s, q) \in 0 .. 2
    BY <1>0, AwaitedType
  <2>4. /\ qp'.recvs = Awaited(u, v) /\ Len(qp'.completions) = main.barrier - Awaited(u, v)
        /\ Awaited(u, v) = 0 => main.nKeys = nKey \/ qp'.completions # <<>>
        /\ Awaited(u, v) = 0 /\ qp'.completions # <<>> =>
             qp'.completions[Len(qp'.completions)] = nKey
    <3>1. CASE a.last
      <4>1. Awaited(u, v) = Awaited(s, q) - 1
        BY <1>6, <1>7, <3>1 DEF a
      <4>2. a.idx + 1 = u + v /\ a.idx + 1 \in Int
        BY <1>6, <1>7
      <4>3. /\ qp'.completions = Append(qp.completions, a.idx + 1) /\ qp'.recvs = qp.recvs - 1
        BY <1>1, <3>1
      <4>4. /\ Len(qp'.completions) = Len(qp.completions) + 1 /\ qp'.completions # <<>>
            /\ qp'.completions[Len(qp'.completions)] = a.idx + 1 /\ Len(qp.completions) \in Nat
        BY <1>0, <4>2, <4>3, CompletionsAre
      <4>5. qp.recvs - 1 = Awaited(u, v)
        BY <2>1, <4>1
      <4>6. Len(qp.completions) + 1 = main.barrier - Awaited(u, v)
        BY <1>0, <2>1, <2>3, <4>1, SMTT(30)
      <4> QED BY <2>2, <4>2, <4>3, <4>4, <4>5, <4>6
    <3>2. CASE ~a.last
      <4>1. Awaited(u, v) = Awaited(s, q) /\ qp' = qp
        BY <1>1, <1>6, <1>7, <3>2 DEF a
      <4> QED BY <2>1, <4>1
    <3> QED BY <3>1, <3>2
  <2>5. register'.msn = Len(got') + Len(answers') /\ main'.rem = 0 /\ main' = main
    BY <1>1, <1>6, <2>1
  <2>6. Awaited(u, v)' = Awaited(u, v)
    BY <1>1, SetupStays
  <2> QED BY <1>1, <1>8, <2>4, <2>5, <2>6 DEF Counted
<1>10. OnTheWay(u, v, r)'
  <2>1. /\ \A i \in DOMAIN requests' : (IsCollect(requests[i]) \/ IsQueryOf(requests[i]))'
        /\ Carries(requests', Queried', r, Sent')
    BY <1>1, <1>5, <1>8, SetupStays DEF OnTheWay, IsCollect
  <2>2. /\ Carries(answers', Stored', u, Room' - Left') /\ Carries(answers', Queried', v, r)
        /\ Carries(got', Stored', 0, u) /\ Carries(got', Queried', 0, v)
        /\ Len(got') = u + v /\ Len(answers') = ((Room' - Left') - u) + (r - v)
    BY <1>6, <1>8
  <2> QED BY <2>1, <2>2 DEF OnTheWay
<1>11. StoredRight'
  BY <1>1, <1>4, <1>8 DEF StoredRight, IsTaken
<1>12. Collecting(u, v, r)'
  BY <1>6, <1>9, <1>10 DEF Collecting
<1> QED BY <1>1, <1>2, <1>4, <1>11, <1>12, StillOwRight

(* The host takes a completion: the barrier stays ahead by what is awaited. *)
LEMMA OwPolled ==
  ASSUME CollectionTyped, OwRight, Is({"ow", "ow-rdma"}), ~Is(Rdma) => qp.completions = <<>>, PollCQ
  PROVE  CollectionTyped' /\ OwRight'
<1>0. setup \in Setups /\ qp.completions \in Seq(Int)
      /\ qp.recvs \in Nat /\ main.barrier \in Int
  BY FieldsTyped DEF CollectionTyped
<1>1. /\ CollectionTyped' /\ main.pc = "wait" /\ qp.completions # <<>>
      /\ qp'.recvs = qp.recvs /\ qp'.completions = Tail(qp.completions)
      /\ main'.barrier = main.barrier - 1 /\ main'.nKeys = qp.completions[1]
      /\ main'.pc = IF main.barrier = 1 THEN "done" ELSE "wait"
      /\ main'.rem = main.rem /\ main'.next = main.next
      /\ UNCHANGED <<setup, register, requests, mirrored, answers, got>>
  BY PollCQIs
<1>2. PICK s \in Nat, q \in Nat, r \in Nat : Collecting(s, q, r)
  BY <1>1 DEF OwRight, At
<1>3. StoredRight
  BY DEF OwRight
<1>4. OnTheWay(s, q, r) /\ Counted(s, q) /\ AnswersOw(got, 0) /\ AnswersOw(answers, Len(got))
  BY <1>2 DEF Collecting
<1>5. /\ nInject' = nInject /\ Room' = Room /\ Stored' = Stored /\ Queried' = Queried /\ Is(Rdma)' = Is(Rdma)
      /\ Sent' = Sent /\ Left' = Left /\ nKey' = nKey
  BY <1>1, SetupStays DEF Sent, Left
<1>6. Counted(s, q)'
  <2>1. /\ Is(Rdma) /\ main.rem = 0
        /\ register.msn = Len(got) + Len(answers)
        /\ qp.recvs = Awaited(s, q) /\ Len(qp.completions) = main.barrier - Awaited(s, q)
        /\ Awaited(s, q) = 0 => main.nKeys = nKey \/ qp.completions # <<>>
        /\ Awaited(s, q) = 0 /\ qp.completions # <<>> =>
             qp.completions[Len(qp.completions)] = nKey
    BY <1>1, <1>4 DEF Counted
  <2> DEFINE z == qp.completions
  <2>2. /\ Len(Tail(z)) = Len(z) - 1 /\ Len(z) \in Nat
        /\ (Tail(z) = <<>> => Len(z) = 1)
        /\ (Tail(z) # <<>> => Tail(z)[Len(Tail(z))] = z[Len(z)])
        /\ (Len(z) = 1 => z[Len(z)] = z[1])
    BY <1>0, <1>1, CompletionsAre
  <2>3. Awaited(s, q) \in 0 .. 2
    BY <1>0, AwaitedType
  <2>4. /\ qp'.recvs = Awaited(s, q) /\ Len(qp'.completions) = main'.barrier - Awaited(s, q)
        /\ Awaited(s, q) = 0 => main'.nKeys = nKey \/ qp'.completions # <<>>
        /\ Awaited(s, q) = 0 /\ qp'.completions # <<>> =>
             qp'.completions[Len(qp'.completions)] = nKey
    <3>1. Len(Tail(z)) = main'.barrier - Awaited(s, q)
      <4>1. Len(z) = main.barrier - Awaited(s, q) /\ main'.barrier = main.barrier - 1
        BY <1>1, <2>1
      <4> HIDE DEF z
      <4> QED BY <1>0, <2>2, <2>3, <4>1
    <3>2. z # <<>> /\ main'.nKeys = z[1] /\ qp'.completions = Tail(z) /\ qp'.recvs = qp.recvs
      BY <1>1
    <3>3. Awaited(s, q) = 0 => z[Len(z)] = nKey
      BY <2>1, <3>2
    <3>4. qp.recvs = Awaited(s, q)
      BY <2>1
    <3> HIDE DEF z
    <3>5. Awaited(s, q) = 0 => main'.nKeys = nKey \/ qp'.completions # <<>>
      BY <2>2, <3>2, <3>3
    <3> QED BY <2>2, <3>1, <3>2, <3>3, <3>4, <3>5
  <2>5. Awaited(s, q)' = Awaited(s, q)
    BY <1>1, SetupStays
  <2> QED BY <1>1, <1>5, <2>1, <2>4, <2>5 DEF Counted
<1>7. OnTheWay(s, q, r)'
  BY <1>1, <1>4, <1>5, SetupStays DEF OnTheWay, IsCollect
<1>8. StoredRight'
  BY <1>1, <1>3, <1>5 DEF StoredRight, IsTaken
<1>9. AnswersOw(got, 0)' /\ AnswersOw(answers, Len(got))'
  BY <1>1, <1>4, <1>5, SetupStays DEF AnswersOw
<1>10. Collecting(s, q, r)'
  BY <1>6, <1>7, <1>9 DEF Collecting
<1>11. main'.pc \in {"wait", "done"} /\ (main'.pc = "done" <=> main'.barrier = 0)
  BY <1>0, <1>1
<1> QED BY <1>1, <1>8, <1>10, <1>11, StillOwRight

(* s holds queries of keys in turn, behind n others.                       *)
QueriesOf(s, n) == \A i \in DOMAIN s : IsQueryOf(s[i]) /\ s[i].key = Queried[n + i]

(* The queries that the host of ow sends, with from keys left to ask for.  *)
LEMMA QueriesDownAre ==
  ASSUME setup \in Setups, ~Is(Rdma), NEW from \in Nat, NEW to \in Nat, to <= from, from <= nInject,
         NEW z, z = QueriesDown(from, to)
  PROVE  z \in Seq(Packet) /\ Len(z) = from - to /\ QueriesOf(z, nInject - from)
<1>0. /\ NKeysDp \in Nat /\ nKey \in Nat /\ nInject \in Nat /\ Room \in Nat /\ Room + nInject = nKey
      /\ (nInject > 0 => Room = NKeysDp)
  BY SizesAre
<1>1. z \in Seq(Packet)
  BY RequestsTyped
<1>2. z = [i \in 1 .. from - to |-> Query(NKeysDp + from - i)]
  BY DEF QueriesDown
<1>3. Len(z) = from - to /\ DOMAIN z = 1 .. from - to
  <2>1. from - to \in Nat
    OBVIOUS
  <2> QED BY <1>2, <2>1
<1>4. ASSUME NEW i \in 1 .. from - to
      PROVE  IsQueryOf(z[i]) /\ z[i].key = Queried[(nInject - from) + i]
  <2> DEFINE k == NKeysDp + from - i
             t == (nInject - from) + i
  <2>1. t \in 1 .. nInject /\ k \in Int /\ k < nKey /\ k = (NKeysDp + nInject) - t
    BY <1>0
  <2>2. z[i] = Query(k)
    BY <1>2
  <2>3. Queried[t] = k /\ DOMAIN Queried = 1 .. nInject
    <3> HIDE DEF k
    <3>1. Queried[t] = IF Is(Rdma) THEN (NKeysDp + t) - 1 ELSE (NKeysDp + nInject) - t
      BY <2>1, TurnsAre
    <3> QED BY <1>0, <2>1, <3>1, TurnsAre
  <2> HIDE DEF k, t
  <2>4. ~z[i].col /\ ~z[i].last /\ z[i].idx = k /\ z[i].key = k
    BY <2>1, <2>2, QueryIs
  <2>5. IsQueryOf(z[i])
    BY <2>1, <2>3, <2>4 DEF IsQueryOf
  <2>6. z[i].key = Queried[t]
    BY <2>3, <2>4
  <2> QED BY <2>5, <2>6 DEF t
<1> QED BY <1>1, <1>3, <1>4 DEF QueriesOf

(* The next batch goes when one batch is on its way.                       *)
LEMMA StillPaced ==
  ASSUME NEW n \in Nat, NEW rem \in 0 .. n, NEW q \in Nat, NEW m \in Nat, m > 0,
         rem > 0 => (n - rem) - q > m, (n - rem) - q <= 2 * m, NEW rem2,
         rem2 = IF n - (q + 1) = rem + m THEN rem - Smaller(m, rem) ELSE rem
  PROVE  /\ rem2 \in 0 .. rem
         /\ rem2 > 0 => (n - rem2) - (q + 1) > m
         /\ (n - rem2) - (q + 1) <= 2 * m
<1>1. CASE n - (q + 1) = rem + m
  <2>1. rem2 = rem - (IF m < rem THEN m ELSE rem)
    BY <1>1 DEF Smaller
  <2> QED BY <1>1, <2>1
<1>2. CASE n - (q + 1) # rem + m
  BY <1>2
<1> QED BY <1>1, <1>2

(* The host of ow takes the next answer, and may send the next batch.      *)
LEMMA OwReceived ==
  ASSUME CollectionTyped, OwRight, NEW a, RecvOw(a)
  PROVE  CollectionTyped' /\ OwRight'
<1> DEFINE rem == IF a.idx = main.next THEN main.rem - Smaller(M, main.rem) ELSE main.rem
           z == QueriesDown(main.rem, rem)
<1>0. /\ setup \in Setups /\ answers \in Seq(Reply) /\ got \in Seq(Reply) /\ main.barrier \in Int
      /\ requests \in Seq(Packet)
      /\ NKeysDp \in Nat /\ NKeysDp > 0 /\ M \in Nat /\ M > 0 /\ nInject \in Nat /\ Room \in Nat
  BY FieldsTyped, SizesAre DEF CollectionTyped
<1>1. /\ CollectionTyped' /\ Is({"ow"}) /\ Recv(a) /\ rem \in Int
      /\ requests' = requests \o z
      /\ main'.rem = rem
      /\ main'.next = IF a.idx = main.next THEN NextInject(rem) ELSE main.next
      /\ main'.barrier = IF a.idx \in {0, NKeysDp} THEN main.barrier - 1 ELSE main.barrier
      /\ main'.pc = IF a.idx \in {0, NKeysDp} /\ main.barrier = 1 THEN "done" ELSE "wait"
  BY RecvOwIs
<1>2. /\ main.pc = "wait" /\ ~Is(Rdma) /\ answers # <<>> /\ a = answers[1] /\ a \in Reply
      /\ answers' = Tail(answers) /\ got' = Append(got, a)
      /\ UNCHANGED <<setup, register, mirrored, qp>>
  BY <1>1, RecvIs
<1> HIDE DEF rem
<1>3. PICK s \in Nat, q \in Nat, r \in Nat : Collecting(s, q, r)
  BY <1>2 DEF OwRight, At
<1>4. StoredRight /\ main.barrier # 0
  BY <1>2 DEF OwRight, At
<1>5. OnTheWay(s, q, r) /\ Counted(s, q) /\ AnswersOw(got, 0) /\ AnswersOw(answers, Len(got))
  BY <1>3 DEF Collecting
<1>6. PICK u \in Nat, v \in Nat :
           /\ \/ u = s + 1 /\ v = q /\ u \in 1 .. Room /\ answers[1].key = Stored[u]
              \/ u = s /\ v = q + 1 /\ v \in 1 .. nInject /\ v <= r /\ answers[1].key = Queried[v]
           /\ Carries(answers', Stored, u, Room - Left) /\ Carries(answers', Queried, v, r)
           /\ Carries(got', Stored, 0, u) /\ Carries(got', Queried, 0, v)
           /\ Len(got') = u + v /\ Len(answers') = ((Room - Left) - u) + (r - v)
           /\ AnswersOw(got, 0)' /\ AnswersOw(answers, Len(got))'
           /\ Awaited(u, v) = IF Final(answers[1].key) THEN Awaited(s, q) - 1 ELSE Awaited(s, q)
           /\ Len(got') + Len(answers') = Len(got) + Len(answers)
  <2>1. got' = Append(got, answers[1])
    BY <1>2
  <2> QED BY <1>2, <1>5, <2>1, OwTaken
<1>7. /\ nInject' = nInject /\ Room' = Room /\ Stored' = Stored /\ Queried' = Queried /\ Is(Rdma)' = Is(Rdma)
      /\ Left' = Left /\ nKey' = nKey
  BY <1>2, SetupStays DEF Left
<1>8. a.idx = a.key
  <2>1. 1 \in DOMAIN answers
    BY <1>0, <1>2
  <2> QED BY <1>2, <1>5, <2>1 DEF AnswersOw
<1>9. main.barrier = Awaited(s, q) /\ Awaited(s, q) \in 0 .. 2
  BY <1>0, <1>2, <1>5, AwaitedType DEF Counted
<1>10. /\ main.rem \in 0 .. nInject /\ main.next = NKeysDp + main.rem + M
       /\ (main.rem > 0 => Sent - q > M) /\ Sent - q <= 2 * M
  BY <1>2, <1>5 DEF Counted, Paced, NextInject
<1>11. a.idx \in {0, NKeysDp} <=> Final(a.key)
  <2>1. CASE u \in 1 .. Room /\ a.key = Stored[u]
    <3>1. Stored[u] < NKeysDp /\ Stored[u] \in Nat /\ (Final(Stored[u]) <=> u = Room) /\ (Stored[u] = 0 <=> u = Room)
      BY <1>0, <2>1, KeysAre
    <3> QED BY <1>0, <1>8, <2>1, <3>1
  <2>2. CASE v \in 1 .. nInject /\ a.key = Queried[v]
    <3>1. Queried[v] >= NKeysDp /\ Queried[v] \in Nat /\ (Final(Queried[v]) <=> v = nInject)
      BY <1>0, <2>2, KeysAre
    <3>2. Queried[v] = (NKeysDp + nInject) - v
      BY <1>0, <1>2, <2>2, TurnsAre
    <3> QED BY <1>0, <1>8, <2>2, <3>1, <3>2
  <2> QED BY <1>2, <1>6, <2>1, <2>2
<1>12. main'.barrier = Awaited(u, v) /\ main'.pc \in {"wait", "done"}
       /\ (main'.pc = "done" <=> main'.barrier = 0)
  <2>1. Awaited(u, v) = IF Final(a.key) THEN Awaited(s, q) - 1 ELSE Awaited(s, q)
    BY <1>2, <1>6
  <2>2. CASE Final(a.key)
    BY <1>1, <1>9, <1>11, <2>1, <2>2
  <2>3. CASE ~Final(a.key)
    BY <1>1, <1>4, <1>9, <1>11, <2>1, <2>3
  <2> QED BY <2>2, <2>3
<1>13. /\ rem \in 0 .. main.rem
       /\ rem > 0 => (nInject - rem) - v > M
       /\ (nInject - rem) - v <= 2 * M
  <2>1. CASE v = q /\ u \in 1 .. Room /\ a.key = Stored[u]
    <3>1. Stored[u] < NKeysDp /\ Stored[u] \in Nat
      BY <1>0, <2>1, KeysAre
    <3>2. a.idx # main.next
      BY <1>0, <1>8, <1>10, <2>1, <3>1, SMTT(30)
    <3>3. rem = main.rem
      BY <3>2 DEF rem
    <3> QED BY <1>10, <2>1, <3>3 DEF Sent
  <2>2. CASE v = q + 1 /\ v \in 1 .. nInject /\ a.key = Queried[v]
    <3>1. Queried[v] = (NKeysDp + nInject) - v
      BY <1>0, <1>2, <2>2, TurnsAre
    <3>2. a.idx = main.next <=> nInject - (q + 1) = main.rem + M
      <4>1. a.idx = (NKeysDp + nInject) - (q + 1)
        BY <1>8, <2>2, <3>1
      <4>2. main.rem \in Nat /\ main.next = NKeysDp + main.rem + M
        BY <1>0, <1>10
      <4> DEFINE b == main.rem
                 n == nInject
                 x == a.idx
                 y == main.next
      <4>3. /\ b \in Nat /\ n \in Nat /\ x = (NKeysDp + n) - (q + 1) /\ y = NKeysDp + b + M
        BY <1>0, <4>1, <4>2
      <4> HIDE DEF b, n, x, y
      <4>4. x = y <=> n - (q + 1) = b + M
        BY <1>0, <4>3
      <4> QED BY <4>4 DEF b, n, x, y
    <3>3. rem = IF nInject - (q + 1) = main.rem + M THEN main.rem - Smaller(M, main.rem) ELSE main.rem
      BY <3>2 DEF rem
    <3>4. (main.rem > 0 => (nInject - main.rem) - q > M) /\ (nInject - main.rem) - q <= 2 * M
      BY <1>10 DEF Sent
    <3>5. /\ rem \in 0 .. main.rem
          /\ rem > 0 => (nInject - rem) - (q + 1) > M
          /\ (nInject - rem) - (q + 1) <= 2 * M
      BY <1>0, <1>10, <3>3, <3>4, StillPaced, ZenonT(60)
    <3> QED BY <2>2, <3>5
  <2> QED BY <1>2, <1>6, <2>1, <2>2
<1>14. /\ z \in Seq(Packet) /\ Len(z) = main.rem - rem
       /\ \A i \in DOMAIN z : IsQueryOf(z[i]) /\ z[i].key = Queried[Sent + i]
  <2>1. rem \in Nat /\ rem <= main.rem /\ main.rem \in Nat /\ main.rem <= nInject
    BY <1>0, <1>10, <1>13
  <2>2. ~Is(Rdma) /\ Sent = nInject - main.rem
    BY <1>0, <1>2 DEF Sent
  <2>3. setup \in Setups /\ z = QueriesDown(main.rem, rem)
    BY <1>0
  <2> HIDE DEF rem, z
  <2>4. z \in Seq(Packet) /\ Len(z) = main.rem - rem /\ QueriesOf(z, nInject - main.rem)
    BY <2>1, <2>2, <2>3, QueriesDownAre
  <2> QED BY <2>2, <2>4 DEF QueriesOf
<1> HIDE DEF z
<1>15. Sent \in Nat /\ Sent' = Sent + Len(z) /\ Sent' <= nInject
  <2>1. Sent = nInject - main.rem /\ Sent' = nInject - rem
    BY <1>1, <1>7 DEF Sent
  <2>2. Len(z) = main.rem - rem /\ main.rem \in 0 .. nInject /\ rem \in 0 .. main.rem
    BY <1>10, <1>13, <1>14
  <2> DEFINE b == main.rem
             n == nInject
             l == Len(z)
  <2>3. n \in Nat /\ b \in 0 .. n /\ rem \in 0 .. b /\ l = b - rem
    BY <1>0, <2>2
  <2> HIDE DEF b, n, l
  <2>4. n - b \in Nat /\ n - rem = (n - b) + l /\ n - rem <= n
    BY <2>3
  <2> QED BY <2>1, <2>4 DEF b, n, l
<1>16. Carries(requests', Queried, r, Sent')
  <2>1. Carries(requests, Queried, r, Sent)
    BY <1>5 DEF OnTheWay
  <2>2. Queried \in Seq(Int) /\ IsInjective(Queried) /\ Sent + Len(z) <= Len(Queried)
    BY <1>0, <1>15, TurnsAre
  <2>3. Carries(requests \o z, Queried, r, Sent + Len(z))
    BY <1>0, <1>14, <1>15, <2>1, <2>2, CarriesConcat
  <2> QED BY <1>1, <1>15, <2>3
<1>17. \A i \in DOMAIN requests' : (IsCollect(requests[i]) \/ IsQueryOf(requests[i]))'
  <2>1. \A i \in DOMAIN requests : IsCollect(requests[i]) \/ IsQueryOf(requests[i])
    BY <1>5 DEF OnTheWay
  <2> DEFINE Good(x) == IsCollect(x) \/ IsQueryOf(x)
  <2>2. (\A i \in DOMAIN requests : Good(requests[i])) /\ (\A i \in DOMAIN z : Good(z[i]))
    BY <1>14, <2>1
  <2> HIDE DEF Good
  <2>3. \A i \in DOMAIN requests' : Good(requests'[i])
    <3> SUFFICES ASSUME NEW i \in DOMAIN requests' PROVE Good(requests'[i])
      OBVIOUS
    <3> DEFINE m == Len(requests)
    <3>1. /\ m \in Nat /\ Len(z) \in Nat /\ DOMAIN requests = 1 .. m /\ DOMAIN z = 1 .. Len(z)
          /\ i \in 1 .. m + Len(z)
          /\ requests'[i] = IF i <= m THEN requests[i] ELSE z[i - m]
      BY <1>0, <1>1, <1>14
    <3> HIDE DEF m
    <3>2. i <= m => i \in DOMAIN requests
      BY <3>1
    <3>3. ~(i <= m) => i - m \in DOMAIN z
      BY <3>1
    <3> QED BY <2>2, <3>1, <3>2, <3>3
  <2> QED BY <1>2, <2>3, SetupStays DEF Good, IsCollect
<1>18. OnTheWay(u, v, r)'
  <2>1. /\ Carries(answers', Stored', u, Room' - Left') /\ Carries(answers', Queried', v, r)
        /\ Carries(got', Stored', 0, u) /\ Carries(got', Queried', 0, v)
        /\ Len(got') = u + v /\ Len(answers') = ((Room' - Left') - u) + (r - v)
        /\ Carries(requests', Queried', r, Sent')
    BY <1>6, <1>7, <1>16
  <2> QED BY <1>17, <2>1 DEF OnTheWay
<1>19. Paced(v)'
  <2>1. main'.rem \in 0 .. nInject' /\ (main'.rem > 0 => Sent' - v > M) /\ Sent' - v <= 2 * M
    <3>1. Sent' = nInject - rem
      BY <1>1, <1>7 DEF Sent
    <3> QED BY <1>0, <1>1, <1>7, <1>10, <1>13, <3>1
  <2>2. main'.next = NextInject(rem)
    <3>1. a.idx # main.next => rem = main.rem
      BY DEF rem
    <3> QED BY <1>1, <1>10, <3>1 DEF NextInject
  <2> QED BY <1>1, <2>1, <2>2 DEF Paced, NextInject
<1>20. Counted(u, v)'
  <2>1. Awaited(u, v)' = Awaited(u, v)
    BY <1>2, SetupStays
  <2> QED BY <1>2, <1>7, <1>12, <1>19, <2>1 DEF Counted
<1>21. StoredRight'
  BY <1>2, <1>4, <1>7 DEF StoredRight, IsTaken
<1>22. Collecting(u, v, r)'
  BY <1>6, <1>18, <1>20 DEF Collecting
<1> QED BY <1>1, <1>12, <1>21, <1>22, StillOwRight

(* Two sequences, one behind the other.                                    *)
LEMMA Joined ==
  ASSUME NEW S, NEW s \in Seq(S), NEW z \in Seq(S), NEW y, y = s \o z
  PROVE  /\ y \in Seq(S) /\ Len(y) = Len(s) + Len(z) /\ Len(s) \in Nat /\ Len(z) \in Nat
         /\ DOMAIN s = 1 .. Len(s) /\ DOMAIN z = 1 .. Len(z) /\ DOMAIN y = 1 .. Len(s) + Len(z)
         /\ \A i \in DOMAIN s : y[i] = s[i]
         /\ \A i \in DOMAIN y : \/ i \in DOMAIN s /\ y[i] = s[i]
                                \/ i > Len(s) /\ i - Len(s) \in DOMAIN z /\ y[i] = z[i - Len(s)]
<1> DEFINE n == Len(s)
           m == Len(z)
<1>1. /\ y \in Seq(S) /\ Len(y) = n + m /\ n \in Nat /\ m \in Nat
      /\ DOMAIN s = 1 .. n /\ DOMAIN z = 1 .. m /\ DOMAIN y = 1 .. n + m
      /\ \A i \in 1 .. n + m : y[i] = IF i <= n THEN s[i] ELSE z[i - n]
  OBVIOUS
<1> HIDE DEF n, m
<1>2. \A i \in 1 .. n + m : (i <= n => i \in 1 .. n) /\ (~(i <= n) => i > n /\ i - n \in 1 .. m)
  BY <1>1
<1>3. \A i \in DOMAIN y : \/ i \in DOMAIN s /\ y[i] = s[i]
                          \/ i > n /\ i - n \in DOMAIN z /\ y[i] = z[i - n]
  BY <1>1, <1>2
<1>4. \A i \in DOMAIN s : y[i] = s[i]
  BY <1>1
<1> QED BY <1>1, <1>3, <1>4 DEF n, m

(* Behind the keys come elements without one.                              *)
LEMMA CarriesMore ==
  ASSUME NEW S, NEW s \in Seq(S), NEW z \in Seq(S), NEW turns \in Seq(Int),
         NEW a \in Nat, NEW b \in Nat, Carries(s, turns, a, b),
         \A i \in DOMAIN z : IsNone(z[i].key, turns)
  PROVE  Carries(s \o z, turns, a, b)
<1> DEFINE y == s \o z
<1>1. /\ \A i \in DOMAIN s : y[i] = s[i] /\ i \in DOMAIN y
      /\ \A i \in DOMAIN y : i \in DOMAIN s \/ (i - Len(s) \in DOMAIN z /\ y[i] = z[i - Len(s)])
  <2>1. DOMAIN s \subseteq DOMAIN y
    BY Joined
  <2> QED BY <2>1, Joined
<1> HIDE DEF y
<1>2. ASSUME NEW i \in DOMAIN y, NEW t \in DOMAIN turns, y[i].key = turns[t]
      PROVE  i \in DOMAIN s /\ y[i] = s[i]
  BY <1>1, <1>2 DEF IsNone
<1>3. \A i \in DOMAIN y, t \in DOMAIN turns : y[i].key = turns[t] => t \in a + 1 .. b
  BY <1>2 DEF Carries
<1>4. \A t \in a + 1 .. b : \E i \in DOMAIN y : y[i].key = turns[t]
  <2> SUFFICES ASSUME NEW t \in a + 1 .. b PROVE \E i \in DOMAIN y : y[i].key = turns[t]
    OBVIOUS
  <2>1. PICK i \in DOMAIN s : s[i].key = turns[t]
    BY DEF Carries
  <2> QED BY <1>1, <2>1
<1>5. ASSUME NEW i \in DOMAIN y, NEW j \in DOMAIN y, NEW t \in DOMAIN turns, NEW u \in DOMAIN turns,
             i < j, y[i].key = turns[t], y[j].key = turns[u]
      PROVE  t < u
  BY <1>2, <1>5 DEF Carries
<1>6. a <= b /\ b <= Len(turns)
  BY DEF Carries
<1>7. Carries(y, turns, a, b)
  BY <1>3, <1>4, <1>5, <1>6 DEF Carries
<1> QED BY <1>7 DEF y

(* The queries of keys in a row, with and without the mark on the last.    *)
LEMMA QueriesUpAre ==
  ASSUME setup \in Setups, NEW from \in Nat, NEW to \in Nat, from <= to, NEW z, z = QueriesUp(from, to)
  PROVE  /\ z \in Seq(Packet) /\ Len(z) = to - from /\ DOMAIN z = 1 .. to - from
         /\ \A i \in DOMAIN z : ~z[i].start /\ ~z[i].col /\ ~z[i].last /\ IsQuery(z[i], (from + i) - 1)
<1>1. z \in Seq(Packet)
  BY RequestsTyped
<1>2. z = [i \in 1 .. to - from |-> Query(from + i - 1)] /\ to - from \in Nat
  BY DEF QueriesUp
<1>3. Len(z) = to - from /\ DOMAIN z = 1 .. to - from
  BY <1>2
<1>4. ASSUME NEW i \in 1 .. to - from
      PROVE  ~z[i].start /\ ~z[i].col /\ ~z[i].last /\ IsQuery(z[i], (from + i) - 1)
  <2> DEFINE k == (from + i) - 1
  <2>1. k \in Int /\ z[i] = Query(k)
    BY <1>2
  <2> HIDE DEF k
  <2> QED BY <2>1, QueryIs DEF IsQuery, k
<1> QED BY <1>1, <1>3, <1>4

LEMMA NotifiedAre ==
  ASSUME setup \in Setups, NEW from \in Nat, NEW to \in Nat, from <= to,
         NEW z, z = Notify(QueriesUp(from, to))
  PROVE  /\ z \in Seq(Packet) /\ Len(z) = to - from /\ DOMAIN z = 1 .. to - from
         /\ \A i \in DOMAIN z : /\ ~z[i].start /\ ~z[i].col /\ IsQuery(z[i], (from + i) - 1)
                                /\ (z[i].last <=> i = to - from)
<1> DEFINE s == QueriesUp(from, to)
<1>1. /\ s \in Seq(Packet) /\ Len(s) = to - from /\ DOMAIN s = 1 .. to - from
      /\ \A i \in DOMAIN s : ~s[i].start /\ ~s[i].col /\ ~s[i].last /\ IsQuery(s[i], (from + i) - 1)
  BY QueriesUpAre
<1> HIDE DEF s
<1>2. z = [i \in DOMAIN s |-> [s[i] EXCEPT !.last = (i = Len(s))]]
  BY DEF Notify, s
<1>3. z \in Seq(Packet)
  BY <1>1, RequestsTyped DEF s
<1>4. Len(z) = to - from /\ DOMAIN z = 1 .. to - from
  BY <1>1, <1>2
<1>5. ASSUME NEW i \in DOMAIN z
      PROVE  /\ ~z[i].start /\ ~z[i].col /\ IsQuery(z[i], (from + i) - 1)
             /\ (z[i].last <=> i = to - from)
  <2> DEFINE b == (i = Len(s))
  <2>1. i \in DOMAIN s /\ s[i] \in Packet /\ b \in BOOLEAN /\ z[i] = [s[i] EXCEPT !.last = b]
    BY <1>1, <1>2, <1>4
  <2> HIDE DEF b
  <2>2. z[i].start = s[i].start /\ z[i].col = s[i].col /\ z[i].key = s[i].key /\ z[i].idx = s[i].idx /\ z[i].last = b
    BY <2>1, AlteredLast
  <2> QED BY <1>1, <2>1, <2>2 DEF b, IsQuery
<1> QED BY <1>3, <1>4, <1>5

(* When the host has ended, nothing is left anywhere.                      *)
LEMMA OwEnded ==
  ASSUME CollectionTyped, OwRight, Is({"ow", "ow-rdma"}), main.pc = "done"
  PROVE  /\ register.stored = <<>> /\ mirrored = <<>> /\ answers = <<>>
         /\ Is(Rdma) => qp.recvs = 0 /\ qp.completions = <<>> /\ main.nKeys = nKey
         /\ Carries(got, Stored, 0, Room) /\ Carries(got, Queried, 0, nInject) /\ Len(got) = nKey
         /\ AnswersOw(got, 0)
<1>0. /\ setup \in Setups /\ answers \in Seq(Reply) /\ got \in Seq(Reply) /\ mirrored \in Seq(Packet)
      /\ register.stored \in Seq(Int) /\ qp.completions \in Seq(Int) /\ qp.recvs \in Nat
      /\ Room \in Nat /\ nInject \in Nat /\ Room + nInject = nKey
  BY FieldsTyped, SizesAre DEF CollectionTyped
<1>1. PICK s \in Nat, q \in Nat, r \in Nat : Collecting(s, q, r)
  BY DEF OwRight, At
<1>2. main.barrier = 0
  BY DEF OwRight, At
<1>3. OnTheWay(s, q, r) /\ Counted(s, q) /\ AnswersOw(got, 0)
  BY <1>1 DEF Collecting
<1>4. Awaited(s, q) \in 0 .. 2
  BY <1>0, AwaitedType
<1>5. Awaited(s, q) = 0 /\ (Is(Rdma) => qp.recvs = 0 /\ qp.completions = <<>> /\ main.nKeys = nKey)
  <2>1. CASE Is(Rdma)
    <3>1. /\ qp.recvs = Awaited(s, q) /\ Len(qp.completions) = 0 - Awaited(s, q)
          /\ Awaited(s, q) = 0 => main.nKeys = nKey \/ qp.completions # <<>>
      BY <1>2, <1>3, <2>1 DEF Counted
    <3>2. Len(qp.completions) \in Nat /\ (Len(qp.completions) = 0 => qp.completions = <<>>)
      BY <1>0
    <3>3. Awaited(s, q) = 0 /\ Len(qp.completions) = 0
      BY <1>4, <3>1, <3>2
    <3> QED BY <3>1, <3>2, <3>3
  <2>2. CASE ~Is(Rdma)
    BY <1>2, <1>3, <2>2 DEF Counted
  <2> QED BY <2>1, <2>2
<1>6. s = Room /\ q = nInject /\ s + q = nKey
  BY <1>0, <1>5, AwaitedType
<1>7. /\ Carries(answers, Stored, s, Room - Left) /\ Carries(answers, Queried, q, r)
      /\ Carries(got, Stored, 0, s) /\ Carries(got, Queried, 0, q)
      /\ Len(got) = s + q /\ Len(answers) = ((Room - Left) - s) + (r - q)
  BY <1>3 DEF OnTheWay
<1>8. Left \in Nat /\ Left = 0
  <2>1. Left \in Nat
    BY <1>3, LeftType
  <2>2. s <= Room - Left
    BY <1>7 DEF Carries
  <2> QED BY <1>0, <1>6, <2>1, <2>2
<1>9. r = nInject
  <2>1. q <= r /\ r <= Len(Queried) /\ Len(Queried) = nInject
    BY <1>0, <1>7, TurnsAre DEF Carries
  <2> QED BY <1>0, <1>6, <2>1
<1>10. Len(answers) = 0
  BY <1>0, <1>6, <1>7, <1>8, <1>9
<1>11. register.stored = <<>> /\ mirrored = <<>>
  <2>1. Len(register.stored) \in Nat /\ Len(mirrored) \in Nat
    BY <1>0
  <2>2. Len(register.stored) = 0 /\ Len(mirrored) = 0
    BY <1>8, <2>1 DEF Left
  <2> QED BY <1>0, <2>2
<1>12. answers = <<>>
  BY <1>0, <1>10
<1> QED BY <1>3, <1>5, <1>6, <1>7, <1>11, <1>12

(* The window stores the first keys, with nothing on its way.              *)
LEMMA OwInjected ==
  ASSUME CollectionTyped, OwRight, Is({"ow", "ow-rdma"}), InjectTrace
  PROVE  CollectionTyped' /\ OwRight'
<1>0. setup \in Setups /\ Room \in Nat
  BY SizesAre DEF CollectionTyped
<1>1. /\ CollectionTyped'
      /\ main.pc \in {"init", "done"} /\ main'.pc = "injected" /\ requests = <<>>
      /\ (register.stored = <<>> => register'.stored = FirstKeys(Room))
      /\ register'.msn = 0
      /\ UNCHANGED <<setup, requests, mirrored, answers, qp, got>>
  BY InjectIs
<1>2. register.stored = <<>> /\ mirrored = <<>> /\ Silent
  <2>1. CASE main.pc = "init"
    BY <2>1 DEF OwRight, At, NotAsking
  <2>2. CASE main.pc = "done"
    BY <2>2, OwEnded DEF Silent
  <2> QED BY <1>1, <2>1, <2>2
<1>3. register'.stored = [i \in 1 .. Room |-> i - 1] /\ Room' = Room /\ mirrored' = <<>>
  BY <1>1, <1>2, SetupStays DEF FirstKeys
<1>4. /\ Len(register'.stored) = Room /\ DOMAIN register'.stored = 1 .. Room
      /\ \A i \in 1 .. Room : register'.stored[i] = i - 1
  BY <1>0, <1>3
<1>5. Left' = Room
  <2>1. Len(<<>>) = 0
    OBVIOUS
  <2> QED BY <1>0, <1>3, <1>4, <2>1 DEF Left
<1>6. StoredRight'
  <2>1. DOMAIN mirrored' = {}
    BY <1>3
  <2> QED BY <1>0, <1>3, <1>4, <1>5, <2>1 DEF StoredRight
<1>7. Silent' /\ requests' = <<>>
  BY <1>1, <1>2, SetupStays DEF Silent
<1> QED BY <1>1, <1>3, <1>4, <1>6, <1>7 DEF OwRight, At, NotAsking

(* A host has begun: it has received nothing, and the switch has answered  *)
(* nothing.                                                                *)
LEMMA OwBegan ==
  ASSUME CollectionTyped, OwRight, Is({"ow", "ow-rdma"}), main.pc = "injected",
         CollectionTyped', main'.pc = "wait", main'.next = NextInject(main'.rem), main'.barrier = 2,
         Is(Rdma) => qp'.recvs = qp.recvs + 2 /\ qp'.completions = qp.completions,
         got' = <<>>, UNCHANGED <<setup, register, mirrored, answers>>,
         main'.rem \in 0 .. nInject,
         \A i \in DOMAIN requests' : IsCollect(requests'[i]) \/ IsQueryOf(requests'[i]),
         Carries(requests', Queried, 0, nInject - main'.rem),
         IF Is(Rdma) THEN main'.rem = 0
         ELSE nInject - main'.rem <= 2 * M /\ (main'.rem > 0 => nInject - main'.rem > M)
  PROVE  OwRight'
<1>0. /\ setup \in Setups /\ register.stored \in Seq(Int) /\ M \in Nat
      /\ Room \in Nat /\ Room > 0 /\ nInject \in Nat /\ requests' \in Seq(Packet)
  BY FieldsTyped, SizesAre DEF CollectionTyped
<1>1. /\ requests = <<>> /\ mirrored = <<>> /\ Silent /\ StoredRight
      /\ Len(register.stored) = Room /\ register.msn = 0
  BY DEF OwRight, At, NotAsking
<1>2. /\ nInject' = nInject /\ Room' = Room /\ Stored' = Stored /\ Queried' = Queried /\ Is(Rdma)' = Is(Rdma)
      /\ nKey' = nKey /\ Left' = Left
  BY SetupStays DEF Left
<1>3. Left = Room
  <2>1. Len(<<>>) = 0
    OBVIOUS
  <2> QED BY <1>0, <1>1, <2>1 DEF Left
<1>4. StoredRight'
  BY <1>1, <1>2 DEF StoredRight, IsTaken
<1>5. /\ answers' = <<>> /\ got' = <<>> /\ Len(<<>>) = 0
      /\ <<>> \in Seq(Reply) /\ DOMAIN <<>> = {}
  BY <1>1 DEF Silent
<1>6. Carries(<<>>, Stored, 0, 0) /\ Carries(<<>>, Queried, 0, 0)
  <2>1. Stored \in Seq(Int) /\ Queried \in Seq(Int) /\ 0 \in 0 .. Len(Stored) /\ 0 \in 0 .. Len(Queried)
    BY <1>0, TurnsAre
  <2>2. \A i \in DOMAIN <<>> : FALSE
    OBVIOUS
  <2>3. Carries(<<>>, Stored, 0, 0)
    BY <1>5, <2>1, <2>2, CarriesNothing
  <2>4. Carries(<<>>, Queried, 0, 0)
    BY <1>5, <2>1, <2>2, CarriesNothing
  <2> QED BY <2>3, <2>4
<1>7. OnTheWay(0, 0, 0)'
  <2>1. Room' - Left' = 0 /\ ((Room' - Left') - 0) + (0 - 0) = 0
    BY <1>0, <1>2, <1>3
  <2>2. Sent' = nInject - main'.rem
    BY <1>2 DEF Sent
  <2>3. \A i \in DOMAIN requests' : (IsCollect(requests[i]) \/ IsQueryOf(requests[i]))'
    BY SetupStays DEF IsCollect
  <2>4. /\ Carries(requests', Queried', 0, Sent')
        /\ Carries(answers', Stored', 0, Room' - Left') /\ Carries(answers', Queried', 0, 0)
        /\ Carries(got', Stored', 0, 0) /\ Carries(got', Queried', 0, 0)
    BY <1>2, <1>5, <1>6, <2>1, <2>2
  <2>5. Len(got') = 0 + 0 /\ Len(answers') = ((Room' - Left') - 0) + (0 - 0)
    BY <1>5, <2>1
  <2> QED BY <2>3, <2>4, <2>5 DEF OnTheWay
<1>8. Awaited(0, 0) = 2
  BY <1>0 DEF Awaited
<1>9. Counted(0, 0)'
  <2>1. Awaited(0, 0)' = 2
    BY <1>8, SetupStays
  <2>2. CASE Is(Rdma)
    <3>1. qp.recvs = 0 /\ qp.completions = <<>>
      BY <1>1, <2>2 DEF Silent
    <3>2. qp'.recvs = 2 /\ qp'.completions = <<>> /\ Len(qp'.completions) = 2 - 2
      BY <1>5, <2>2, <3>1
    <3>3. register'.msn = Len(got') + Len(answers') /\ main'.rem = 0
      BY <1>1, <1>5, <2>2
    <3> QED BY <1>2, <2>1, <2>2, <3>2, <3>3 DEF Counted
  <2>3. CASE ~Is(Rdma)
    <3>1. Sent' = nInject - main'.rem /\ Sent' - 0 = Sent'
      BY <1>0, <1>2 DEF Sent
    <3>2. main'.rem \in 0 .. nInject' /\ (main'.rem > 0 => Sent' - 0 > M) /\ Sent' - 0 <= 2 * M
      BY <1>2, <2>3, <3>1
    <3>3. Paced(0)'
      BY <3>2 DEF Paced, NextInject
    <3> QED BY <1>2, <2>1, <2>3, <3>3 DEF Counted
  <2> QED BY <2>2, <2>3
<1>10. AnswersOw(got, 0)' /\ AnswersOw(answers, Len(got))'
  BY <1>5 DEF AnswersOw
<1>11. Collecting(0, 0, 0)'
  BY <1>7, <1>9, <1>10 DEF Collecting
<1> QED BY <1>4, <1>11, StillOwRight

(* ow begins with two batches at most.                                     *)
LEMMA OwBegun ==
  ASSUME CollectionTyped, OwRight, BeginOw
  PROVE  CollectionTyped' /\ OwRight'
<1> DEFINE rem == nInject - Smaller(2 * M, nInject)
           z == QueriesDown(nInject, rem)
           c == Collects(setup.num)
<1>0. /\ setup \in Setups /\ M \in Nat /\ M > 0 /\ nInject \in Nat /\ setup.num \in Nat
  BY SizesAre DEF CollectionTyped
<1>1. Is({"ow"}) /\ Begin(z \o c, rem, 2) /\ ~Is(Rdma) /\ Is({"ow", "ow-rdma"})
  BY <1>0, SchemesApart DEF BeginOw
<1>2. /\ rem \in 0 .. nInject /\ nInject - rem <= 2 * M /\ (rem > 0 => nInject - rem > M)
  BY <1>0 DEF Smaller
<1> HIDE DEF rem
<1>3. /\ z \in Seq(Packet) /\ Len(z) = nInject - rem
      /\ \A i \in DOMAIN z : IsQueryOf(z[i]) /\ z[i].key = Queried[i]
  <2>1. rem \in Nat /\ rem <= nInject /\ nInject <= nInject
    BY <1>0, <1>2
  <2>2. z \in Seq(Packet) /\ Len(z) = nInject - rem /\ QueriesOf(z, nInject - nInject)
    BY <1>0, <1>1, <2>1, QueriesDownAre
  <2>3. \A i \in DOMAIN z : (nInject - nInject) + i = i
    BY <1>0, <2>2
  <2> QED BY <2>2, <2>3 DEF QueriesOf
<1>4. /\ c \in Seq(Packet) /\ \A i \in DOMAIN c : c[i].key = NoKey /\ IsCollect(c[i])
  <2>1. c = [i \in 1 .. setup.num |-> Collect]
    BY DEF Collects
  <2>2. \A i \in DOMAIN c : c[i] = Collect
    BY <2>1
  <2> QED BY <1>0, <2>2, CollectIs, RequestsTyped DEF IsCollect
<1> HIDE DEF z, c
<1>5. /\ CollectionTyped'
      /\ main.pc = "injected" /\ main'.pc = "wait"
      /\ main'.rem = rem /\ main'.next = NextInject(rem) /\ main'.barrier = 2
      /\ requests' = requests \o (z \o c) /\ got' = <<>>
      /\ UNCHANGED <<setup, register, mirrored, answers>>
  <2>1. z \o c \in Seq(Packet) /\ rem \in Int /\ 2 \in Nat
    BY <1>0, <1>2, <1>3, <1>4
  <2> QED BY <1>1, <2>1, BeginIs
<1>6. requests' = z \o c
  <2>1. requests = <<>>
    BY <1>5 DEF OwRight, At, NotAsking
  <2> QED BY <1>3, <1>4, <1>5, <2>1
<1>7. Carries(z, Queried, 0, nInject - rem)
  <2>1. Queried \in Seq(Int) /\ IsInjective(Queried) /\ Len(Queried) = nInject /\ 0 \in 0 .. nInject
    BY <1>0, TurnsAre
  <2>2. Carries(<<>>, Queried, 0, 0)
    <3>1. <<>> \in Seq(Packet) /\ \A i \in DOMAIN <<>> : FALSE
      OBVIOUS
    <3> QED BY <2>1, <3>1, CarriesNothing
  <2>3. 0 + Len(z) <= Len(Queried) /\ 0 + Len(z) = nInject - rem
    BY <1>0, <1>2, <1>3, <2>1
  <2>4. \A i \in DOMAIN z : 0 + i = i
    BY <1>3
  <2>5. <<>> \in Seq(Packet) /\ <<>> \o z = z
    BY <1>3
  <2>6. Carries(<<>> \o z, Queried, 0, 0 + Len(z))
    <3>1. \A i \in DOMAIN z : z[i].key = Queried[0 + i]
      BY <1>3, <2>4
    <3> QED BY <1>3, <2>1, <2>2, <2>3, <2>5, <3>1, CarriesConcat
  <2> QED BY <2>3, <2>5, <2>6
<1>8. Carries(requests', Queried, 0, nInject - rem)
  <2>1. Queried \in Seq(Int) /\ \A i \in DOMAIN c : IsNone(c[i].key, Queried)
    BY <1>0, <1>4, TurnsAre, KeysAre
  <2>2. nInject - rem \in Nat
    BY <1>0, <1>2
  <2> QED BY <1>3, <1>4, <1>6, <1>7, <2>1, <2>2, CarriesMore
<1>9. \A i \in DOMAIN requests' : IsCollect(requests'[i]) \/ IsQueryOf(requests'[i])
  BY <1>3, <1>4, <1>6, Joined
<1> QED BY <1>1, <1>2, <1>5, <1>8, <1>9, OwBegan

(* ow-rdma begins with all queries, the last of them marked.               *)
LEMMA OwRdmaBegun ==
  ASSUME CollectionTyped, OwRight, BeginOwRdma
  PROVE  CollectionTyped' /\ OwRight'
<1> DEFINE z == Notify(QueriesUp(NKeysDp, NKeysDp + nInject))
           c == Collects(setup.num)
<1>0. /\ setup \in Setups /\ nInject \in Nat /\ setup.num \in Nat /\ NKeysDp \in Nat /\ nKey \in Nat
      /\ Room + nInject = nKey /\ (nInject > 0 => Room = NKeysDp) /\ Room \in Nat
  BY SizesAre DEF CollectionTyped
<1>1. Is({"ow-rdma"}) /\ Begin(c \o z, 0, 2) /\ Is(Rdma) /\ Is({"ow", "ow-rdma"})
  BY <1>0, SchemesApart DEF BeginOwRdma
<1>2. DOMAIN Queried = 1 .. nInject /\ \A t \in 1 .. nInject : Queried[t] = (NKeysDp + t) - 1
  BY <1>0, <1>1, TurnsAre
<1>3. /\ z \in Seq(Packet) /\ Len(z) = nInject
      /\ \A i \in DOMAIN z : IsQueryOf(z[i]) /\ z[i].key = Queried[i]
  <2>1. NKeysDp <= NKeysDp + nInject /\ NKeysDp + nInject \in Nat /\ (NKeysDp + nInject) - NKeysDp = nInject
    BY <1>0
  <2>2. /\ z \in Seq(Packet) /\ Len(z) = nInject /\ DOMAIN z = 1 .. nInject
        /\ \A i \in DOMAIN z : /\ ~z[i].start /\ ~z[i].col /\ IsQuery(z[i], (NKeysDp + i) - 1)
                               /\ (z[i].last <=> i = nInject)
    <3> DEFINE to == NKeysDp + nInject
    <3>1. to \in Nat /\ NKeysDp <= to /\ to - NKeysDp = nInject /\ z = Notify(QueriesUp(NKeysDp, to))
      BY <2>1
    <3> HIDE DEF z, to
    <3>2. /\ z \in Seq(Packet) /\ Len(z) = to - NKeysDp /\ DOMAIN z = 1 .. to - NKeysDp
          /\ \A i \in DOMAIN z : /\ ~z[i].start /\ ~z[i].col /\ IsQuery(z[i], (NKeysDp + i) - 1)
                                 /\ (z[i].last <=> i = to - NKeysDp)
      BY <1>0, <3>1, NotifiedAre
    <3> QED BY <3>1, <3>2
  <2>3. ASSUME NEW i \in DOMAIN z
        PROVE  IsQueryOf(z[i]) /\ z[i].key = Queried[i]
    <3>1. z[i].idx = (NKeysDp + i) - 1 /\ z[i].key = IF (NKeysDp + i) - 1 < nKey THEN (NKeysDp + i) - 1 ELSE Junk
      BY <2>2 DEF IsQuery
    <3>2. (NKeysDp + i) - 1 < nKey /\ i \in 1 .. nInject
      BY <1>0, <2>2
    <3>3. z[i].key = Queried[i] /\ z[i].idx = z[i].key
      BY <1>2, <3>1, <3>2
    <3> QED BY <1>1, <1>2, <2>2, <3>2, <3>3 DEF IsQueryOf
  <2> QED BY <2>2, <2>3
<1>4. /\ c \in Seq(Packet) /\ \A i \in DOMAIN c : c[i].key = NoKey /\ IsCollect(c[i])
  <2>1. c = [i \in 1 .. setup.num |-> Collect]
    BY DEF Collects
  <2>2. \A i \in DOMAIN c : c[i] = Collect
    BY <2>1
  <2> QED BY <1>0, <2>2, CollectIs, RequestsTyped DEF IsCollect
<1> HIDE DEF z, c
<1>5. /\ CollectionTyped'
      /\ main.pc = "injected" /\ main'.pc = "wait"
      /\ main'.rem = 0 /\ main'.next = NextInject(0) /\ main'.barrier = 2
      /\ Is(Rdma) => qp'.recvs = qp.recvs + 2 /\ qp'.completions = qp.completions
      /\ requests' = requests \o (c \o z) /\ got' = <<>>
      /\ UNCHANGED <<setup, register, mirrored, answers>>
  <2>1. c \o z \in Seq(Packet) /\ 0 \in Int /\ 2 \in Nat
    BY <1>3, <1>4
  <2> QED BY <1>1, <2>1, BeginIs
<1>6. requests' = c \o z
  <2>1. requests = <<>>
    BY <1>5 DEF OwRight, At, NotAsking
  <2>2. c \o z \in Seq(Packet)
    BY <1>3, <1>4
  <2> QED BY <1>5, <2>1, <2>2
<1>7. Carries(requests', Queried, 0, nInject)
  <2>1. Queried \in Seq(Int) /\ IsInjective(Queried) /\ Len(Queried) = nInject /\ 0 \in 0 .. nInject
    BY <1>0, TurnsAre
  <2>2. Carries(c, Queried, 0, 0)
    <3>1. \A i \in DOMAIN c : IsNone(c[i].key, Queried)
      BY <1>0, <1>4, KeysAre
    <3> QED BY <1>4, <2>1, <3>1, CarriesNothing
  <2>3. 0 + Len(z) <= Len(Queried) /\ 0 + Len(z) = nInject
    BY <1>0, <1>3, <2>1
  <2>4. \A i \in DOMAIN z : z[i].key = Queried[0 + i]
    <3>1. \A i \in DOMAIN z : 0 + i = i
      BY <1>3
    <3> QED BY <1>3, <3>1
  <2>5. Carries(c \o z, Queried, 0, 0 + Len(z))
    BY <1>3, <1>4, <2>1, <2>2, <2>3, <2>4, CarriesConcat
  <2> QED BY <1>6, <2>3, <2>5
<1>8. \A i \in DOMAIN requests' : IsCollect(requests'[i]) \/ IsQueryOf(requests'[i])
  BY <1>3, <1>4, <1>6, Joined
<1>9. main'.rem \in 0 .. nInject /\ nInject - main'.rem = nInject
  BY <1>0, <1>5
<1> QED BY <1>1, <1>5, <1>7, <1>8, <1>9, OwBegan

(* What a host that has ended fetched.                                     *)
LEMMA OwFetched ==
  ASSUME CollectionTyped, OwRight, Is({"ow", "ow-rdma"}), main.pc = "done"
  PROVE  Fetched
<1>0. setup \in Setups /\ got \in Seq(Reply) /\ nKey \in Nat /\ Room \in Nat /\ nInject \in Nat
  BY SizesAre DEF CollectionTyped
<1>1. /\ register.stored = <<>> /\ (Is(Rdma) => main.nKeys = nKey)
      /\ Carries(got, Stored, 0, Room) /\ Carries(got, Queried, 0, nInject) /\ Len(got) = nKey
      /\ AnswersOw(got, 0)
  BY OwEnded
<1>2. DOMAIN got = 1 .. nKey
  BY <1>0, <1>1
<1>3. \A i \in 1 .. nKey : got[i].key \in 0 .. nKey - 1 /\ (Is(Rdma) => got[i].idx = i - 1)
  <2>1. \A i \in 1 .. nKey : (0 + i) - 1 = i - 1
    BY <1>0
  <2> QED BY <1>1, <1>2, <2>1 DEF AnswersOw
<1>4. ASSUME NEW k \in 0 .. nKey - 1 PROVE \E i \in 1 .. nKey : got[i].key = k
  <2>1. DOMAIN Stored = 1 .. Room /\ DOMAIN Queried = 1 .. nInject
    BY <1>0, TurnsAre
  <2>2. (\E t \in 0 + 1 .. Room : Stored[t] = k) \/ (\E t \in 0 + 1 .. nInject : Queried[t] = k)
    <3>1. ~IsNone(k, Stored) \/ ~IsNone(k, Queried)
      BY <1>0, KeysAre
    <3> QED BY <2>1, <3>1 DEF IsNone
  <2>3. /\ \A t \in 0 + 1 .. Room : \E i \in DOMAIN got : got[i].key = Stored[t]
        /\ \A t \in 0 + 1 .. nInject : \E i \in DOMAIN got : got[i].key = Queried[t]
    BY <1>1 DEF Carries
  <2> QED BY <1>2, <2>2, <2>3
<1>5. {got[i].key : i \in 1 .. nKey} = 0 .. nKey - 1
  BY <1>3, <1>4
<1>6. /\ Len(got) = nKey /\ {got[i].key : i \in 1 .. Len(got)} = 0 .. nKey - 1
      /\ Is(Rdma) => main.nKeys = nKey /\ \A i \in 1 .. nKey : got[i].idx = i - 1
      /\ register.stored = <<>>
  <2>1. {got[i].key : i \in 1 .. Len(got)} = 0 .. nKey - 1
    BY <1>1, <1>5
  <2> QED BY <1>1, <1>3, <2>1
<1> QED BY <1>0, <1>6, SchemesApart DEF Fetched

(* ow never has more than two batches of queries on their way.             *)
LEMMA OwTwoBatches ==
  ASSUME CollectionTyped, OwRight, Is({"ow"})
  PROVE  Cardinality(Queries(requests)) + Cardinality(Queries(answers)) <= 2 * M
<1>0. /\ setup \in Setups /\ requests \in Seq(Packet) /\ answers \in Seq(Reply)
      /\ nInject \in Nat /\ M \in Nat /\ M > 0 /\ NKeysDp \in Nat
      /\ Queried \in Seq(Int) /\ IsInjective(Queried) /\ DOMAIN Queried = 1 .. nInject
      /\ DOMAIN Stored = 1 .. Room
  BY SizesAre, TurnsAre DEF CollectionTyped
<1>1. ~Is(Rdma)
  BY <1>0, SchemesApart
<1>2. CASE NotAsking
  <2>1. requests = <<>> /\ answers = <<>>
    BY <1>2 DEF OwRight, Silent
  <2>2. Queries(requests) = {} /\ Queries(answers) = {}
    BY <2>1 DEF Queries
  <2> QED BY <1>0, <2>2, FS_EmptySet
<1>3. CASE ~NotAsking
  <2>1. PICK s \in Nat, q \in Nat, r \in Nat : Collecting(s, q, r)
    BY <1>3 DEF OwRight, At, NotAsking
  <2>2. OnTheWay(s, q, r) /\ Counted(s, q) /\ AnswersOw(answers, Len(got))
    BY <2>1 DEF Collecting
  <2>3. Sent - q <= 2 * M /\ Sent \in Nat
    BY <1>1, <2>2, SentType DEF Counted, Paced
  <2>4. Queries(requests) = {i \in DOMAIN requests : ~IsNone(requests[i].key, Queried)}
    <3> SUFFICES ASSUME NEW i \in DOMAIN requests
                 PROVE  requests[i].key # NoKey /\ requests[i].key >= NKeysDp <=> ~IsNone(requests[i].key, Queried)
      BY DEF Queries
    <3>1. CASE IsCollect(requests[i])
      BY <1>0, <3>1, KeysAre DEF IsCollect
    <3>2. CASE IsQueryOf(requests[i])
      <4>1. PICK t \in 1 .. nInject : requests[i].key = Queried[t]
        BY <1>0, <3>2 DEF IsQueryOf
      <4>2. ~IsNone(Queried[t], Queried) /\ Queried[t] >= NKeysDp /\ Queried[t] \in Nat
        BY <1>0, KeysAre
      <4> QED BY <4>1, <4>2 DEF NoKey
    <3> QED BY <2>2, <3>1, <3>2 DEF OnTheWay
  <2>5. Queries(answers) = {i \in DOMAIN answers : ~IsNone(answers[i].key, Queried)}
    <3> SUFFICES ASSUME NEW i \in DOMAIN answers
                 PROVE  answers[i].key # NoKey /\ answers[i].key >= NKeysDp <=> ~IsNone(answers[i].key, Queried)
      BY DEF Queries
    <3> DEFINE k == answers[i].key
    <3>1. k \in 0 .. nKey - 1
      BY <2>2 DEF AnswersOw
    <3> HIDE DEF k
    <3>2. k # NoKey /\ k \in Int
      BY <3>1 DEF NoKey
    <3>3. CASE ~IsNone(k, Queried)
      <4>1. PICK t \in 1 .. nInject : k = Queried[t]
        BY <1>0, <3>3 DEF IsNone
      <4>2. Queried[t] >= NKeysDp
        BY <1>0, KeysAre
      <4> QED BY <3>2, <3>3, <4>1, <4>2 DEF k
    <3>4. CASE IsNone(k, Queried)
      <4>1. ~IsNone(k, Stored)
        BY <1>0, <3>1, <3>4, KeysAre
      <4>2. PICK t \in 1 .. Room : k = Stored[t]
        BY <1>0, <4>1 DEF IsNone
      <4>3. Stored[t] < NKeysDp
        BY <1>0, KeysAre
      <4>4. ~(k >= NKeysDp)
        BY <1>0, <3>2, <4>2, <4>3
      <4> QED BY <3>4, <4>4 DEF k
    <3> QED BY <3>3, <3>4
  <2>6. Carries(requests, Queried, r, Sent) /\ Carries(answers, Queried, q, r)
    BY <2>2 DEF OnTheWay
  <2>7. Cardinality(Queries(requests)) = Sent - r
    BY <1>0, <2>3, <2>4, <2>6, CarriesCount
  <2>8. Cardinality(Queries(answers)) = r - q
    BY <1>0, <2>5, <2>6, CarriesCount
  <2> QED BY <1>0, <2>3, <2>7, <2>8
<1> QED BY <1>2, <1>3

-----------------------------------------------------------------------------
(***************************************************************************)
(* cpc, cpc-rdma.                                                          *)
(***************************************************************************)

(* The batch that the n-th answer belongs to, and the one of the next.     *)
LEMMA BatchIs ==
  ASSUME NEW m \in Nat \ {0}, NEW n \in Nat
  PROVE  /\ m * (n \div m) \in Nat /\ m * (n \div m) <= n /\ n < m * (n \div m) + m
         /\ n % m \in Nat /\ (n % m = 0 => m * (n \div m) = n)
<1> DEFINE d == n \div m
           x == n % m
<1>1. d \in Nat /\ x \in 0 .. m - 1 /\ n = m * d + x
  BY SMT
<1> HIDE DEF d, x
<1>2. m * d \in Nat
  BY <1>1, SMT
<1>3. x \in Nat /\ m * d <= n /\ n < m * d + m /\ (x = 0 => m * d = n)
  BY <1>1, <1>2
<1> QED BY <1>2, <1>3 DEF d, x

(* The batch changes with every multiple of the batch size.                *)
LEMMA BatchNext ==
  ASSUME NEW m \in Nat \ {0}, NEW n \in Nat \ {0}
  PROVE  m * (n \div m) = (m * ((n - 1) \div m)) + (IF n % m = 0 THEN m ELSE 0)
<1> DEFINE d == (n - 1) \div m
           x == (n - 1) % m
           f == n \div m
           y == n % m
<1>1. d \in Nat /\ x \in 0 .. m - 1 /\ n - 1 = m * d + x
  BY SMT
<1>2. f \in Nat /\ y \in 0 .. m - 1 /\ n = m * f + y
  BY SMT
<1> HIDE DEF d, x, f, y
<1>3. m * (f - d) = (x + 1) - y
  BY <1>1, <1>2, SMT
<1>4. CASE y = 0
  <2>1. f - d = 1
    <3>1. CASE f - d >= 2
      <4>1. m * (f - d) >= m * 2
        BY <1>1, <1>2, <3>1, SMT
      <4> QED BY <1>1, <1>2, <1>3, <1>4, <4>1
    <3>2. CASE f - d <= 0
      <4>1. m * (f - d) <= 0
        BY <1>1, <1>2, <3>2, SMT
      <4> QED BY <1>1, <1>2, <1>3, <1>4, <4>1
    <3> QED BY <1>1, <1>2, <3>1, <3>2
  <2>2. f = d + 1
    BY <1>1, <1>2, <2>1
  <2>3. m * f = m * d + m
    BY <1>1, <2>2, SMT
  <2> QED BY <1>4, <2>3 DEF d, f, y
<1>5. CASE y # 0
  <2>1. f - d = 0
    <3>1. CASE f - d >= 1
      <4>1. m * (f - d) >= m
        BY <1>1, <1>2, <3>1, SMT
      <4> QED BY <1>1, <1>2, <1>3, <1>5, <4>1
    <3>2. CASE f - d <= -1
      <4>1. m * (f - d) <= -m
        BY <1>1, <1>2, <3>2, SMT
      <4> QED BY <1>1, <1>2, <1>3, <1>5, <4>1
    <3> QED BY <1>1, <1>2, <3>1, <3>2
  <2>2. f = d
    BY <1>1, <1>2, <2>1
  <2>3. m * f = m * d + 0
    BY <1>1, <2>2, SMT
  <2> QED BY <1>5, <2>3 DEF d, f, y
<1> QED BY <1>4, <1>5

(* What the host has asked for grows by the batch that it sends.           *)
LEMMA AskedIs ==
  ASSUME setup \in Setups
  PROVE  /\ \A n \in Nat : Asked(n) \in Nat
         /\ Is(Rdma) => \A n \in Nat : Asked(n) = nKey
         /\ ~Is(Rdma) => Asked(0) = 2 * M
         /\ Asked(nKey) >= nKey /\ (~(Is({"cpc"}) /\ nKey < 2 * M) /\ (Is({"cpc"}) <=> ~Is(Rdma)) => Asked(nKey) = nKey)
         /\ ~Is(Rdma) /\ nKey >= 2 * M => \A n \in Nat : Asked(n) <= n + 2 * M /\ Asked(n) <= nKey
<1>0. M \in Nat /\ M > 0 /\ M \in Nat \ {0} /\ nKey \in Nat /\ nKey > 0
  BY SizesAre
<1>1. \A n \in Nat : /\ M * (n \div M) \in Nat /\ M * (n \div M) <= n /\ n < M * (n \div M) + M
  BY <1>0, BatchIs
<1> DEFINE b(n) == M * (n \div M)
<1>2. \A n \in Nat : b(n) \in Nat /\ b(n) <= n /\ n < b(n) + M
  BY <1>1
<1>3. \A n : Asked(n) = IF Is(Rdma) THEN nKey
             ELSE IF nKey < 2 * M THEN 2 * M ELSE IF b(n) + (2 * M) < nKey THEN b(n) + (2 * M) ELSE nKey
  BY DEF Asked, Smaller
<1> HIDE DEF b
<1>4. \A n \in Nat : Asked(n) \in Nat
  BY <1>0, <1>2, <1>3
<1>5. b(0) = 0
  BY <1>0, <1>2
<1>6. ~Is(Rdma) => Asked(0) = 2 * M
  BY <1>0, <1>3, <1>5
<1>7. b(nKey) \in Nat /\ nKey < b(nKey) + M
  BY <1>0, <1>2
<1>8. Asked(nKey) >= nKey /\ (Is(Rdma) \/ nKey >= 2 * M => Asked(nKey) = nKey)
  BY <1>0, <1>3, <1>7
<1>9. ~Is(Rdma) /\ nKey >= 2 * M => \A n \in Nat : Asked(n) <= n + 2 * M /\ Asked(n) <= nKey
  BY <1>0, <1>2, <1>3
<1>10. Is(Rdma) => \A n \in Nat : Asked(n) = nKey
  BY <1>3
<1>11. ~(Is({"cpc"}) /\ nKey < 2 * M) /\ (Is({"cpc"}) <=> ~Is(Rdma)) => Is(Rdma) \/ nKey >= 2 * M
  BY <1>0
<1> QED BY <1>4, <1>6, <1>8, <1>9, <1>10, <1>11

(* The requests that RecvCpc appends.                                      *)
LEMMA AskedNext ==
  ASSUME setup \in Setups, ~Is(Rdma), NEW n \in Nat \ {0}, n <= nKey,
         NEW b, b = M * ((n - 1) \div M)
  PROVE  /\ b \in Nat
         /\ IF (n % M = 0 \/ n = nKey) /\ b + 2 * M < nKey
            THEN /\ Asked(n - 1) = b + 2 * M /\ Asked(n) = Smaller(b + 3 * M, nKey)
                 /\ Asked(n - 1) <= Asked(n)
            ELSE Asked(n) = Asked(n - 1)
<1>0. M \in Nat /\ M > 0 /\ M \in Nat \ {0} /\ nKey \in Nat /\ nKey > 0 /\ n - 1 \in Nat
  BY SizesAre
<1>1. /\ b \in Nat /\ b <= n - 1 /\ n - 1 < b + M
  BY <1>0, BatchIs
<1> DEFINE e == M * (n \div M)
<1>2. e = b + (IF n % M = 0 THEN M ELSE 0)
  BY <1>0, BatchNext
<1>3. /\ Asked(n) = IF nKey < 2 * M THEN 2 * M ELSE IF e + (2 * M) < nKey THEN e + (2 * M) ELSE nKey
      /\ Asked(n - 1) = IF nKey < 2 * M THEN 2 * M ELSE IF b + (2 * M) < nKey THEN b + (2 * M) ELSE nKey
  BY DEF Asked, Smaller
<1>4. Smaller(b + 3 * M, nKey) = IF b + 3 * M < nKey THEN b + 3 * M ELSE nKey
  BY DEF Smaller
<1> DEFINE z == (n % M = 0)
<1>5. e = b + (IF z THEN M ELSE 0)
  BY <1>2
<1> HIDE DEF e, z
<1>6. CASE (z \/ n = nKey) /\ b + 2 * M < nKey
  <2>1. z
    BY <1>0, <1>1, <1>6
  <2>2. e = b + M
    BY <1>5, <2>1
  <2>3. /\ Asked(n - 1) = b + 2 * M /\ Asked(n) = Smaller(b + 3 * M, nKey)
        /\ Asked(n - 1) <= Asked(n)
    BY <1>0, <1>1, <1>3, <1>4, <1>6, <2>2
  <2> QED BY <1>1, <1>6, <2>3 DEF z
<1>7. CASE ~((z \/ n = nKey) /\ b + 2 * M < nKey)
  <2>1. Asked(n) = Asked(n - 1)
    <3>1. CASE z
      <4>1. e = b + M /\ ~(b + 2 * M < nKey)
        BY <1>5, <1>7, <3>1
      <4> QED BY <1>0, <1>1, <1>3, <4>1
    <3>2. CASE ~z
      <4>1. e = b
        BY <1>1, <1>5, <3>2
      <4> QED BY <1>3, <4>1
    <3> QED BY <3>1, <3>2
  <2> QED BY <1>1, <1>7, <2>1 DEF z
<1> QED BY <1>6, <1>7

(* Queries in line: one joins, the first leaves, more of them join.        *)
LEMMA BehindAppend ==
  ASSUME NEW S, NEW s \in Seq(S), NEW e \in S, NEW n \in Nat, Behind(s, n),
         IsQuery(e, n + Len(s)), Is(Rdma) => (e.last <=> (n + Len(s)) + 1 = nKey)
  PROVE  Behind(Append(s, e), n)
<1> DEFINE Good(x, i) == IsQuery(x, i - 1) /\ (Is(Rdma) => (x.last <=> i = nKey))
           z == Append(s, e)
           m == Len(s)
<1>1. /\ DOMAIN s = 1 .. m /\ DOMAIN z = 1 .. m + 1 /\ m \in Nat
      /\ (\A i \in 1 .. m : z[i] = s[i]) /\ z[m + 1] = e
  OBVIOUS
<1>2. \A i \in 1 .. m : Good(s[i], n + i)
  BY <1>1 DEF Behind
<1>3. Good(e, (n + m) + 1)
  <2>1. ((n + m) + 1) - 1 = n + m
    BY <1>1
  <2> QED BY <2>1
<1> HIDE DEF Good, z, m
<1>4. \A i \in 1 .. m + 1 : Good(z[i], n + i)
  <2> SUFFICES ASSUME NEW i \in 1 .. m + 1 PROVE Good(z[i], n + i)
    OBVIOUS
  <2>1. CASE i = m + 1
    <3>1. n + i = (n + m) + 1
      BY <1>1, <2>1
    <3> QED BY <1>1, <1>3, <2>1, <3>1
  <2>2. CASE i # m + 1
    BY <1>1, <1>2, <2>2
  <2> QED BY <2>1, <2>2
<1>5. Behind(z, n)
  BY <1>1, <1>4 DEF Behind, Good
<1> QED BY <1>5 DEF z

LEMMA BehindTail ==
  ASSUME NEW S, NEW s \in Seq(S), s # <<>>, NEW n \in Nat, Behind(s, n)
  PROVE  /\ IsQuery(s[1], n) /\ (Is(Rdma) => (s[1].last <=> n + 1 = nKey))
         /\ Behind(Tail(s), n + 1)
<1> DEFINE Good(x, i) == IsQuery(x, i - 1) /\ (Is(Rdma) => (x.last <=> i = nKey))
           z == Tail(s)
           m == Len(s)
<1>1. /\ DOMAIN s = 1 .. m /\ DOMAIN z = 1 .. m - 1 /\ m \in Nat /\ m > 0
      /\ (\A i \in 1 .. m - 1 : z[i] = s[i + 1])
  OBVIOUS
<1>2. \A i \in 1 .. m : Good(s[i], n + i)
  BY <1>1 DEF Behind
<1> HIDE DEF Good, z, m
<1>3. \A i \in 1 .. m - 1 : Good(z[i], (n + 1) + i)
  <2> SUFFICES ASSUME NEW i \in 1 .. m - 1 PROVE Good(z[i], (n + 1) + i)
    OBVIOUS
  <2>1. i + 1 \in 1 .. m /\ n + (i + 1) = (n + 1) + i
    BY <1>1
  <2>2. Good(s[i + 1], n + (i + 1))
    BY <1>2, <2>1
  <2> QED BY <1>1, <2>1, <2>2
<1>4. Good(s[1], n + 1) /\ (n + 1) - 1 = n
  BY <1>1, <1>2
<1>5. Behind(z, n + 1)
  BY <1>1, <1>3 DEF Behind, Good
<1> QED BY <1>4, <1>5 DEF z, Good

LEMMA BehindConcat ==
  ASSUME NEW S, NEW s \in Seq(S), NEW z \in Seq(S), NEW n \in Nat, Behind(s, n), Behind(z, n + Len(s))
  PROVE  Behind(s \o z, n)
<1> DEFINE Good(x, i) == IsQuery(x, i - 1) /\ (Is(Rdma) => (x.last <=> i = nKey))
           y == s \o z
           m == Len(s)
<1>1. /\ m \in Nat /\ DOMAIN s = 1 .. m /\ DOMAIN z = 1 .. Len(z) /\ Len(z) \in Nat
      /\ DOMAIN y = 1 .. m + Len(z)
      /\ \A i \in DOMAIN y : \/ i \in DOMAIN s /\ y[i] = s[i]
                             \/ i > m /\ i - m \in DOMAIN z /\ y[i] = z[i - m]
  BY Joined
<1>2. /\ \A i \in DOMAIN s : Good(s[i], n + i)
      /\ \A i \in DOMAIN z : Good(z[i], (n + m) + i)
  BY DEF Behind
<1> HIDE DEF Good, y, m
<1>3. \A i \in DOMAIN y : Good(y[i], n + i)
  <2> SUFFICES ASSUME NEW i \in DOMAIN y PROVE Good(y[i], n + i)
    OBVIOUS
  <2>1. CASE i \in DOMAIN s /\ y[i] = s[i]
    BY <1>2, <2>1
  <2>2. CASE i > m /\ i - m \in DOMAIN z /\ y[i] = z[i - m]
    <3>1. (n + m) + (i - m) = n + i
      BY <1>1
    <3>2. Good(z[i - m], (n + m) + (i - m))
      BY <1>2, <2>2
    <3> QED BY <2>2, <3>1, <3>2
  <2> QED BY <1>1, <2>1, <2>2
<1>4. Behind(y, n)
  BY <1>3 DEF Behind, Good
<1> QED BY <1>4 DEF y

(* The parts of InLine, for the state after a step.                        *)
LEMMA InLineIs ==
  ASSUME setup' = setup, Behind(got', 0), Behind(answers', Len(got')),
         Behind(requests', Len(got') + Len(answers')),
         (Len(got') + Len(answers')) + Len(requests') = Asked(Len(got'))
  PROVE  InLine'
<1>1. Behind(got, 0)' /\ Behind(answers, Len(got))' /\ Behind(requests, Len(got) + Len(answers))'
  BY SetupStays DEF Behind
<1> QED BY <1>1, SetupStays DEF InLine

(* A request passes the switch, and its answer joins the others.           *)
LEMMA InLineServed ==
  ASSUME CollectionTyped, setup' = setup, InLine, requests # <<>>, requests' = Tail(requests),
         NEW a \in Reply, a.key = requests[1].key, a.idx = requests[1].idx, a.last = requests[1].last,
         answers' = Append(answers, a), got' = got
  PROVE  InLine'
<1> DEFINE n == Len(got)
           m == Len(answers)
           l == Len(requests)
<1>1. /\ requests \in Seq(Packet) /\ answers \in Seq(Reply) /\ n \in Nat /\ m \in Nat /\ l \in Nat /\ l > 0
      /\ Len(answers') = m + 1 /\ Len(requests') = l - 1
  <2>1. requests \in Seq(Packet) /\ answers \in Seq(Reply) /\ got \in Seq(Reply)
    BY DEF CollectionTyped
  <2> QED BY <2>1
<1>2. Behind(got, 0) /\ Behind(answers, n) /\ Behind(requests, n + m) /\ (n + m) + l = Asked(n)
  BY DEF InLine
<1> HIDE DEF m, l
<1>3. /\ IsQuery(requests[1], n + m) /\ (Is(Rdma) => (requests[1].last <=> (n + m) + 1 = nKey))
      /\ Behind(requests', (n + m) + 1)
  <2>1. n + m \in Nat
    BY <1>1
  <2> QED BY <1>1, <1>2, <2>1, BehindTail
<1>4. Behind(answers', n)
  <2>1. IsQuery(a, n + m) /\ (Is(Rdma) => (a.last <=> (n + m) + 1 = nKey))
    BY <1>3 DEF IsQuery
  <2> QED BY <1>1, <1>2, <2>1, BehindAppend DEF m
<1>5. (n + m) + 1 = n + (m + 1) /\ (n + (m + 1)) + (l - 1) = (n + m) + l
  BY <1>1
<1> QED BY <1>1, <1>2, <1>3, <1>4, <1>5, InLineIs

(* The next answer is taken: more queries may join.                        *)
LEMMA InLineTaken ==
  ASSUME CollectionTyped, setup' = setup, InLine, answers # <<>>, answers' = Tail(answers),
         got' = Append(got, answers[1]), NEW z \in Seq(Packet), requests' = requests \o z,
         Behind(z, Asked(Len(got))), Asked(Len(got) + 1) = Asked(Len(got)) + Len(z)
  PROVE  /\ InLine' /\ Len(got') = Len(got) + 1
         /\ IsQuery(answers[1], Len(got)) /\ (Is(Rdma) => (answers[1].last <=> Len(got) + 1 = nKey))
<1> DEFINE n == Len(got)
           m == Len(answers)
           l == Len(requests)
           k == Len(z)
<1>1. /\ requests \in Seq(Packet) /\ answers \in Seq(Reply) /\ got \in Seq(Reply)
      /\ n \in Nat /\ m \in Nat /\ m > 0 /\ l \in Nat /\ k \in Nat /\ answers[1] \in Reply
      /\ Len(answers') = m - 1 /\ Len(got') = n + 1
  <2>1. requests \in Seq(Packet) /\ answers \in Seq(Reply) /\ got \in Seq(Reply)
    BY DEF CollectionTyped
  <2> QED BY <2>1
<1>2. Behind(got, 0) /\ Behind(answers, n) /\ Behind(requests, n + m) /\ (n + m) + l = Asked(n)
  BY DEF InLine
<1>3. Len(requests') = l + k
  BY <1>1
<1>4. /\ IsQuery(answers[1], n) /\ (Is(Rdma) => (answers[1].last <=> n + 1 = nKey))
      /\ Behind(answers', n + 1)
  BY <1>1, <1>2, BehindTail
<1>5. Behind(got', 0)
  <2>1. 0 + n = n
    BY <1>1
  <2> QED BY <1>1, <1>2, <1>4, <2>1, BehindAppend
<1>6. Behind(requests', n + m)
  <2>1. n + m \in Nat /\ (n + m) + l = Asked(n)
    BY <1>1, <1>2
  <2>2. Behind(z, (n + m) + Len(requests))
    BY <2>1
  <2> HIDE DEF m
  <2> QED BY <1>1, <1>2, <2>1, <2>2, BehindConcat
<1> HIDE DEF m, l, k
<1>7. (n + 1) + (m - 1) = n + m /\ (n + m) + (l + k) = ((n + m) + l) + k
  BY <1>1
<1>8. Asked(n + 1) = Asked(n) + k
  BY DEF k
<1> QED BY <1>1, <1>2, <1>3, <1>4, <1>5, <1>6, <1>7, <1>8, InLineIs

(* cpc, cpc-rdma: a request passes the switch.                             *)
LEMMA CpcRequestServed ==
  ASSUME CollectionTyped, CpcRight, Is({"cpc", "cpc-rdma"}), SwitchRequest
  PROVE  CollectionTyped' /\ CpcRight'
<1> DEFINE p == requests[1]
           a == [key |-> p.key, idx |-> p.idx, last |-> p.last]
<1>0. /\ setup \in Setups /\ requests \in Seq(Packet) /\ mirrored \in Seq(Packet)
      /\ answers \in Seq(Reply) /\ got \in Seq(Reply)
  BY DEF CollectionTyped
<1>1. /\ requests # <<>> /\ p \in Packet /\ Head(requests) = p /\ requests' = Tail(requests)
      /\ Tail(requests) \in Seq(Packet) /\ UNCHANGED <<setup, main, qp, got>>
      /\ \A i \in DOMAIN Tail(requests) : i + 1 \in DOMAIN requests /\ Tail(requests)[i] = requests[i + 1]
      /\ 1 \in DOMAIN requests
  BY <1>0 DEF SwitchRequest
<1>2. CpcEgress(p, mirrored)
  BY <1>0, <1>1, SchemesApart DEF SwitchRequest, SwitchEgress, OwEgress, DpcEgress, ResetEgress
<1>3. CollectionTyped' /\ answers' = Append(answers, a) /\ mirrored' = mirrored
  BY <1>0, <1>1, <1>2, CpcEgressIs
<1>4. a \in Reply /\ a.key = p.key /\ a.idx = p.idx /\ a.last = p.last
  BY <1>1 DEF Reply, Packet
<1> HIDE DEF a
<1>5. ~NotAsking /\ mirrored = <<>>
  BY <1>1 DEF CpcRight
<1>6. /\ answers' # <<>> /\ (answers # <<>> => answers'[1] = answers[1])
      /\ \A i \in DOMAIN answers' : (i \in DOMAIN answers /\ answers'[i] = answers[i]) \/ answers'[i] = a
  BY <1>0, <1>3, <1>4
<1>7. /\ TooMany' = TooMany /\ Is(Rdma)' = Is(Rdma) /\ nKey' = nKey
  BY <1>1, SetupStays
<1>8. At({"wait"}) => CpcRight'
  <2> SUFFICES ASSUME At({"wait"}) PROVE CpcRight'
    OBVIOUS
  <2>1. CASE InLine /\ (IF Is(Rdma) THEN OneCompletion(Len(got) = nKey) ELSE Len(got) < nKey)
    <3>1. InLine'
      BY <1>1, <1>3, <1>4, <2>1, InLineServed
    <3>2. (IF Is(Rdma) THEN OneCompletion(Len(got) = nKey) ELSE Len(got) < nKey)'
      BY <1>1, <1>7, <2>1 DEF OneCompletion, At
    <3> QED BY <1>1, <1>3, <1>5, <3>1, <3>2 DEF CpcRight, NotAsking, At
  <2>2. CASE TooMany /\ got = <<>> /\ answers # <<>> /\ answers[1].key = Junk
    <3>1. TooMany' /\ got' = <<>> /\ answers' # <<>> /\ answers'[1].key = Junk
      BY <1>1, <1>6, <1>7, <2>2
    <3> QED BY <1>1, <1>3, <1>5, <3>1 DEF CpcRight, NotAsking, At
  <2> QED BY <2>1, <2>2 DEF CpcRight
<1>9. At({"done"}) => CpcRight'
  <2> SUFFICES ASSUME At({"done"}) PROVE CpcRight'
    OBVIOUS
  <2>1. /\ Len(got) = nKey /\ Behind(got, 0) /\ Junks(answers) /\ Junks(requests)
        /\ (~TooMany => requests = <<>>) /\ (Is(Rdma) => OneCompletion(TRUE))
    BY DEF CpcRight
  <2>2. Behind(got, 0)'
    BY <1>1, <2>1, SetupStays DEF Behind
  <2>3. Junks(requests')
    BY <1>1, <2>1 DEF Junks
  <2>4. Junks(answers')
    <3>1. a.key = Junk
      BY <1>1, <1>4, <2>1 DEF Junks
    <3> QED BY <1>6, <2>1, <3>1 DEF Junks
  <2>5. (Is(Rdma) => OneCompletion(TRUE))'
    BY <1>1, <1>7, <2>1 DEF OneCompletion, At
  <2>6. TooMany
    BY <1>1, <2>1
  <2> QED BY <1>1, <1>3, <1>5, <1>7, <2>1, <2>2, <2>3, <2>4, <2>5, <2>6 DEF CpcRight, NotAsking, At, Junks
<1>10. At({"thrown"}) => CpcRight'
  BY <1>1, <1>3, <1>5, <1>7 DEF CpcRight, NotAsking, At
<1>11. At({"wait"}) \/ At({"done"}) \/ At({"thrown"})
  BY <1>5, FieldsTyped DEF NotAsking, At
<1> QED BY <1>3, <1>8, <1>9, <1>10, <1>11

(* Nothing is mirrored.                                                    *)
LEMMA CpcMirroredServed ==
  ASSUME CollectionTyped, CpcRight, Is({"cpc", "cpc-rdma"}), SwitchMirrored
  PROVE  CollectionTyped' /\ CpcRight'
BY DEF CpcRight, SwitchMirrored

(* cpc-rdma: the NIC takes the next answer.                                *)
LEMMA CpcNicWritten ==
  ASSUME CollectionTyped, CpcRight, Is({"cpc", "cpc-rdma"}), NicWrite
  PROVE  CollectionTyped' /\ CpcRight'
<1> DEFINE a == answers[1]
           n == Len(got)
<1>0. /\ setup \in Setups /\ requests \in Seq(Packet) /\ answers \in Seq(Reply) /\ got \in Seq(Reply)
      /\ qp.completions \in Seq(Int) /\ qp.recvs \in Nat /\ main.barrier \in Int
      /\ n \in Nat /\ Len(answers) \in Nat /\ Len(requests) \in Nat /\ nKey \in Nat
  BY FieldsTyped, SizesAre, SMTT(30) DEF CollectionTyped
<1>1. /\ CollectionTyped' /\ Is(Rdma) /\ answers # <<>>
      /\ got' = Append(got, a) /\ answers' = Tail(answers)
      /\ IF a.last
         THEN /\ qp.recvs > 0 /\ qp'.recvs = qp.recvs - 1
              /\ qp'.completions = Append(qp.completions, a.idx + 1)
         ELSE qp' = qp
      /\ UNCHANGED <<setup, register, requests, mirrored, main>>
  BY NicWriteIs
<1>2. ~TooMany
  BY <1>0, <1>1, SchemesApart DEF TooMany
<1>3. At({"wait"}) /\ InLine /\ OneCompletion(Len(got) = nKey)
  <2>1. At({"wait"})
    BY <1>1, <1>2, FieldsTyped DEF CpcRight, NotAsking, At
  <2> QED BY <1>1, <1>2, <2>1 DEF CpcRight
<1>4. InLine' /\ Len(got') = n + 1 /\ (a.last <=> n + 1 = nKey) /\ IsQuery(a, n)
  <2>1. <<>> \in Seq(Packet) /\ requests' = requests \o <<>> /\ Len(<<>>) = 0 /\ DOMAIN <<>> = {}
    BY <1>0, <1>1
  <2>2. Behind(<<>>, Asked(n)) /\ Asked(n + 1) = Asked(n) + Len(<<>>)
    <3>1. Asked(n) = nKey /\ Asked(n + 1) = nKey /\ nKey + 0 = nKey
      BY <1>0, <1>1, AskedIs
    <3>2. Behind(<<>>, Asked(n))
      BY <2>1 DEF Behind
    <3> QED BY <2>1, <3>1, <3>2
  <2> QED BY <1>1, <1>3, <2>1, <2>2, InLineTaken
<1>5. n < nKey
  <2>1. (n + Len(answers)) + Len(requests) = nKey
    BY <1>0, <1>1, <1>3, AskedIs DEF InLine
  <2>2. Len(answers) > 0
    BY <1>0, <1>1
  <2> HIDE DEF n
  <2> QED BY <1>0, <2>1, <2>2
<1>6. qp.recvs = 1 /\ main.barrier = 1 /\ qp.completions = <<>>
  <2>1. Len(got) # nKey
    BY <1>0, <1>5
  <2>2. qp.recvs = 1 /\ Len(qp.completions) = main.barrier - qp.recvs /\ main.barrier = 1
    BY <1>3, <2>1 DEF OneCompletion, At
  <2>3. Len(qp.completions) = 0
    BY <2>2
  <2> QED BY <1>0, <2>2, <2>3
<1>7. OneCompletion(Len(got) = nKey)'
  <2>1. CASE a.last
    <3>1. Len(got') = nKey /\ qp'.recvs = 0 /\ Len(qp'.completions) = 1 /\ main'.barrier = 1
      <4>1. qp'.completions = Append(<<>>, a.idx + 1) /\ qp'.recvs = 1 - 1 /\ Len(got') = nKey
        BY <1>1, <1>4, <1>6, <2>1
      <4> QED BY <1>1, <1>6, <4>1
    <3> QED BY <1>1, <1>3, <3>1, SetupStays DEF OneCompletion, At
  <2>2. CASE ~a.last
    <3>1. Len(got') # nKey /\ qp' = qp /\ Len(qp.completions) = 0
      BY <1>0, <1>1, <1>4, <1>6, <2>2
    <3> QED BY <1>1, <1>3, <1>6, <3>1, SetupStays DEF OneCompletion, At
  <2> QED BY <2>1, <2>2
<1> QED BY <1>1, <1>3, <1>4, <1>7, SetupStays DEF CpcRight, NotAsking, At

(* cpc-rdma: the host takes the completion, and ends.                      *)
LEMMA CpcPolled ==
  ASSUME CollectionTyped, CpcRight, Is({"cpc", "cpc-rdma"}), ~Is(Rdma) => qp.completions = <<>>, PollCQ
  PROVE  CollectionTyped' /\ CpcRight'
<1>0. /\ setup \in Setups /\ requests \in Seq(Packet) /\ answers \in Seq(Reply) /\ got \in Seq(Reply)
      /\ qp.completions \in Seq(Int) /\ qp.recvs \in Nat /\ main.barrier \in Int
      /\ Len(got) \in Nat /\ Len(answers) \in Nat /\ Len(requests) \in Nat /\ nKey \in Nat
  <2>1. setup \in Setups /\ requests \in Seq(Packet) /\ answers \in Seq(Reply) /\ got \in Seq(Reply)
    BY DEF CollectionTyped
  <2>2. nKey \in Nat
    BY <2>1, SizesAre
  <2> QED BY <2>1, <2>2, FieldsTyped, SMTT(30)
<1>1. /\ CollectionTyped' /\ main.pc = "wait" /\ qp.completions # <<>>
      /\ qp'.recvs = qp.recvs /\ qp'.completions = Tail(qp.completions)
      /\ main'.barrier = main.barrier - 1
      /\ main'.pc = IF main.barrier = 1 THEN "done" ELSE "wait"
      /\ UNCHANGED <<setup, register, requests, mirrored, answers, got>>
  BY PollCQIs
<1>2. Is(Rdma) /\ ~TooMany
  BY <1>0, <1>1, SchemesApart DEF TooMany
<1>3. InLine /\ OneCompletion(Len(got) = nKey)
  BY <1>1, <1>2 DEF CpcRight, At
<1>4. /\ qp.recvs = 0 /\ Len(qp.completions) = 1 /\ main.barrier = 1 /\ Len(got) = nKey
  <2>1. /\ (qp.recvs = IF Len(got) = nKey THEN 0 ELSE 1)
        /\ Len(qp.completions) = main.barrier - qp.recvs /\ main.barrier = 1
    BY <1>1, <1>3 DEF OneCompletion, At
  <2>2. Len(qp.completions) > 0
    BY <1>0, <1>1
  <2> QED BY <2>1, <2>2
<1>5. main'.pc = "done" /\ main'.barrier = 0 /\ Len(qp'.completions) = 0 /\ qp'.recvs = 0
  <2>1. Len(Tail(qp.completions)) = Len(qp.completions) - 1
    BY <1>0, <1>1, CompletionsAre
  <2> QED BY <1>1, <1>4, <2>1
<1>6. answers = <<>> /\ requests = <<>> /\ Behind(got, 0)
  <2>1. (Len(got) + Len(answers)) + Len(requests) = nKey
    BY <1>0, <1>2, <1>3, AskedIs DEF InLine
  <2>2. Len(answers) = 0 /\ Len(requests) = 0
    BY <1>0, <1>4, <2>1
  <2> QED BY <1>0, <1>3, <2>2 DEF InLine
<1>7. Behind(got, 0)' /\ Junks(answers)' /\ Junks(requests)'
  BY <1>1, <1>6, SetupStays DEF Behind, Junks
<1>8. OneCompletion(TRUE)'
  BY <1>5 DEF OneCompletion, At
<1>9. mirrored' = <<>>
  BY <1>1 DEF CpcRight
<1> QED BY <1>1, <1>4, <1>5, <1>6, <1>7, <1>8, <1>9, SetupStays DEF CpcRight, NotAsking, At

(* cpc: the host takes the next answer, or throws.                         *)
LEMMA CpcReceived ==
  ASSUME CollectionTyped, CpcRight, NEW a, RecvCpc(a)
  PROVE  CollectionTyped' /\ CpcRight'
<1> DEFINE n == Len(got) + 1
           b == M * ((n - 1) \div M)
           grows == (n % M = 0 \/ n = nKey) /\ b + 2 * M < nKey
           z == IF grows THEN QueriesUp(b + 2 * M, Smaller(b + 3 * M, nKey)) ELSE <<>>
<1>0. /\ setup \in Setups /\ requests \in Seq(Packet) /\ answers \in Seq(Reply) /\ got \in Seq(Reply)
  BY DEF CollectionTyped
<1>10. /\ Len(got) \in Nat /\ Len(answers) \in Nat /\ Len(requests) \in Nat /\ nKey \in Nat /\ nKey > 0
       /\ M \in Nat /\ M > 0 /\ n \in Nat \ {0} /\ n - 1 = Len(got)
  BY <1>0, SizesAre
<1>1. /\ CollectionTyped' /\ Is({"cpc"}) /\ Recv(a)
      /\ IF a.key # n - 1
         THEN main'.pc = "thrown" /\ requests' = requests
         ELSE /\ requests' = IF (n % M = 0 \/ n = nKey) /\ b + 2 * M < nKey
                             THEN requests \o QueriesUp(b + 2 * M, Smaller(b + 3 * M, nKey))
                             ELSE requests
              /\ main'.pc = IF n = nKey THEN "done" ELSE "wait"
  BY RecvCpcIs
<1>2. /\ main.pc = "wait" /\ ~Is(Rdma) /\ answers # <<>> /\ a = answers[1] /\ a \in Reply
      /\ answers' = Tail(answers) /\ got' = Append(got, a)
      /\ UNCHANGED <<setup, register, mirrored, qp>>
  BY <1>1, RecvIs
<1>3. mirrored' = <<>> /\ nKey' = nKey /\ TooMany' = TooMany /\ Is(Rdma)' = Is(Rdma)
  BY <1>2, SetupStays DEF CpcRight
<1> HIDE DEF b
<1>4. CASE InLine /\ Len(got) < nKey
  <2>1. /\ b \in Nat
        /\ IF grows
           THEN /\ Asked(n - 1) = b + 2 * M /\ Asked(n) = Smaller(b + 3 * M, nKey)
                /\ Asked(n - 1) <= Asked(n)
           ELSE Asked(n) = Asked(n - 1)
    <3>1. n <= nKey /\ b = M * ((n - 1) \div M)
      BY <1>10, <1>4 DEF b
    <3> HIDE DEF n
    <3> QED BY <1>0, <1>10, <1>2, <3>1, AskedNext
  <2>2. Asked(n - 1) \in Nat /\ Asked(n) \in Nat
    BY <1>0, <1>10, AskedIs
  <2>3. z \in Seq(Packet) /\ Len(z) = Asked(n) - Asked(n - 1) /\ Behind(z, Asked(n - 1))
    <3>1. CASE grows
      <4> DEFINE from == b + 2 * M
                 to == Smaller(b + 3 * M, nKey)
      <4>1. from \in Nat /\ to \in Nat /\ from <= to /\ from = Asked(n - 1) /\ to = Asked(n) /\ z = QueriesUp(from, to)
        BY <2>1, <2>2, <3>1
      <4>1a. to <= nKey
        BY <1>10, <2>1 DEF Smaller
      <4> HIDE DEF from, to, z
      <4>2. /\ z \in Seq(Packet) /\ Len(z) = to - from
            /\ \A i \in DOMAIN z : IsQuery(z[i], (from + i) - 1)
        BY <1>0, <4>1, QueriesUpAre
      <4>3. Behind(z, from)
        BY <1>2, <4>2 DEF Behind
      <4> QED BY <4>1, <4>2, <4>3
    <3>2. CASE ~grows
      <4>1. z = <<>> /\ Len(<<>>) = 0 /\ <<>> \in Seq(Packet) /\ DOMAIN <<>> = {}
        BY <3>2
      <4>2. Behind(<<>>, Asked(n - 1))
        BY <4>1 DEF Behind
      <4>3. Asked(n) - Asked(n - 1) = 0
        BY <2>1, <2>2, <3>2
      <4> HIDE DEF z
      <4> QED BY <4>1, <4>2, <4>3
    <3> QED BY <3>1, <3>2
  <2> HIDE DEF z
  <2>4. IsQuery(a, Len(got))
    <3>1. 0 + 1 = 1 /\ Behind(answers, Len(got))
      BY <1>4 DEF InLine
    <3> QED BY <1>0, <1>10, <1>2, <3>1, BehindTail
  <2>5. a.key = n - 1
    BY <1>10, <1>4, <2>4 DEF IsQuery
  <2>6. requests' = requests \o z
    <3>1. ~grows => requests \o z = requests
      BY <1>0 DEF z
    <3> QED BY <1>1, <2>5, <3>1 DEF z
  <2>7. InLine' /\ Len(got') = n
    <3>1. Asked(Len(got) + 1) = Asked(Len(got)) + Len(z) /\ Behind(z, Asked(Len(got)))
      <4> DEFINE x == Asked(n - 1)
                 y == Asked(n)
      <4>1. x \in Nat /\ y \in Nat /\ Len(z) = y - x /\ Behind(z, x) /\ n - 1 = Len(got)
        BY <1>10, <2>2, <2>3
      <4> HIDE DEF x, y
      <4>2. y = x + Len(z)
        BY <4>1
      <4> QED BY <1>10, <4>1, <4>2 DEF x, y
    <3> QED BY <1>2, <1>4, <2>3, <2>6, <3>1, InLineTaken
  <2>8. CASE n = nKey
    <3>1. main'.pc = "done"
      BY <1>1, <2>5, <2>8
    <3>2. Behind(got', 0) /\ Behind(answers', nKey) /\ Behind(requests', nKey + Len(answers'))
          /\ (nKey + Len(answers')) + Len(requests') = Asked(nKey)
      <4>1. /\ Behind(got, 0)' /\ Behind(answers, Len(got))' /\ Behind(requests, Len(got) + Len(answers))'
            /\ (Len(got') + Len(answers')) + Len(requests') = Asked(Len(got))'
        BY <2>7 DEF InLine
      <4>2. Asked(Len(got))' = Asked(Len(got'))
        BY <1>2 DEF Asked, Is, Smaller, nKey
      <4>3. Behind(got', 0) /\ Behind(answers', Len(got')) /\ Behind(requests', Len(got') + Len(answers'))
        BY <1>2, <4>1, SetupStays DEF Behind
      <4> QED BY <2>7, <2>8, <4>1, <4>2, <4>3
    <3>3. /\ answers' \in Seq(Reply) /\ requests' \in Seq(Packet) /\ Len(answers') \in Nat /\ Len(requests') \in Nat
          /\ DOMAIN answers' = 1 .. Len(answers') /\ DOMAIN requests' = 1 .. Len(requests')
      <4>1. answers' \in Seq(Reply) /\ requests' \in Seq(Packet)
        BY <1>1 DEF CollectionTyped
      <4> QED BY <4>1
    <3>4. Junks(answers')
      <4>1. \A i \in DOMAIN answers' : IsQuery(answers'[i], (nKey + i) - 1) /\ ~((nKey + i) - 1 < nKey)
        BY <1>10, <3>2, <3>3 DEF Behind
      <4> QED BY <4>1 DEF Junks, IsQuery
    <3>5. Junks(requests')
      <4> DEFINE k == nKey + Len(answers')
      <4>1. k \in Nat /\ k >= nKey /\ Behind(requests', k)
        BY <1>10, <3>2, <3>3
      <4> HIDE DEF k
      <4>2. \A i \in DOMAIN requests' : ~((k + i) - 1 < nKey)
        BY <1>10, <3>3, <4>1
      <4> QED BY <4>1, <4>2 DEF Junks, IsQuery, Behind
    <3>6. ~TooMany => answers' = <<>> /\ requests' = <<>>
      <4>1. ~TooMany => Asked(nKey) = nKey
        BY <1>0, <1>1, <1>2, AskedIs DEF TooMany
      <4>2. ~TooMany => Len(answers') = 0 /\ Len(requests') = 0
        BY <1>10, <3>2, <3>3, <4>1
      <4> QED BY <3>3, <4>2
    <3>7. Behind(got, 0)' /\ Junks(answers)' /\ Junks(requests)'
      BY <1>2, <3>2, <3>4, <3>5, SetupStays DEF Behind, Junks
    <3> QED BY <1>1, <1>2, <1>3, <2>7, <2>8, <3>1, <3>6, <3>7 DEF CpcRight, NotAsking, At
  <2>9. CASE n # nKey
    <3>1. main'.pc = "wait" /\ Len(got') < nKey
      BY <1>10, <1>1, <1>4, <2>5, <2>7, <2>9
    <3> QED BY <1>1, <1>2, <1>3, <2>7, <3>1 DEF CpcRight, NotAsking, At
  <2> QED BY <2>8, <2>9
<1>5. CASE TooMany /\ got = <<>> /\ answers # <<>> /\ answers[1].key = Junk
  <2>1. n - 1 = 0
    BY <1>5
  <2>2. a.key # n - 1
    BY <1>2, <1>5, <2>1 DEF Junk
  <2>3. main'.pc = "thrown"
    BY <1>1, <2>2
  <2> QED BY <1>1, <1>3, <1>5, <2>3 DEF CpcRight, NotAsking, At
<1> QED BY <1>2, <1>4, <1>5 DEF CpcRight, At

(* cpc, cpc-rdma: the trace is replayed.                                   *)
LEMMA CpcInjected ==
  ASSUME CollectionTyped, CpcRight, Is({"cpc", "cpc-rdma"}), InjectTrace
  PROVE  CollectionTyped' /\ CpcRight'
<1>1. /\ CollectionTyped'
      /\ main.pc \in {"init", "done"} /\ main'.pc = "injected" /\ requests = <<>>
      /\ UNCHANGED <<setup, requests, mirrored, answers, qp, got>>
  BY InjectIs
<1>2. /\ Junks(answers) /\ (~TooMany => answers = <<>>) /\ mirrored = <<>>
      /\ Is(Rdma) => qp.recvs = 0 /\ qp.completions = <<>>
  <2>1. CASE main.pc = "init"
    BY <2>1 DEF CpcRight, NotAsking, At
  <2>2. CASE main.pc = "done"
    <3>1. Is(Rdma) => qp.recvs = 0 /\ Len(qp.completions) = main.barrier - 0 /\ main.barrier = 0
      BY <2>2 DEF CpcRight, OneCompletion, At
    <3>2. Is(Rdma) => Len(qp.completions) = 0
      BY <3>1
    <3> QED BY <2>2, <3>1, <3>2, FieldsTyped DEF CpcRight, At
  <2> QED BY <1>1, <2>1, <2>2
<1> QED BY <1>1, <1>2, SetupStays DEF CpcRight, NotAsking, At, Junks

(* A host has begun: it has received nothing, and the switch has answered  *)
(* nothing that it asked now.                                              *)
LEMMA CpcBegan ==
  ASSUME CollectionTyped, CpcRight, main.pc = "injected", main'.pc = "wait",
         got' = <<>>, UNCHANGED <<setup, register, mirrored, answers>>,
         NEW z \in Seq(Packet), requests' = requests \o z, Behind(z, 0), Len(z) = Asked(0),
         Is(Rdma) => /\ main'.barrier = 1
                     /\ qp'.recvs = qp.recvs + 1 /\ qp'.completions = qp.completions
  PROVE  CpcRight'
<1>1. /\ requests = <<>> /\ mirrored = <<>> /\ Junks(answers) /\ (~TooMany => answers = <<>>)
      /\ Is(Rdma) => qp.recvs = 0 /\ qp.completions = <<>>
  BY DEF CpcRight, NotAsking, At
<1>2. /\ setup \in Setups /\ nKey \in Nat /\ nKey > 0 /\ requests' = z /\ answers \in Seq(Reply)
  BY <1>1, SizesAre DEF CollectionTyped
<1>3. mirrored' = <<>> /\ nKey' = nKey /\ TooMany' = TooMany /\ Is(Rdma)' = Is(Rdma)
  BY <1>1, SetupStays
<1>4. CASE answers = <<>>
  <2>1. InLine'
    <3>1. /\ Len(<<>>) = 0 /\ Behind(<<>>, 0) /\ 0 + 0 = 0
          /\ \A s \in Seq(Packet) : 0 + Len(s) = Len(s)
      BY DEF Behind
    <3>2. got' = <<>> /\ answers' = <<>>
      BY <1>4
    <3> QED BY <1>2, <3>1, <3>2, InLineIs
  <2>2. Len(got') = 0 /\ Len(got') # nKey /\ Len(got') < nKey
    BY <1>2
  <2>3. Is(Rdma) => OneCompletion(Len(got) = nKey)'
    <3>1. Is(Rdma) => qp'.recvs = 1 /\ Len(qp'.completions) = 0 /\ main'.barrier = 1 /\ 1 - 1 = 0
      BY <1>1
    <3> QED BY <1>3, <2>2, <3>1 DEF OneCompletion, At
  <2> QED BY <1>3, <2>1, <2>2, <2>3 DEF CpcRight, NotAsking, At
<1>5. CASE answers # <<>>
  <2>1. TooMany
    BY <1>1, <1>5
  <2>2. answers[1].key = Junk
    <3>1. 1 \in DOMAIN answers
      BY <1>2, <1>5
    <3> QED BY <1>1, <3>1 DEF Junks
  <2> QED BY <1>3, <1>5, <2>1, <2>2 DEF CpcRight, NotAsking, At
<1> QED BY <1>4, <1>5

(* cpc begins with two batches.                                            *)
LEMMA CpcBegun ==
  ASSUME CollectionTyped, CpcRight, BeginCpc
  PROVE  CollectionTyped' /\ CpcRight'
<1> DEFINE z == QueriesUp(0, 2 * M)
<1>0. setup \in Setups /\ M \in Nat /\ 2 * M \in Nat
  BY SizesAre DEF CollectionTyped
<1>1. Is({"cpc"}) /\ Begin(z, 0, 0) /\ ~Is(Rdma)
  BY <1>0, SchemesApart DEF BeginCpc
<1>2. z \in Seq(Packet) /\ Len(z) = 2 * M /\ Behind(z, 0)
  <2> DEFINE to == 2 * M
  <2>1. to \in Nat /\ 0 <= to /\ to - 0 = to /\ z = QueriesUp(0, to)
    BY <1>0
  <2> HIDE DEF to, z
  <2>2. z \in Seq(Packet) /\ Len(z) = to - 0 /\ \A i \in DOMAIN z : IsQuery(z[i], (0 + i) - 1)
    BY <1>0, <2>1, QueriesUpAre
  <2> QED BY <1>1, <2>1, <2>2 DEF Behind, to
<1> HIDE DEF z
<1>3. /\ CollectionTyped'
      /\ main.pc = "injected" /\ main'.pc = "wait"
      /\ requests' = requests \o z /\ got' = <<>>
      /\ UNCHANGED <<setup, register, mirrored, answers>>
  <2>1. 0 \in Int /\ 0 \in Nat
    OBVIOUS
  <2> QED BY <1>1, <1>2, <2>1, BeginIs
<1>4. Len(z) = Asked(0)
  BY <1>0, <1>1, <1>2, AskedIs
<1> QED BY <1>1, <1>2, <1>3, <1>4, CpcBegan

(* cpc-rdma begins with a query of each key.                               *)
LEMMA CpcRdmaBegun ==
  ASSUME CollectionTyped, CpcRight, BeginCpcRdma
  PROVE  CollectionTyped' /\ CpcRight'
<1> DEFINE z == Notify(QueriesUp(0, nKey))
<1>0. setup \in Setups /\ nKey \in Nat
  BY SizesAre DEF CollectionTyped
<1>1. Is({"cpc-rdma"}) /\ Begin(z, 0, 1) /\ Is(Rdma)
  BY <1>0, SchemesApart DEF BeginCpcRdma
<1>2. z \in Seq(Packet) /\ Len(z) = nKey /\ Behind(z, 0)
  <2> DEFINE to == nKey
  <2>1. to \in Nat /\ 0 <= to /\ to - 0 = to /\ z = Notify(QueriesUp(0, to))
    BY <1>0
  <2> HIDE DEF to, z
  <2>2. /\ z \in Seq(Packet) /\ Len(z) = to - 0 /\ DOMAIN z = 1 .. to - 0
        /\ \A i \in DOMAIN z : IsQuery(z[i], (0 + i) - 1) /\ (z[i].last <=> i = to - 0)
    BY <1>0, <2>1, NotifiedAre
  <2>3. \A i \in DOMAIN z : 0 + i = i
    BY <2>2
  <2> QED BY <2>1, <2>2, <2>3 DEF Behind, to
<1> HIDE DEF z
<1>3. /\ CollectionTyped'
      /\ main.pc = "injected" /\ main'.pc = "wait" /\ main'.barrier = 1
      /\ Is(Rdma) => qp'.recvs = qp.recvs + 1 /\ qp'.completions = qp.completions
      /\ requests' = requests \o z /\ got' = <<>>
      /\ UNCHANGED <<setup, register, mirrored, answers>>
  <2>1. 0 \in Int /\ 1 \in Nat
    OBVIOUS
  <2> QED BY <1>1, <1>2, <2>1, BeginIs
<1>4. Len(z) = Asked(0)
  BY <1>0, <1>1, <1>2, AskedIs
<1> QED BY <1>2, <1>3, <1>4, CpcBegan

(* What a host that has ended fetched.                                     *)
LEMMA CpcFetched ==
  ASSUME CollectionTyped, CpcRight, Is({"cpc", "cpc-rdma"}), main.pc = "done"
  PROVE  Fetched
<1>0. setup \in Setups /\ got \in Seq(Reply) /\ nKey \in Nat
  BY SizesAre DEF CollectionTyped
<1>1. Len(got) = nKey /\ Behind(got, 0)
  BY DEF CpcRight, At
<1>2. \A i \in 1 .. nKey : got[i].key = i - 1 /\ got[i].idx = i - 1
  <2> SUFFICES ASSUME NEW i \in 1 .. nKey PROVE got[i].key = i - 1 /\ got[i].idx = i - 1
    OBVIOUS
  <2>1. IsQuery(got[i], (0 + i) - 1) /\ (0 + i) - 1 = i - 1 /\ i - 1 < nKey
    BY <1>0, <1>1 DEF Behind
  <2> QED BY <2>1 DEF IsQuery
<1> QED BY <1>0, <1>1, <1>2, SchemesApart DEF Fetched

(* cpc never has more than two batches on their way.                       *)
LEMMA CpcTwoBatches ==
  ASSUME CollectionTyped, CpcRight, Is({"cpc"}), nKey >= 2 * M
  PROVE  Cardinality(Queries(requests)) + Cardinality(Queries(answers)) <= 2 * M
<1>0. /\ setup \in Setups /\ requests \in Seq(Packet) /\ answers \in Seq(Reply) /\ got \in Seq(Reply)
      /\ M \in Nat /\ M > 0 /\ nKey \in Nat
  BY SizesAre DEF CollectionTyped
<1>1. ~Is(Rdma) /\ ~TooMany /\ Is({"cpc", "cpc-rdma"})
  BY <1>0, SchemesApart DEF TooMany
<1>2. ASSUME NEW S, NEW s \in Seq(S)
      PROVE  Cardinality(Queries(s)) <= Len(s) /\ Cardinality(Queries(s)) \in Nat
  <2>1. Queries(s) \subseteq 1 .. Len(s) /\ Len(s) \in Nat
    BY DEF Queries
  <2>2. IsFiniteSet(1 .. Len(s)) /\ Cardinality(1 .. Len(s)) = Len(s)
    <3>1. 1 \in Int /\ Len(s) \in Int
      BY <2>1
    <3>2. IsFiniteSet(1 .. Len(s)) /\ Cardinality(1 .. Len(s)) = IF 1 > Len(s) THEN 0 ELSE (Len(s) - 1) + 1
      BY <3>1, FS_Interval
    <3> QED BY <2>1, <3>2
  <2>3. IsFiniteSet(Queries(s)) /\ Cardinality(Queries(s)) <= Cardinality(1 .. Len(s))
    BY <2>1, <2>2, FS_Subset
  <2>4. Cardinality(Queries(s)) \in Nat
    BY <2>3, FS_CardinalityType
  <2> QED BY <2>2, <2>3, <2>4
<1>3. /\ Cardinality(Queries(requests)) <= Len(requests) /\ Cardinality(Queries(requests)) \in Nat
      /\ Cardinality(Queries(answers)) <= Len(answers) /\ Cardinality(Queries(answers)) \in Nat
  BY <1>0, <1>2
<1>4. Len(requests) + Len(answers) <= 2 * M
  <2>1. CASE At({"wait"})
    <3>1. (Len(got) + Len(answers)) + Len(requests) = Asked(Len(got))
      BY <1>1, <2>1 DEF CpcRight, InLine
    <3>2. Len(got) \in Nat /\ Len(answers) \in Nat /\ Len(requests) \in Nat
      BY <1>0
    <3>3. Asked(Len(got)) <= Len(got) + 2 * M /\ Asked(Len(got)) \in Nat
      BY <1>0, <1>1, <3>2, AskedIs
    <3> QED BY <1>0, <3>1, <3>2, <3>3
  <2>2. CASE ~At({"wait"})
    <3>1. requests = <<>> /\ answers = <<>>
      BY <1>1, <2>2, FieldsTyped DEF CpcRight, NotAsking, At
    <3>2. Len(requests) = 0 /\ Len(answers) = 0
      BY <3>1
    <3> QED BY <1>0, <3>2
  <2> QED BY <2>1, <2>2
<1>5. Len(requests) \in Nat /\ Len(answers) \in Nat
  BY <1>0
<1> QED BY <1>0, <1>3, <1>4, <1>5

-----------------------------------------------------------------------------
(***************************************************************************)
(* dpc, dpc-rdma.                                                          *)
(***************************************************************************)

(* Packets without START: one joins, the first leaves.                     *)
LEMMA NoStartIs ==
  ASSUME NEW s \in Seq(Packet), NEW e \in Packet
  PROVE  /\ NoStart(s) /\ ~e.start => NoStart(Append(s, e))
         /\ NoStart(s) /\ s # <<>> => ~s[1].start /\ NoStart(Tail(s))
<1>1. ASSUME NoStart(s), ~e.start PROVE NoStart(Append(s, e))
  <2> SUFFICES ASSUME NEW i \in DOMAIN Append(s, e) PROVE ~Append(s, e)[i].start
    BY DEF NoStart
  <2>1. i \in 1 .. Len(s) + 1 /\ Len(s) \in Nat
    OBVIOUS
  <2>2. CASE i = Len(s) + 1
    BY <1>1, <2>2
  <2>3. CASE i # Len(s) + 1
    <3>1. i \in DOMAIN s /\ Append(s, e)[i] = s[i]
      BY <2>1, <2>3
    <3> QED BY <1>1, <3>1 DEF NoStart
  <2> QED BY <2>2, <2>3
<1>2. ASSUME NoStart(s), s # <<>> PROVE ~s[1].start /\ NoStart(Tail(s))
  <2>1. 1 \in DOMAIN s /\ \A i \in DOMAIN Tail(s) : i + 1 \in DOMAIN s /\ Tail(s)[i] = s[i + 1]
    BY <1>2
  <2> QED BY <1>2, <2>1 DEF NoStart
<1> QED BY <1>1, <1>2

(* Answers with cells in a row: one joins, the first leaves.               *)
LEMMA CellsAppend ==
  ASSUME NEW S, NEW s \in Seq(S), NEW e \in S, NEW n \in Nat, CellsBehind(s, n),
         e.idx = n + Len(s), e.last <=> (n + Len(s)) + 1 = N
  PROVE  CellsBehind(Append(s, e), n)
<1> DEFINE Good(x, i) == x.idx = i - 1 /\ (x.last <=> i = N)
           z == Append(s, e)
           m == Len(s)
<1>1. /\ DOMAIN s = 1 .. m /\ DOMAIN z = 1 .. m + 1 /\ m \in Nat
      /\ (\A i \in 1 .. m : z[i] = s[i]) /\ z[m + 1] = e
  OBVIOUS
<1>2. \A i \in 1 .. m : Good(s[i], n + i)
  BY <1>1 DEF CellsBehind
<1>3. Good(e, (n + m) + 1)
  <2>1. ((n + m) + 1) - 1 = n + m
    BY <1>1
  <2> QED BY <2>1
<1> HIDE DEF Good, z, m
<1>4. \A i \in 1 .. m + 1 : Good(z[i], n + i)
  <2> SUFFICES ASSUME NEW i \in 1 .. m + 1 PROVE Good(z[i], n + i)
    OBVIOUS
  <2>1. CASE i = m + 1
    <3>1. n + i = (n + m) + 1
      BY <1>1, <2>1
    <3> QED BY <1>1, <1>3, <2>1, <3>1
  <2>2. CASE i # m + 1
    BY <1>1, <1>2, <2>2
  <2> QED BY <2>1, <2>2
<1>5. CellsBehind(z, n)
  BY <1>1, <1>4 DEF CellsBehind, Good
<1> QED BY <1>5 DEF z

LEMMA CellsTail ==
  ASSUME NEW S, NEW s \in Seq(S), s # <<>>, NEW n \in Nat, CellsBehind(s, n)
  PROVE  s[1].idx = n /\ (s[1].last <=> n + 1 = N) /\ CellsBehind(Tail(s), n + 1)
<1> DEFINE Good(x, i) == x.idx = i - 1 /\ (x.last <=> i = N)
           z == Tail(s)
           m == Len(s)
<1>1. /\ DOMAIN s = 1 .. m /\ DOMAIN z = 1 .. m - 1 /\ m \in Nat /\ m > 0
      /\ (\A i \in 1 .. m - 1 : z[i] = s[i + 1])
  OBVIOUS
<1>2. \A i \in 1 .. m : Good(s[i], n + i)
  BY <1>1 DEF CellsBehind
<1> HIDE DEF Good, z, m
<1>3. \A i \in 1 .. m - 1 : Good(z[i], (n + 1) + i)
  <2> SUFFICES ASSUME NEW i \in 1 .. m - 1 PROVE Good(z[i], (n + 1) + i)
    OBVIOUS
  <2>1. i + 1 \in 1 .. m /\ n + (i + 1) = (n + 1) + i
    BY <1>1
  <2>2. Good(s[i + 1], n + (i + 1))
    BY <1>2, <2>1
  <2> QED BY <1>1, <2>1, <2>2
<1>4. Good(s[1], n + 1) /\ (n + 1) - 1 = n
  BY <1>1, <1>2
<1>5. CellsBehind(z, n + 1)
  BY <1>1, <1>3 DEF CellsBehind, Good
<1> QED BY <1>4, <1>5 DEF z, Good

(* A packet takes the next cell, if there is one.                          *)
LEMMA CellGiven ==
  ASSUME CollectionTyped, CellsGiven, got' = got, NEW c, c = register.cell,
         register'.cell = IF c = N THEN N ELSE c + 1,
         IF c = N THEN answers' = answers
         ELSE answers' = Append(answers, [key |-> NoKey, idx |-> c, last |-> (c = N - 1)])
  PROVE  CellsGiven'
<1> DEFINE a == [key |-> NoKey, idx |-> c, last |-> (c = N - 1)]
           n == Len(got)
           m == Len(answers)
<1>0. setup \in Setups /\ answers \in Seq(Reply) /\ got \in Seq(Reply)
  BY DEF CollectionTyped
<1>1. n \in Nat /\ m \in Nat /\ c \in 0 .. N /\ N \in Nat
  BY <1>0, SizesAre, FieldsTyped, SMTT(30)
<1>2. n + m = c /\ CellsBehind(got, 0) /\ CellsBehind(answers, n)
  BY DEF CellsGiven
<1>3. CASE c = N
  BY <1>2, <1>3 DEF CellsGiven, CellsBehind
<1>4. CASE c # N
  <2>1. a \in Reply /\ a.idx = c /\ (a.last <=> c = N - 1)
    <3> DEFINE b == (c = N - 1)
               k == NoKey
    <3>1. b \in BOOLEAN /\ k \in Int /\ c \in Int /\ a = [key |-> k, idx |-> c, last |-> b]
      BY <1>1 DEF NoKey
    <3> HIDE DEF a, b, k
    <3>2. a \in Reply /\ a.idx = c /\ (a.last <=> b)
      BY <3>1 DEF Reply
    <3> QED BY <3>2 DEF b
  <2>2. answers' = Append(answers, a) /\ register'.cell = c + 1
    BY <1>4
  <2> HIDE DEF a
  <2>3. Len(answers') = m + 1
    BY <1>0, <2>1, <2>2
  <2>4. c = N - 1 <=> (n + m) + 1 = N
    <3> HIDE DEF n, m
    <3> QED BY <1>1, <1>2
  <2>5. CellsBehind(answers', n)
    BY <1>0, <1>1, <1>2, <2>1, <2>2, <2>4, CellsAppend
  <2>6. n + (m + 1) = c + 1
    <3> HIDE DEF n, m
    <3> QED BY <1>1, <1>2
  <2> QED BY <1>2, <2>2, <2>3, <2>5, <2>6 DEF CellsGiven, CellsBehind
<1> QED BY <1>3, <1>4

(* The next answer is taken.                                               *)
LEMMA CellTaken ==
  ASSUME CollectionTyped, CellsGiven, register' = register, answers # <<>>, answers' = Tail(answers),
         got' = Append(got, answers[1])
  PROVE  /\ CellsGiven' /\ Len(got') = Len(got) + 1 /\ Len(got) < N
         /\ answers[1].idx = Len(got) /\ (answers[1].last <=> Len(got) + 1 = N)
<1> DEFINE n == Len(got)
           m == Len(answers)
<1>0. setup \in Setups /\ answers \in Seq(Reply) /\ got \in Seq(Reply)
  BY DEF CollectionTyped
<1>1. n \in Nat /\ m \in Nat /\ m > 0 /\ register.cell \in 0 .. N /\ N \in Nat /\ answers[1] \in Reply
  <2>1. N \in Nat /\ register.cell \in 0 .. N
    BY <1>0, SizesAre, FieldsTyped
  <2>2. n \in Nat /\ m \in Nat /\ m > 0 /\ answers[1] \in Reply
    BY <1>0
  <2> QED BY <2>1, <2>2
<1>2. n + m = register.cell /\ CellsBehind(got, 0) /\ CellsBehind(answers, n)
  BY DEF CellsGiven
<1>3. answers[1].idx = n /\ (answers[1].last <=> n + 1 = N) /\ CellsBehind(answers', n + 1)
  BY <1>0, <1>1, <1>2, CellsTail
<1>4. CellsBehind(got', 0)
  <2>1. 0 + n = n
    BY <1>1
  <2> QED BY <1>0, <1>1, <1>2, <1>3, <2>1, CellsAppend
<1>5. Len(got') = n + 1 /\ Len(answers') = m - 1
  BY <1>0
<1> HIDE DEF n, m
<1>6. (n + 1) + (m - 1) = register.cell /\ n < N
  BY <1>1, <1>2
<1>7. CellsGiven'
  BY <1>3, <1>4, <1>5, <1>6 DEF CellsGiven, CellsBehind
<1> QED BY <1>3, <1>5, <1>6, <1>7 DEF n

(* Cells are all given when the host has them.                             *)
LEMMA AllGiven ==
  ASSUME CollectionTyped, CellsGiven, Len(got) = N
  PROVE  register.cell = N /\ answers = <<>>
<1>0. setup \in Setups /\ answers \in Seq(Reply)
  BY DEF CollectionTyped
<1>1. Len(answers) \in Nat /\ register.cell \in 0 .. N /\ N \in Nat
  BY <1>0, SizesAre, FieldsTyped
<1>2. N + Len(answers) = register.cell
  BY DEF CellsGiven
<1>3. Len(answers) = 0 /\ register.cell = N
  BY <1>1, <1>2
<1> QED BY <1>0, <1>3

(* A packet without START finds the next cell.                             *)
LEMMA DpcServed ==
  ASSUME CollectionTyped, DpcRight, CollectionTyped', UNCHANGED <<setup, main, qp, got>>,
         Is({"dpc", "dpc-rdma"}),
         NEW c, c = register.cell, NEW rest \in Seq(Packet), NoStart(rest),
         register'.cell = IF c = N THEN N ELSE c + 1,
         IF c = N THEN mirrored' = rest /\ answers' = answers
         ELSE /\ mirrored' = Append(rest, Collect)
              /\ answers' = Append(answers, [key |-> NoKey, idx |-> c, last |-> (c = N - 1)]),
         \/ At({"wait", "done"}) /\ NoStart(requests) /\ CellsGiven /\ NoStart(requests')
         \/ requests' = requests /\ c = N
  PROVE  DpcRight'
<1>1. NoStart(mirrored')
  BY CollectIs, NoStartIs
<1>2. Is(Rdma)' = Is(Rdma)
  BY SetupStays
<1>3. CellsGiven => CellsGiven'
  BY CellGiven
<1>4. \A b \in BOOLEAN : OneCompletion(b) => OneCompletion(b)'
  BY DEF OneCompletion, At
<1>5. CASE At({"wait", "done"}) /\ NoStart(requests) /\ CellsGiven /\ NoStart(requests')
  <2>1. ~NotStarted
    <3>1. StartFirst(requests) => 1 \in DOMAIN requests
      BY DEF StartFirst, CollectionTyped
    <3> QED BY <1>5, <3>1 DEF NotStarted, StartFirst, NoStart
  <2>2. /\ ~NotAsking
        /\ At({"wait"}) => IF Is(Rdma) THEN OneCompletion(Len(got) = N) ELSE Len(got) < N
        /\ At({"done"}) => Len(got) = N /\ (Is(Rdma) => OneCompletion(TRUE))
    BY <1>5, <2>1 DEF DpcRight, NotAsking, At
  <2>3. /\ Is(Rdma) /\ At({"wait"}) => OneCompletion(Len(got) = N)'
        /\ Is(Rdma) /\ At({"done"}) => OneCompletion(TRUE)'
    BY <2>2, SetupStays DEF OneCompletion, At
  <2> QED BY <1>1, <1>2, <1>3, <1>5, <2>2, <2>3 DEF DpcRight, NotAsking, At, NoStart
<1>6. CASE requests' = requests /\ c = N
  <2>1. register'.cell = N /\ answers' = answers
    BY <1>6
  <2>2. NotStarted => NotStarted'
    <3>1. ~Is({"reset"})
      BY SchemesApart DEF CollectionTyped
    <3>2. ~Is({"reset"})' /\ (Is({"dpc-rdma"})' <=> Is({"dpc-rdma"}))
      BY <3>1, SetupStays
    <3>3. StartFirst(requests') <=> StartFirst(requests)
      BY <1>6
    <3>4. (Is({"dpc-rdma"}) => OneCompletion(FALSE)) => (Is({"dpc-rdma"})' => OneCompletion(FALSE)')
      BY <3>2 DEF OneCompletion, At
    <3> QED BY <1>6, <2>1, <3>2, <3>3, <3>4 DEF NotStarted, Idle, StartFirst, NoStart
  <2>3. Idle' /\ (Silent => Silent')
    BY <1>2, <2>1 DEF Idle, Silent
  <2>4. NoStart(requests) => NoStart(requests)'
    BY <1>6 DEF NoStart
  <2>5. /\ OneCompletion(Len(got) = N) => OneCompletion(Len(got) = N)'
        /\ OneCompletion(TRUE) => OneCompletion(TRUE)'
    BY DEF OneCompletion, At
  <2>6. At({"init", "injected", "wait", "done"}) /\ (NotAsking' <=> NotAsking)
        /\ (At({"wait"})' <=> At({"wait"})) /\ (At({"done"})' <=> At({"done"}))
        /\ At({"init", "injected", "wait", "done"})'
    BY DEF DpcRight, NotAsking, At
  <2> QED BY <1>1, <1>2, <1>3, <1>6, <2>2, <2>3, <2>4, <2>5, <2>6 DEF DpcRight, NoStart
<1> QED BY <1>5, <1>6

(* dpc, dpc-rdma: a request passes the switch; the first has START.        *)
LEMMA DpcRequestServed ==
  ASSUME CollectionTyped, DpcRight, Is({"dpc", "dpc-rdma"}), SwitchRequest
  PROVE  CollectionTyped' /\ DpcRight'
<1> DEFINE p == requests[1]
           c == IF p.start THEN 0 ELSE register.cell
<1>0. /\ setup \in Setups /\ requests \in Seq(Packet) /\ mirrored \in Seq(Packet)
      /\ answers \in Seq(Reply) /\ got \in Seq(Reply) /\ N \in Nat /\ N > 1
  BY SizesAre DEF CollectionTyped
<1>1. /\ requests # <<>> /\ p \in Packet /\ Head(requests) = p /\ requests' = Tail(requests)
      /\ Tail(requests) \in Seq(Packet) /\ UNCHANGED <<setup, main, qp, got>>
  BY <1>0 DEF SwitchRequest
<1>2. DpcEgress(p, mirrored)
  BY <1>0, <1>1, SchemesApart DEF SwitchRequest, SwitchEgress, OwEgress, CpcEgress, ResetEgress
<1>3. /\ CollectionTyped'
      /\ register'.cell = IF c = N THEN N ELSE c + 1
      /\ IF c = N
         THEN mirrored' = mirrored /\ answers' = answers
         ELSE /\ mirrored' = Append(mirrored, Collect)
              /\ answers' = Append(answers, [key |-> NoKey, idx |-> c, last |-> (c = N - 1)])
  BY <1>0, <1>1, <1>2, DpcEgressIs
<1>4. ~NotAsking /\ At({"wait", "done"}) /\ NoStart(mirrored)
  BY <1>1 DEF DpcRight, NotAsking, At
<1>5. CASE NotStarted
  <2>1. p.start /\ NoStart(requests') /\ got = <<>> /\ answers = <<>> /\ c = 0 /\ At({"wait"})
    <3>1. p.start /\ NoStart(requests') /\ got = <<>> /\ answers = <<>>
      BY <1>1, <1>5 DEF NotStarted, StartFirst
    <3>2. ~NoStart(requests)
      <4>1. 1 \in DOMAIN requests
        BY <1>0, <1>1
      <4> QED BY <3>1, <4>1 DEF NoStart
    <3> QED BY <1>4, <3>1, <3>2 DEF DpcRight, At
  <2> DEFINE a == [key |-> NoKey, idx |-> 0, last |-> (0 = N - 1)]
  <2>2. /\ register'.cell = 1 /\ mirrored' = Append(mirrored, Collect) /\ answers' = Append(<<>>, a)
    <3>1. c # N /\ c + 1 = 1
      BY <1>0, <2>1
    <3> QED BY <1>3, <2>1, <3>1
  <2>3. NoStart(mirrored')
    BY <1>0, <1>4, <2>2, CollectIs, NoStartIs
  <2>4. a.idx = 0 /\ (a.last <=> 0 + 1 = N) /\ a \in Reply
    <3> DEFINE b == (0 = N - 1)
               k == NoKey
    <3>1. b \in BOOLEAN /\ k \in Int /\ a = [key |-> k, idx |-> 0, last |-> b] /\ (b <=> 0 + 1 = N)
      BY <1>0 DEF NoKey
    <3> HIDE DEF a, b, k
    <3>2. a \in Reply /\ a.idx = 0 /\ (a.last <=> b)
      BY <3>1 DEF Reply
    <3> QED BY <3>1, <3>2
  <2> HIDE DEF a
  <2>5. CellsGiven'
    <3>1. Len(answers') = 1 /\ Len(got') = 0 /\ 0 + 1 = 1 /\ <<>> \in Seq(Reply) /\ 0 + Len(<<>>) = 0
      BY <1>1, <2>1, <2>2, <2>4
    <3>2. CellsBehind(<<>>, 0) /\ got' = <<>>
      BY <1>1, <2>1 DEF CellsBehind
    <3>3. CellsBehind(answers', 0)
      BY <2>2, <2>4, <3>1, <3>2, CellsAppend
    <3> QED BY <2>2, <3>1, <3>2, <3>3 DEF CellsGiven, CellsBehind
  <2>6. IF Is(Rdma)' THEN OneCompletion(Len(got) = N)' ELSE Len(got') < N
    <3>1. Len(got') = 0 /\ Len(got') # N /\ Len(got') < N
      BY <1>0, <1>1, <2>1
    <3>2. Is(Rdma) => OneCompletion(FALSE)
      BY <1>0, <1>5, SchemesApart DEF NotStarted
    <3> QED BY <1>1, <3>1, <3>2, SetupStays DEF OneCompletion, At
  <2> QED BY <1>1, <1>3, <2>1, <2>3, <2>5, <2>6 DEF DpcRight, NotAsking, At, NoStart
<1>6. CASE ~NotStarted
  <2>1. NoStart(requests) /\ CellsGiven
    BY <1>4, <1>6 DEF DpcRight, At
  <2>2. ~p.start /\ NoStart(requests')
    BY <1>0, <1>1, <2>1, NoStartIs
  <2>3. c = register.cell
    BY <2>2
  <2> HIDE DEF c, p
  <2> QED BY <1>0, <1>1, <1>3, <1>4, <2>1, <2>2, <2>3, DpcServed
<1> QED BY <1>5, <1>6

(* dpc, dpc-rdma: a mirrored packet passes again.                          *)
LEMMA DpcMirroredServed ==
  ASSUME CollectionTyped, DpcRight, Is({"dpc", "dpc-rdma"}), SwitchMirrored
  PROVE  CollectionTyped' /\ DpcRight'
<1> DEFINE p == mirrored[1]
           rest == Tail(mirrored)
           c == IF p.start THEN 0 ELSE register.cell
<1>0. /\ setup \in Setups /\ requests \in Seq(Packet) /\ mirrored \in Seq(Packet)
  BY DEF CollectionTyped
<1>1. /\ mirrored # <<>> /\ p \in Packet /\ Head(mirrored) = p
      /\ rest \in Seq(Packet) /\ UNCHANGED <<setup, main, qp, got, requests>>
  BY <1>0 DEF SwitchMirrored
<1>2. DpcEgress(p, rest)
  BY <1>0, <1>1, SchemesApart DEF SwitchMirrored, SwitchEgress, OwEgress, CpcEgress, ResetEgress
<1>3. /\ CollectionTyped'
      /\ register'.cell = IF c = N THEN N ELSE c + 1
      /\ IF c = N
         THEN mirrored' = rest /\ answers' = answers
         ELSE /\ mirrored' = Append(rest, Collect)
              /\ answers' = Append(answers, [key |-> NoKey, idx |-> c, last |-> (c = N - 1)])
  BY <1>0, <1>1, <1>2, DpcEgressIs, ZenonT(60)
<1>4. ~p.start /\ NoStart(rest)
  BY <1>0, <1>1, NoStartIs DEF DpcRight
<1>5. c = register.cell
  BY <1>4
<1>6. \/ At({"wait", "done"}) /\ NoStart(requests) /\ CellsGiven /\ NoStart(requests')
      \/ requests' = requests /\ c = N
  <2>1. CASE NotAsking \/ NotStarted
    BY <1>1, <1>5, <2>1 DEF DpcRight, NotStarted, Idle
  <2>2. CASE ~NotAsking /\ ~NotStarted
    BY <1>1, <2>2 DEF DpcRight, NotAsking, At
  <2> QED BY <2>1, <2>2
<1> HIDE DEF c, p, rest
<1> QED BY <1>1, <1>3, <1>4, <1>5, <1>6, DpcServed

(* dpc-rdma: the NIC takes the next answer.                                *)
LEMMA DpcNicWritten ==
  ASSUME CollectionTyped, DpcRight, Is({"dpc", "dpc-rdma"}), NicWrite
  PROVE  CollectionTyped' /\ DpcRight'
<1> DEFINE a == answers[1]
           n == Len(got)
<1>0. /\ setup \in Setups /\ answers \in Seq(Reply) /\ got \in Seq(Reply)
  BY DEF CollectionTyped
<1>1. /\ CollectionTyped' /\ Is(Rdma) /\ answers # <<>>
      /\ got' = Append(got, a) /\ answers' = Tail(answers)
      /\ IF a.last
         THEN /\ qp.recvs > 0 /\ qp'.recvs = qp.recvs - 1
              /\ qp'.completions = Append(qp.completions, a.idx + 1)
         ELSE qp' = qp
      /\ UNCHANGED <<setup, register, requests, mirrored, main>>
  BY NicWriteIs
<1>2. qp.completions \in Seq(Int) /\ qp.recvs \in Nat /\ main.barrier \in Int /\ n \in Nat /\ N \in Nat
  <2>1. n \in Nat /\ N \in Nat
    BY <1>0, SizesAre
  <2> QED BY <2>1, FieldsTyped
<1>3. /\ At({"wait"}) /\ NoStart(requests) /\ CellsGiven /\ OneCompletion(Len(got) = N)
  <2>1. ~NotAsking
    BY <1>1 DEF DpcRight, Silent
  <2>2. ~At({"done"})
    BY <1>1, AllGiven DEF DpcRight
  <2>3. At({"wait"})
    BY <2>1, <2>2 DEF DpcRight, NotAsking, At
  <2> QED BY <1>1, <2>3 DEF DpcRight, NotStarted
<1>4. /\ CellsGiven' /\ Len(got') = n + 1 /\ n < N /\ a.idx = n /\ (a.last <=> n + 1 = N)
  BY <1>1, <1>3, CellTaken
<1>5. qp.recvs = 1 /\ main.barrier = 1 /\ qp.completions = <<>>
  <2>1. Len(got) # N
    BY <1>2, <1>4
  <2>2. qp.recvs = 1 /\ Len(qp.completions) = main.barrier - qp.recvs /\ main.barrier = 1
    BY <1>3, <2>1 DEF OneCompletion, At
  <2>3. Len(qp.completions) = 0
    BY <2>2
  <2> QED BY <1>2, <2>2, <2>3
<1>6. OneCompletion(Len(got) = N)'
  <2>1. CASE a.last
    <3>1. Len(got') = N /\ qp'.recvs = 0 /\ Len(qp'.completions) = 1 /\ main'.barrier = 1
      <4>1. qp'.completions = Append(<<>>, a.idx + 1) /\ qp'.recvs = 1 - 1 /\ Len(got') = N
        BY <1>1, <1>4, <1>5, <2>1
      <4> QED BY <1>1, <1>5, <4>1
    <3> QED BY <1>1, <1>3, <3>1, SetupStays DEF OneCompletion, At
  <2>2. CASE ~a.last
    <3>1. Len(got') # N /\ qp' = qp /\ Len(qp.completions) = 0
      BY <1>1, <1>2, <1>4, <1>5, <2>2
    <3> QED BY <1>1, <1>3, <1>5, <3>1, SetupStays DEF OneCompletion, At
  <2> QED BY <2>1, <2>2
<1>7. NoStart(mirrored)' /\ NoStart(requests)'
  BY <1>1, <1>3 DEF NoStart, DpcRight
<1> QED BY <1>1, <1>3, <1>4, <1>6, <1>7, SetupStays DEF DpcRight, NotAsking, At

(* dpc-rdma: the host takes the completion, and ends.                      *)
LEMMA DpcPolled ==
  ASSUME CollectionTyped, DpcRight, Is({"dpc", "dpc-rdma"}), ~Is(Rdma) => qp.completions = <<>>, PollCQ
  PROVE  CollectionTyped' /\ DpcRight'
<1>0. /\ setup \in Setups /\ answers \in Seq(Reply) /\ got \in Seq(Reply)
  BY DEF CollectionTyped
<1>1. /\ CollectionTyped' /\ main.pc = "wait" /\ qp.completions # <<>>
      /\ qp'.recvs = qp.recvs /\ qp'.completions = Tail(qp.completions)
      /\ main'.barrier = main.barrier - 1
      /\ main'.pc = IF main.barrier = 1 THEN "done" ELSE "wait"
      /\ UNCHANGED <<setup, register, requests, mirrored, answers, got>>
  BY PollCQIs
<1>2. Is(Rdma) /\ Is({"dpc-rdma"})
  BY <1>0, <1>1, SchemesApart
<1>3. qp.completions \in Seq(Int) /\ Len(qp.completions) > 0 /\ Len(qp.completions) \in Nat
  BY <1>1, FieldsTyped, SMTT(30)
<1>4. ~NotStarted
  <2>1. OneCompletion(FALSE) => Len(qp.completions) = 0
    BY <1>1 DEF OneCompletion, At
  <2>2. Len(qp.completions) # 0
    BY <1>3
  <2>3. NotStarted => OneCompletion(FALSE)
    BY <1>2 DEF NotStarted
  <2> QED BY <2>1, <2>2, <2>3
<1>5. NoStart(requests) /\ CellsGiven /\ OneCompletion(Len(got) = N)
  BY <1>1, <1>2, <1>4 DEF DpcRight, At
<1>6. /\ qp.recvs = 0 /\ Len(qp.completions) = 1 /\ main.barrier = 1 /\ Len(got) = N
  <2>1. /\ (qp.recvs = IF Len(got) = N THEN 0 ELSE 1)
        /\ Len(qp.completions) = main.barrier - qp.recvs /\ main.barrier = 1
    BY <1>1, <1>5 DEF OneCompletion, At
  <2> QED BY <1>3, <2>1
<1>7. main'.pc = "done" /\ main'.barrier = 0 /\ Len(qp'.completions) = 0 /\ qp'.recvs = 0
  <2>1. Len(Tail(qp.completions)) = Len(qp.completions) - 1
    BY <1>1, <1>3, CompletionsAre
  <2> QED BY <1>1, <1>6, <2>1
<1>8. OneCompletion(TRUE)'
  BY <1>7 DEF OneCompletion, At
<1>9. NoStart(mirrored)' /\ NoStart(requests)' /\ CellsGiven'
  BY <1>1, <1>5 DEF NoStart, DpcRight, CellsGiven, CellsBehind
<1> QED BY <1>1, <1>6, <1>7, <1>8, <1>9 DEF DpcRight, NotAsking, At

(* dpc: the host takes the next answer.                                    *)
LEMMA DpcReceived ==
  ASSUME CollectionTyped, DpcRight, NEW a, RecvDpc(a)
  PROVE  CollectionTyped' /\ DpcRight'
<1>0. /\ setup \in Setups /\ answers \in Seq(Reply) /\ got \in Seq(Reply) /\ N \in Nat
  BY SizesAre DEF CollectionTyped
<1>1. /\ CollectionTyped' /\ Is({"dpc"}) /\ Recv(a) /\ requests' = requests
      /\ main'.pc = IF a.idx # Len(got) THEN "thrown" ELSE IF Len(got) = N - 1 THEN "done" ELSE "wait"
  BY RecvDpcIs
<1>2. /\ main.pc = "wait" /\ ~Is(Rdma) /\ answers # <<>> /\ a = answers[1]
      /\ answers' = Tail(answers) /\ got' = Append(got, a)
      /\ UNCHANGED <<setup, register, mirrored, qp>>
  BY <1>1, RecvIs
<1>3. NoStart(requests) /\ CellsGiven
  BY <1>2 DEF DpcRight, At, NotStarted
<1>4. CellsGiven' /\ Len(got') = Len(got) + 1 /\ Len(got) < N /\ a.idx = Len(got)
  BY <1>2, <1>3, CellTaken
<1>5. /\ main'.pc = IF Len(got') = N THEN "done" ELSE "wait"
      /\ Len(got') # N => Len(got') < N
  <2>1. Len(got) \in Nat /\ (Len(got) = N - 1 <=> Len(got') = N) /\ (Len(got') # N => Len(got') < N)
    <3>1. Len(got) \in Nat
      BY <1>0
    <3> DEFINE n == Len(got)
               m == Len(got')
    <3>2. n \in Nat /\ m = n + 1 /\ n < N
      BY <1>4, <3>1
    <3> HIDE DEF n, m
    <3>3. (n = N - 1 <=> m = N) /\ (m # N => m < N)
      BY <1>0, <3>2
    <3> QED BY <3>1, <3>3 DEF n, m
  <2> QED BY <1>1, <1>4, <2>1
<1>6. NoStart(mirrored)' /\ NoStart(requests)' /\ Is(Rdma)' = Is(Rdma)
  BY <1>1, <1>2, <1>3, SetupStays DEF NoStart, DpcRight
<1> QED BY <1>1, <1>2, <1>4, <1>5, <1>6 DEF DpcRight, NotAsking, At

(* dpc, dpc-rdma: the trace is replayed.                                   *)
LEMMA DpcInjected ==
  ASSUME CollectionTyped, DpcRight, InjectTrace
  PROVE  CollectionTyped' /\ DpcRight'
<1>1. /\ CollectionTyped' /\ register'.cell = register.cell
      /\ main.pc \in {"init", "done"} /\ main'.pc = "injected" /\ requests = <<>>
      /\ UNCHANGED <<setup, requests, mirrored, answers, qp, got>>
  BY InjectIs
<1>2. Idle /\ Silent
  <2>1. CASE main.pc = "init"
    BY <2>1 DEF DpcRight, NotAsking, At
  <2>2. CASE main.pc = "done"
    <3>1. CellsGiven /\ Len(got) = N /\ (Is(Rdma) => OneCompletion(TRUE))
      BY <2>2 DEF DpcRight, At
    <3>2. register.cell = N /\ answers = <<>>
      BY <3>1, AllGiven
    <3>3. Is(Rdma) => qp.recvs = 0 /\ Len(qp.completions) = 0
      BY <2>2, <3>1 DEF OneCompletion, At
    <3> QED BY <3>2, <3>3, FieldsTyped DEF Idle, Silent
  <2> QED BY <1>1, <2>1, <2>2
<1>3. Idle' /\ Silent' /\ NoStart(mirrored)'
  BY <1>1, <1>2, SetupStays DEF Idle, Silent, NoStart, DpcRight
<1> QED BY <1>1, <1>3 DEF DpcRight, NotAsking, At

(* The requests of a collection of cells: START comes first.               *)
LEMMA StartCollectsAre ==
  ASSUME NEW k \in Nat \ {0}
  PROVE  StartCollects(k) \in Seq(Packet) /\ StartFirst(StartCollects(k))
<1> DEFINE e == [Collect EXCEPT !.start = TRUE]
           z == Collects(k - 1)
<1>1. e \in Packet /\ e.start
  BY CollectIs DEF Packet
<1>2. z = [i \in 1 .. k - 1 |-> Collect] /\ k - 1 \in Nat
  BY DEF Collects
<1>3. z \in Seq(Packet) /\ \A i \in DOMAIN z : ~z[i].start
  BY <1>2, CollectIs
<1> HIDE DEF e, z
<1>4. StartCollects(k) = <<e>> \o z
  BY DEF StartCollects, e, z
<1>5. /\ <<e>> \o z \in Seq(Packet) /\ (<<e>> \o z)[1] = e /\ <<e>> \o z # <<>> /\ Tail(<<e>> \o z) = z
  BY <1>1, <1>3
<1> QED BY <1>1, <1>3, <1>4, <1>5 DEF StartFirst, NoStart

(* A host that begins has no answer to come.                               *)
LEMMA CellsBegun ==
  ASSUME CollectionTyped, BeginCells,
         Is({"dpc", "dpc-rdma"}) => DpcRight, Is({"reset"}) => ResetRight
  PROVE  /\ CollectionTyped' /\ main'.pc = "wait" /\ NotStarted'
         /\ Is({"dpc", "dpc-rdma"}) => DpcRight'
         /\ Is({"reset"}) => ResetRight'
<1> DEFINE z == StartCollects(setup.num)
<1>0. setup \in Setups /\ setup.num \in Nat \ {0}
  BY SizesAre DEF CollectionTyped
<1>1. Is({"dpc", "dpc-rdma", "reset"}) /\ Begin(z, 0, 1)
  BY DEF BeginCells
<1>2. z \in Seq(Packet) /\ StartFirst(z)
  BY <1>0, StartCollectsAre
<1> HIDE DEF z
<1>3. /\ CollectionTyped'
      /\ main.pc = "injected" /\ main'.pc = "wait" /\ main'.barrier = 1
      /\ Is(Rdma) => qp'.recvs = qp.recvs + 1 /\ qp'.completions = qp.completions
      /\ requests' = requests \o z /\ got' = <<>>
      /\ UNCHANGED <<setup, register, mirrored, answers>>
  <2>1. 0 \in Int /\ 1 \in Nat
    OBVIOUS
  <2> QED BY <1>1, <1>2, <2>1, BeginIs
<1>4. /\ requests = <<>> /\ Idle /\ Silent /\ NoStart(mirrored)
      /\ Is({"reset"}) => register.dirty = Cells
  <2>1. Is({"dpc", "dpc-rdma"}) \/ Is({"reset"})
    BY <1>0, <1>1, SchemesApart
  <2>2. ASSUME Is({"dpc", "dpc-rdma"}) PROVE <1>4!1 /\ ~Is({"reset"})
    BY <1>0, <1>3, <2>2, SchemesApart DEF DpcRight, NotAsking, At
  <2>3. ASSUME Is({"reset"}) PROVE <1>4!1 /\ register.dirty = Cells
    BY <1>3, <2>3 DEF ResetRight, NotAsking, At
  <2> QED BY <2>1, <2>2, <2>3
<1>5. requests' = z /\ answers' = <<>>
  BY <1>2, <1>3, <1>4 DEF Silent
<1>6. NotStarted'
  <2>1. StartFirst(requests)'
    BY <1>2, <1>5 DEF StartFirst, NoStart
  <2>2. Idle' /\ (Is({"reset"})' => register'.dirty = Cells)
    BY <1>3, <1>4, SetupStays DEF Idle
  <2>3. Is({"dpc-rdma"})' => OneCompletion(FALSE)'
    <3>1. Is({"dpc-rdma"})' => Is(Rdma)
      BY <1>0, <1>3, SchemesApart, SetupStays
    <3>2. Is(Rdma) => qp'.recvs = 1 /\ Len(qp'.completions) = 0 /\ 1 - 1 = 0
      BY <1>3, <1>4 DEF Silent
    <3> QED BY <1>3, <3>1, <3>2 DEF OneCompletion, At
  <2> QED BY <1>3, <1>5, <2>1, <2>2, <2>3 DEF NotStarted, Cells
<1>7. NoStart(mirrored)'
  BY <1>3, <1>4 DEF NoStart
<1> QED BY <1>3, <1>6, <1>7 DEF DpcRight, ResetRight, NotAsking, At

(* What a host that has ended fetched.                                     *)
LEMMA DpcFetched ==
  ASSUME CollectionTyped, DpcRight, Is({"dpc", "dpc-rdma"}), main.pc = "done"
  PROVE  Fetched
<1>0. setup \in Setups /\ got \in Seq(Reply) /\ N \in Nat
  BY SizesAre DEF CollectionTyped
<1>1. Len(got) = N /\ CellsBehind(got, 0)
  BY DEF DpcRight, At, CellsGiven
<1>2. \A i \in 1 .. N : got[i].idx = i - 1
  <2> SUFFICES ASSUME NEW i \in 1 .. N PROVE got[i].idx = i - 1
    OBVIOUS
  <2>1. got[i].idx = (0 + i) - 1 /\ (0 + i) - 1 = i - 1
    BY <1>0, <1>1 DEF CellsBehind
  <2> QED BY <2>1
<1> QED BY <1>0, <1>1, <1>2, SchemesApart DEF Fetched

-----------------------------------------------------------------------------
(***************************************************************************)
(* reset.                                                                  *)
(***************************************************************************)

(* reset: a request passes the switch; the first has START.                *)
LEMMA ResetRequestServed ==
  ASSUME CollectionTyped, ResetRight, Is({"reset"}), SwitchRequest
  PROVE  CollectionTyped' /\ ResetRight'
<1> DEFINE p == requests[1]
           c == IF p.start THEN 0 ELSE register.cell
           a == [key |-> NoKey, idx |-> c, last |-> TRUE]
<1>0. /\ setup \in Setups /\ requests \in Seq(Packet) /\ mirrored \in Seq(Packet)
      /\ answers \in Seq(Reply) /\ N \in Nat /\ N > 1 /\ register.cell \in 0 .. N
      /\ register.dirty \subseteq Cells
  BY SizesAre, FieldsTyped DEF CollectionTyped
<1>1. /\ requests # <<>> /\ p \in Packet /\ Head(requests) = p /\ requests' = Tail(requests)
      /\ Tail(requests) \in Seq(Packet) /\ UNCHANGED <<setup, main, qp, got>>
  BY <1>0 DEF SwitchRequest
<1>2. ResetEgress(p, mirrored)
  BY <1>0, <1>1, SchemesApart DEF SwitchRequest, SwitchEgress, OwEgress, CpcEgress, DpcEgress
<1>3. /\ CollectionTyped'
      /\ register'.cell = IF p.start THEN 0 ELSE IF c = N THEN N ELSE c + 1
      /\ register'.dirty = register.dirty \ {c}
      /\ IF c = N THEN mirrored' = mirrored ELSE mirrored' = Append(mirrored, Collect)
      /\ IF c = N - 1 THEN answers' = Append(answers, a) ELSE answers' = answers
  BY <1>0, <1>1, <1>2, ResetEgressIs
<1>4. ~NotAsking /\ At({"wait", "done"}) /\ NoStart(mirrored)
  BY <1>1 DEF ResetRight, NotAsking, At
<1>5. NoStart(mirrored')
  BY <1>0, <1>3, <1>4, CollectIs, NoStartIs
<1> HIDE DEF a
<1>6. CASE NotStarted
  <2>1. p.start /\ NoStart(requests') /\ answers = <<>> /\ c = 0 /\ At({"wait"})
    <3>1. p.start /\ NoStart(requests') /\ answers = <<>>
      BY <1>1, <1>6 DEF NotStarted, StartFirst
    <3>2. ~NoStart(requests)
      <4>1. 1 \in DOMAIN requests
        BY <1>0, <1>1
      <4> QED BY <3>1, <4>1 DEF NoStart
    <3> QED BY <1>4, <3>1, <3>2 DEF ResetRight, At
  <2>2. register'.cell = 0 /\ answers' = <<>>
    <3>1. c # N - 1
      BY <1>0, <2>1
    <3> QED BY <1>3, <2>1, <3>1
  <2>3. \A k \in register'.dirty : k >= 0
    <3>1. register'.dirty \subseteq 0 .. N - 1
      BY <1>0, <1>3 DEF Cells
    <3> QED BY <3>1
  <2>4. 0 # N /\ Len(<<>>) <= 1
    BY <1>0
  <2> QED BY <1>1, <1>3, <1>5, <2>1, <2>2, <2>3, <2>4 DEF ResetRight, NotAsking, At, NoStart
<1>7. CASE ~NotStarted
  <2>1. NoStart(requests)
    BY <1>4, <1>7 DEF ResetRight, At
  <2>2. ~p.start /\ NoStart(requests')
    BY <1>0, <1>1, <2>1, NoStartIs
  <2>3. c = register.cell
    BY <2>2
  <2>4. register'.cell = IF c = N THEN N ELSE c + 1
    BY <1>3, <2>2
  <2> HIDE DEF c, p
  <2>5. CASE At({"wait"})
    <3>1. /\ \A k \in register.dirty : k >= c
          /\ (answers # <<>> <=> c = N) /\ Len(answers) <= 1
      BY <1>7, <2>3, <2>5 DEF ResetRight
    <3>2. \A k \in register'.dirty : k >= register'.cell
      <4> SUFFICES ASSUME NEW k \in register'.dirty PROVE k >= register'.cell
        OBVIOUS
      <4>1. k \in register.dirty /\ k # c /\ k \in 0 .. N - 1
        BY <1>0, <1>3 DEF Cells
      <4>2. k >= c
        BY <3>1, <4>1
      <4> QED BY <1>0, <2>3, <2>4, <4>1, <4>2
    <3>3. (answers' # <<>> <=> register'.cell = N) /\ Len(answers') <= 1
      <4>1. CASE c = N - 1
        <5>1. answers = <<>> /\ answers' = Append(<<>>, a)
          BY <1>0, <1>3, <3>1, <4>1
        <5>2. answers' # <<>> /\ Len(answers') = 1
          BY <5>1
        <5>3. register'.cell = N
          BY <1>0, <2>4, <4>1
        <5> QED BY <5>2, <5>3
      <4>2. CASE c # N - 1
        <5>1. register'.cell = N <=> c = N
          BY <1>0, <2>3, <2>4, <4>2
        <5> QED BY <1>3, <3>1, <4>2, <5>1
      <4> QED BY <4>1, <4>2
    <3> QED BY <1>1, <1>3, <1>5, <2>2, <2>5, <3>2, <3>3 DEF ResetRight, NotAsking, At, NoStart
  <2>6. CASE At({"done"})
    <3>1. answers = <<>> /\ register.cell = N /\ register.dirty = {}
      BY <2>6 DEF ResetRight
    <3>2. c = N /\ c # N - 1
      BY <1>0, <2>3, <3>1
    <3>3. answers' = <<>> /\ register'.cell = N /\ register'.dirty = {}
      BY <1>3, <2>4, <3>1, <3>2
    <3> QED BY <1>1, <1>3, <1>5, <2>2, <2>6, <3>3 DEF ResetRight, NotAsking, At, NoStart
  <2> QED BY <1>4, <2>5, <2>6 DEF At
<1> QED BY <1>6, <1>7

(* reset: a mirrored packet passes again.                                  *)
LEMMA ResetMirroredServed ==
  ASSUME CollectionTyped, ResetRight, Is({"reset"}), SwitchMirrored
  PROVE  CollectionTyped' /\ ResetRight'
<1> DEFINE p == mirrored[1]
           rest == Tail(mirrored)
           c == IF p.start THEN 0 ELSE register.cell
           a == [key |-> NoKey, idx |-> c, last |-> TRUE]
<1>0. /\ setup \in Setups /\ requests \in Seq(Packet) /\ mirrored \in Seq(Packet)
      /\ answers \in Seq(Reply) /\ N \in Nat /\ N > 1 /\ register.cell \in 0 .. N
      /\ register.dirty \subseteq Cells
  BY SizesAre, FieldsTyped DEF CollectionTyped
<1>1. /\ mirrored # <<>> /\ p \in Packet /\ Head(mirrored) = p
      /\ rest \in Seq(Packet) /\ UNCHANGED <<setup, main, qp, got, requests>>
  BY <1>0 DEF SwitchMirrored
<1>2. ResetEgress(p, rest)
  BY <1>0, <1>1, SchemesApart DEF SwitchMirrored, SwitchEgress, OwEgress, CpcEgress, DpcEgress
<1>3. /\ CollectionTyped'
      /\ register'.cell = IF p.start THEN 0 ELSE IF c = N THEN N ELSE c + 1
      /\ register'.dirty = register.dirty \ {c}
      /\ IF c = N THEN mirrored' = rest ELSE mirrored' = Append(rest, Collect)
      /\ IF c = N - 1 THEN answers' = Append(answers, a) ELSE answers' = answers
  <2>1. rest \in Seq(Packet) /\ requests' \in Seq(Packet)
    BY <1>0, <1>1
  <2> HIDE DEF rest, p
  <2> QED BY <1>0, <1>1, <1>2, <2>1, ResetEgressIs
<1>4. ~p.start /\ NoStart(rest)
  BY <1>0, <1>1, NoStartIs DEF ResetRight
<1>5. c = register.cell /\ NoStart(mirrored') /\ register'.cell = IF c = N THEN N ELSE c + 1
  <2>1. c = register.cell /\ register'.cell = IF c = N THEN N ELSE c + 1
    BY <1>3, <1>4
  <2> HIDE DEF c, rest
  <2> QED BY <1>1, <1>3, <1>4, <2>1, CollectIs, NoStartIs
<1> HIDE DEF a, c, p, rest
<1>6. CASE c = N
  <2>1. register'.cell = N /\ answers' = answers /\ register'.dirty = register.dirty
    <3>1. N # N - 1 /\ N \notin Cells
      BY <1>0 DEF Cells
    <3> QED BY <1>0, <1>3, <1>5, <1>6, <3>1
  <2>2. /\ At({"init", "injected", "wait", "done"}) /\ (NotAsking' <=> NotAsking)
        /\ (At({"wait"})' <=> At({"wait"})) /\ (At({"done"})' <=> At({"done"}))
        /\ (At({"injected"})' <=> At({"injected"})) /\ At({"init", "injected", "wait", "done"})'
    BY <1>1 DEF ResetRight, NotAsking, At
  <2>3. (Silent => Silent') /\ Idle' /\ (NoStart(requests) => NoStart(requests)')
    BY <1>1, <2>1, SetupStays DEF Silent, Idle, NoStart
  <2>4. NotStarted => NotStarted'
    <3>1. (Is({"dpc-rdma"}) => OneCompletion(FALSE)) => (Is({"dpc-rdma"})' => OneCompletion(FALSE)')
      BY <1>1, SetupStays DEF OneCompletion, At
    <3> QED BY <1>1, <2>1, <2>3, <3>1 DEF NotStarted, StartFirst, NoStart, Cells
  <2> QED BY <1>1, <1>3, <1>5, <1>6, <2>1, <2>2, <2>3, <2>4 DEF ResetRight, NoStart, Cells
<1>7. CASE c # N
  <2>1. ~NotAsking /\ ~NotStarted /\ ~At({"done"}) /\ At({"wait"})
    BY <1>1, <1>5, <1>7 DEF ResetRight, NotStarted, Idle, NotAsking, At
  <2>2. /\ NoStart(requests) /\ \A k \in register.dirty : k >= c
        /\ (answers # <<>> <=> c = N) /\ Len(answers) <= 1
    BY <1>5, <2>1 DEF ResetRight
  <2>3. \A k \in register'.dirty : k >= register'.cell
    <3> SUFFICES ASSUME NEW k \in register'.dirty PROVE k >= register'.cell
      OBVIOUS
    <3>1. k \in register.dirty /\ k # c /\ k \in 0 .. N - 1
      BY <1>0, <1>3 DEF Cells
    <3>2. k >= c
      BY <2>2, <3>1
    <3> QED BY <1>0, <1>5, <3>1, <3>2
  <2>4. (answers' # <<>> <=> register'.cell = N) /\ Len(answers') <= 1
    <3>1. CASE c = N - 1
      <4>1. answers' = Append(<<>>, a)
        BY <1>3, <1>7, <2>2, <3>1
      <4>2. answers' # <<>> /\ Len(answers') = 1
        BY <4>1
      <4>3. register'.cell = N
        BY <1>0, <1>5, <3>1
      <4> QED BY <4>2, <4>3
    <3>2. CASE c # N - 1
      <4>1. register'.cell # N
        BY <1>0, <1>5, <1>7, <3>2
      <4> QED BY <1>3, <1>7, <2>2, <3>2, <4>1
    <3> QED BY <3>1, <3>2
  <2> QED BY <1>1, <1>3, <1>5, <2>1, <2>2, <2>3, <2>4 DEF ResetRight, NotAsking, At, NoStart
<1> QED BY <1>6, <1>7

(* reset: the host takes the answer, and ends.                             *)
LEMMA ResetReceived ==
  ASSUME CollectionTyped, ResetRight, NEW a, RecvReset(a)
  PROVE  CollectionTyped' /\ ResetRight'
<1>0. /\ setup \in Setups /\ answers \in Seq(Reply) /\ N \in Nat /\ register.dirty \subseteq Cells
  BY SizesAre, FieldsTyped DEF CollectionTyped
<1>1. /\ CollectionTyped' /\ Is({"reset"}) /\ Recv(a) /\ requests' = requests /\ main'.pc = "done"
  BY RecvResetIs
<1>2. /\ main.pc = "wait" /\ answers # <<>> /\ answers' = Tail(answers)
      /\ UNCHANGED <<setup, register, mirrored, qp>>
  BY <1>1, RecvIs
<1>3. /\ NoStart(requests) /\ (\A k \in register.dirty : k >= register.cell)
      /\ register.cell = N /\ Len(answers) <= 1
  BY <1>2 DEF ResetRight, At, NotStarted
<1>4. register.dirty = {}
  BY <1>0, <1>3 DEF Cells
<1>5. answers' = <<>>
  <2>1. Len(answers) \in Nat /\ Len(answers) > 0 /\ Len(answers') = Len(answers) - 1 /\ answers' \in Seq(Reply)
    BY <1>0, <1>2
  <2>2. Len(answers') = 0
    BY <1>3, <2>1
  <2> QED BY <2>1, <2>2
<1>6. NoStart(mirrored)' /\ NoStart(requests)'
  BY <1>1, <1>2, <1>3 DEF NoStart, ResetRight
<1> QED BY <1>1, <1>2, <1>3, <1>4, <1>5, <1>6 DEF ResetRight, NotAsking, At

(* reset: the trace is replayed, and every cell may hold a count.          *)
LEMMA ResetInjected ==
  ASSUME CollectionTyped, ResetRight, Is({"reset"}), InjectTrace
  PROVE  CollectionTyped' /\ ResetRight'
<1>1. /\ CollectionTyped' /\ register'.cell = register.cell /\ register'.dirty = Cells
      /\ main.pc \in {"init", "done"} /\ main'.pc = "injected" /\ requests = <<>>
      /\ UNCHANGED <<setup, requests, mirrored, answers, qp, got>>
  BY InjectIs
<1>2. Idle /\ Silent
  <2>1. CASE main.pc = "init"
    BY <2>1 DEF ResetRight, NotAsking, At
  <2>2. CASE main.pc = "done"
    <3>1. ~Is(Rdma)
      BY SchemesApart DEF CollectionTyped
    <3> QED BY <2>2, <3>1 DEF ResetRight, At, Idle, Silent
  <2> QED BY <1>1, <2>1, <2>2
<1>3. Idle' /\ Silent' /\ NoStart(mirrored)' /\ register'.dirty = Cells'
  BY <1>1, <1>2, SetupStays DEF Idle, Silent, NoStart, ResetRight, Cells
<1> QED BY <1>1, <1>3 DEF ResetRight, NotAsking, At

(* A reset that was answered zeroed every cell.                            *)
LEMMA ResetFetched ==
  ASSUME CollectionTyped, ResetRight, Is({"reset"}), main.pc = "done"
  PROVE  Fetched
<1>1. register.dirty = {} /\ setup \in Setups
  BY DEF ResetRight, At, CollectionTyped
<1> QED BY <1>1, SchemesApart DEF Fetched

-----------------------------------------------------------------------------
(***************************************************************************)
(* A collection ends with everything fetched, once each.                   *)
(***************************************************************************)

(* At first nothing is on its way.                                         *)
LEMMA CollectionStarts ==
  ASSUME CollectionInit
  PROVE  CollectionInv
<1>0. setup \in Setups /\ N \in Nat
  BY SizesAre DEF CollectionInit
<1>1. /\ register = [stored |-> <<>>, cell |-> 0, dirty |-> {}, msn |-> 0]
      /\ requests = <<>> /\ mirrored = <<>> /\ answers = <<>>
      /\ qp = [recvs |-> 0, completions |-> <<>>]
      /\ main = [pc |-> "init", round |-> 0, rem |-> 0, next |-> 0, barrier |-> 0, nKeys |-> 0]
      /\ got = <<>>
  BY DEF CollectionInit
<1>2. register \in Register /\ qp \in QueuePair /\ main \in Locals
  <2>1. register \in Register
    <3>1. <<>> \in Seq(Int) /\ 0 \in 0 .. N /\ {} \in SUBSET Cells /\ 0 \in Nat
      BY <1>0
    <3> QED BY <1>1, <3>1 DEF Register
  <2>2. qp \in QueuePair
    BY <1>1 DEF QueuePair
  <2>3. main \in Locals
    BY <1>1 DEF Locals
  <2> QED BY <2>1, <2>2, <2>3
<1>3. CollectionTyped
  BY <1>0, <1>1, <1>2 DEF CollectionTyped
<1>4. Silent /\ Idle /\ NoStart(mirrored) /\ Junks(answers) /\ (Is(Rdma) => qp.recvs = 0 /\ qp.completions = <<>>)
      /\ qp.completions = <<>> /\ register.stored = <<>> /\ main.pc = "init"
  BY <1>1 DEF Silent, Idle, NoStart, Junks
<1>5. StoredRight
  <2>1. Len(<<>>) = 0 /\ Room \in Nat
    BY <1>0, SizesAre
  <2>2. Left = 0
    BY <1>1, <1>4, <2>1 DEF Left
  <2> QED BY <1>1, <1>4, <2>1, <2>2 DEF StoredRight
<1>6. OwRight
  BY <1>1, <1>4, <1>5 DEF OwRight, At, NotAsking
<1>7. CpcRight
  BY <1>1, <1>4 DEF CpcRight, At, NotAsking
<1>8. DpcRight /\ ResetRight
  BY <1>1, <1>4 DEF DpcRight, ResetRight, At, NotAsking
<1> QED BY <1>3, <1>4, <1>6, <1>7, <1>8 DEF CollectionInv

(* A step of another scheme, and what a step does to the scheme at hand.   *)
LEMMA CompletionsOfRdma ==
  ASSUME CollectionTyped, ~Is(Rdma) => qp.completions = <<>>, CollectionNext
  PROVE  setup' = setup /\ (~Is(Rdma) => qp'.completions = <<>>)
<1>1. CASE InjectTrace
  BY <1>1 DEF InjectTrace
<1>2. ASSUME NEW reqs, NEW rem, NEW barrier, Begin(reqs, rem, barrier)
      PROVE  setup' = setup /\ (~Is(Rdma) => qp'.completions = <<>>)
  BY <1>2 DEF Begin
<1>3. CASE SwitchRequest \/ SwitchMirrored
  BY <1>3 DEF SwitchRequest, SwitchMirrored
<1>4. CASE NicWrite
  BY <1>4 DEF NicWrite
<1>5. CASE PollCQ
  <2>1. setup' = setup
    BY <1>5 DEF PollCQ
  <2>2. Is(Rdma)
    BY <1>5 DEF PollCQ
  <2> QED BY <2>1, <2>2
<1>6. CASE HostRecv
  BY <1>6 DEF HostRecv, RecvOw, RecvCpc, RecvDpc, RecvReset, Recv
<1> QED BY <1>1, <1>2, <1>3, <1>4, <1>5, <1>6
        DEF CollectionNext, BeginOw, BeginOwRdma, BeginCpc, BeginCpcRdma, BeginCells

(* Every step, of the setups of each scheme.                               *)
LEMMA OwKept ==
  ASSUME CollectionInv, CollectionNext, Is({"ow", "ow-rdma"})
  PROVE  CollectionTyped' /\ OwRight'
<1>0. CollectionTyped /\ OwRight /\ (~Is(Rdma) => qp.completions = <<>>) /\ setup \in Setups
  BY DEF CollectionInv, CollectionTyped
<1>1. CASE InjectTrace
  BY <1>0, <1>1, OwInjected
<1>2. CASE BeginOw
  BY <1>0, <1>2, OwBegun
<1>3. CASE BeginOwRdma
  BY <1>0, <1>3, OwRdmaBegun
<1>4. CASE SwitchRequest
  BY <1>0, <1>4, OwRequestServed
<1>5. CASE SwitchMirrored
  BY <1>0, <1>5, OwMirroredServed
<1>6. CASE NicWrite
  BY <1>0, <1>6, OwNicWritten
<1>7. CASE PollCQ
  BY <1>0, <1>7, OwPolled
<1>8. CASE HostRecv
  <2>1. PICK a : RecvOw(a)
    BY <1>0, <1>8, SchemesApart DEF HostRecv, RecvCpc, RecvDpc, RecvReset
  <2> QED BY <1>0, <2>1, OwReceived
<1>9. ~BeginCpc /\ ~BeginCpcRdma /\ ~BeginCells
  BY <1>0, SchemesApart DEF BeginCpc, BeginCpcRdma, BeginCells
<1> QED BY <1>1, <1>2, <1>3, <1>4, <1>5, <1>6, <1>7, <1>8, <1>9 DEF CollectionNext

LEMMA CpcKept ==
  ASSUME CollectionInv, CollectionNext, Is({"cpc", "cpc-rdma"})
  PROVE  CollectionTyped' /\ CpcRight'
<1>0. CollectionTyped /\ CpcRight /\ (~Is(Rdma) => qp.completions = <<>>) /\ setup \in Setups
  BY DEF CollectionInv, CollectionTyped
<1>1. CASE InjectTrace
  BY <1>0, <1>1, CpcInjected
<1>2. CASE BeginCpc
  BY <1>0, <1>2, CpcBegun
<1>3. CASE BeginCpcRdma
  BY <1>0, <1>3, CpcRdmaBegun
<1>4. CASE SwitchRequest
  BY <1>0, <1>4, CpcRequestServed
<1>5. CASE SwitchMirrored
  BY <1>0, <1>5, CpcMirroredServed
<1>6. CASE NicWrite
  BY <1>0, <1>6, CpcNicWritten
<1>7. CASE PollCQ
  BY <1>0, <1>7, CpcPolled
<1>8. CASE HostRecv
  <2>1. PICK a : RecvCpc(a)
    BY <1>0, <1>8, SchemesApart DEF HostRecv, RecvOw, RecvDpc, RecvReset
  <2> QED BY <1>0, <2>1, CpcReceived
<1>9. ~BeginOw /\ ~BeginOwRdma /\ ~BeginCells
  BY <1>0, SchemesApart DEF BeginOw, BeginOwRdma, BeginCells
<1> QED BY <1>1, <1>2, <1>3, <1>4, <1>5, <1>6, <1>7, <1>8, <1>9 DEF CollectionNext

LEMMA DpcKept ==
  ASSUME CollectionInv, CollectionNext, Is({"dpc", "dpc-rdma"})
  PROVE  CollectionTyped' /\ DpcRight'
<1>0. CollectionTyped /\ DpcRight /\ (~Is(Rdma) => qp.completions = <<>>) /\ setup \in Setups
  BY DEF CollectionInv, CollectionTyped
<1>1. CASE InjectTrace
  BY <1>0, <1>1, DpcInjected
<1>2. CASE BeginCells
  BY <1>0, <1>2, CellsBegun, SchemesApart
<1>3. CASE SwitchRequest
  BY <1>0, <1>3, DpcRequestServed
<1>4. CASE SwitchMirrored
  BY <1>0, <1>4, DpcMirroredServed
<1>5. CASE NicWrite
  BY <1>0, <1>5, DpcNicWritten
<1>6. CASE PollCQ
  BY <1>0, <1>6, DpcPolled
<1>7. CASE HostRecv
  <2>1. PICK a : RecvDpc(a)
    BY <1>0, <1>7, SchemesApart DEF HostRecv, RecvOw, RecvCpc, RecvReset
  <2> QED BY <1>0, <2>1, DpcReceived
<1>8. ~BeginOw /\ ~BeginOwRdma /\ ~BeginCpc /\ ~BeginCpcRdma
  BY <1>0, SchemesApart DEF BeginOw, BeginOwRdma, BeginCpc, BeginCpcRdma
<1> QED BY <1>1, <1>2, <1>3, <1>4, <1>5, <1>6, <1>7, <1>8 DEF CollectionNext

LEMMA ResetKept ==
  ASSUME CollectionInv, CollectionNext, Is({"reset"})
  PROVE  CollectionTyped' /\ ResetRight'
<1>0. /\ CollectionTyped /\ ResetRight /\ setup \in Setups
      /\ ~Is(Rdma) /\ qp.completions = <<>> /\ ~Is({"dpc", "dpc-rdma"})
  <2>1. CollectionTyped /\ setup \in Setups
    BY DEF CollectionInv, CollectionTyped
  <2> QED BY <2>1, SchemesApart DEF CollectionInv
<1>1. CASE InjectTrace
  BY <1>0, <1>1, ResetInjected
<1>2. CASE BeginCells
  BY <1>0, <1>2, CellsBegun
<1>3. CASE SwitchRequest
  BY <1>0, <1>3, ResetRequestServed
<1>4. CASE SwitchMirrored
  BY <1>0, <1>4, ResetMirroredServed
<1>5. CASE HostRecv
  <2>1. PICK a : RecvReset(a)
    BY <1>0, <1>5, SchemesApart DEF HostRecv, RecvOw, RecvCpc, RecvDpc
  <2> QED BY <1>0, <2>1, ResetReceived
<1>6. ~BeginOw /\ ~BeginOwRdma /\ ~BeginCpc /\ ~BeginCpcRdma /\ ~NicWrite /\ ~PollCQ
  BY <1>0, SchemesApart DEF BeginOw, BeginOwRdma, BeginCpc, BeginCpcRdma, NicWrite, PollCQ
<1> QED BY <1>1, <1>2, <1>3, <1>4, <1>5, <1>6 DEF CollectionNext

(* Every step, of any setup.                                               *)
LEMMA CollectionKept ==
  ASSUME CollectionInv, [CollectionNext]_colVars
  PROVE  CollectionInv'
<1>1. CASE CollectionNext
  <2>1. CollectionTyped /\ setup \in Setups /\ (~Is(Rdma) => qp.completions = <<>>)
    BY DEF CollectionInv, CollectionTyped
  <2>2. setup' = setup /\ (~Is(Rdma) => qp'.completions = <<>>)
    BY <1>1, <2>1, CompletionsOfRdma
  <2>3. \A names : Is(names)' = Is(names)
    BY <2>2, SetupStays
  <2>4. CollectionTyped'
    BY <1>1, <2>1, SchemesApart, OwKept, CpcKept, DpcKept, ResetKept
  <2>5. /\ Is({"ow", "ow-rdma"}) => OwRight'
        /\ Is({"cpc", "cpc-rdma"}) => CpcRight'
        /\ Is({"dpc", "dpc-rdma"}) => DpcRight'
        /\ Is({"reset"}) => ResetRight'
    BY <1>1, OwKept, CpcKept, DpcKept, ResetKept
  <2>6. /\ Is({"ow", "ow-rdma"})' = Is({"ow", "ow-rdma"})
        /\ Is({"cpc", "cpc-rdma"})' = Is({"cpc", "cpc-rdma"})
        /\ Is({"dpc", "dpc-rdma"})' = Is({"dpc", "dpc-rdma"})
        /\ Is({"reset"})' = Is({"reset"}) /\ Is(Rdma)' = Is(Rdma)
    BY <2>2, SetupStays
  <2> QED BY <2>2, <2>4, <2>5, <2>6 DEF CollectionInv
<1>2. CASE UNCHANGED colVars
  <2>1. /\ setup' = setup /\ register' = register /\ requests' = requests /\ mirrored' = mirrored
        /\ answers' = answers /\ qp' = qp /\ main' = main /\ got' = got
    BY <1>2 DEF colVars
  <2>2. CollectionTyped' /\ (~Is(Rdma) => qp.completions = <<>>)'
    BY <2>1 DEF CollectionInv, CollectionTyped, Register, QueuePair, Locals, Cells, Is
  <2>3. OwRight <=> OwRight'
    <3>1. StoredRight' = StoredRight
      BY <2>1, SetupStays DEF StoredRight, Left, IsTaken
    <3>2. \A s, q, p : Collecting(s, q, p)' = Collecting(s, q, p)
      <4>1. Left' = Left /\ Sent' = Sent
        BY <2>1, SetupStays DEF Left, Sent
      <4> QED BY <2>1, <4>1, SetupStays, SMTT(30)
              DEF Collecting, OnTheWay, Counted, Paced, NextInject, AnswersOw, IsCollect
    <3>3. Silent' = Silent
      BY <2>1, SetupStays DEF Silent
    <3> QED BY <2>1, <3>1, <3>2, <3>3, SetupStays DEF OwRight, At, NotAsking
  <2>4. CpcRight <=> CpcRight'
    <3>1. InLine' = InLine
      BY <2>1, SetupStays DEF InLine, Behind
    <3> QED BY <2>1, <3>1, SetupStays DEF CpcRight, At, NotAsking, OneCompletion, Behind, Junks
  <2>5. (DpcRight <=> DpcRight') /\ (ResetRight <=> ResetRight')
    <3>1. Silent' = Silent /\ Idle' = Idle /\ NotStarted' = NotStarted
      BY <2>1, SetupStays DEF Silent, Idle, NotStarted, StartFirst, NoStart, OneCompletion, At, Cells
    <3>2. CellsGiven' = CellsGiven
      BY <2>1 DEF CellsGiven, CellsBehind
    <3>3. DpcRight <=> DpcRight'
      BY <2>1, <3>1, <3>2, SetupStays DEF DpcRight, At, NotAsking, OneCompletion, NoStart
    <3>4. ResetRight <=> ResetRight'
      BY <2>1, <3>1, SetupStays DEF ResetRight, At, NotAsking, NoStart, Cells
    <3> QED BY <3>3, <3>4
  <2> QED BY <2>1, <2>2, <2>3, <2>4, <2>5, SetupStays DEF CollectionInv
<1> QED BY <1>1, <1>2

(* The invariant gives the property: what Fetched and TwoBatches say.      *)
LEMMA InvIsCorrect ==
  ASSUME CollectionInv
  PROVE  CollectionCorrect
<1>0. CollectionTyped /\ setup \in Setups
  BY DEF CollectionInv, CollectionTyped
<1>1. ASSUME main.pc = "done" PROVE Fetched
  <2>1. CASE Is({"ow", "ow-rdma"})
    BY <1>0, <1>1, <2>1, OwFetched DEF CollectionInv
  <2>2. CASE Is({"cpc", "cpc-rdma"})
    BY <1>0, <1>1, <2>2, CpcFetched DEF CollectionInv
  <2>3. CASE Is({"dpc", "dpc-rdma"})
    BY <1>0, <1>1, <2>3, DpcFetched DEF CollectionInv
  <2>4. CASE Is({"reset"})
    BY <1>0, <1>1, <2>4, ResetFetched DEF CollectionInv
  <2> QED BY <1>0, <2>1, <2>2, <2>3, <2>4, SchemesApart
<1>2. ASSUME main.pc = "thrown" PROVE Is({"cpc"}) /\ nKey < 2 * M
  <2>1. Is({"cpc", "cpc-rdma"})
    BY <1>0, <1>2, SchemesApart DEF CollectionInv, OwRight, DpcRight, ResetRight, At
  <2> QED BY <1>2, <2>1 DEF CollectionInv, CpcRight, At, TooMany
<1>3. TwoBatches
  <2>1. ASSUME Is({"ow"}) PROVE Cardinality(Queries(requests)) + Cardinality(Queries(answers)) <= 2 * M
    BY <1>0, <2>1, OwTwoBatches, SchemesApart DEF CollectionInv
  <2>2. ASSUME Is({"cpc"}), nKey >= 2 * M
        PROVE  Cardinality(Queries(requests)) + Cardinality(Queries(answers)) <= 2 * M
    BY <1>0, <2>2, CpcTwoBatches, SchemesApart DEF CollectionInv
  <2> QED BY <2>1, <2>2 DEF TwoBatches
<1> QED BY <1>1, <1>2, <1>3 DEF CollectionCorrect, CollectsEverything

(* The inductive invariant: of each scheme, what is on the way and what    *)
(* the host has add up to what was asked for, in order.                    *)
THEOREM CollectionInductive == CollectionSpec => []CollectionInv
<1> QED BY CollectionStarts, CollectionKept, PTL DEF CollectionSpec

(* Whatever the batch, the number of keys and of COL packets, and however  *)
(* the two queues of the switch, the NIC and the host take turns: a        *)
(* collection that ended missed nothing and fetched nothing twice, and a   *)
(* host that paces itself has at most two batches on their way.            *)
THEOREM CollectionRight == CollectionSpec => []CollectionCorrect
<1> QED BY CollectionInductive, InvIsCorrect, PTL
=============================================================================

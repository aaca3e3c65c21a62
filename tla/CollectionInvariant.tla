------------------------ MODULE CollectionInvariant -------------------------
(***************************************************************************)
(* Why a collection of Collection ends with everything fetched: for each   *)
(* scheme, what is on the way, in the order in which it is, and what the   *)
(* host and the NIC have of it.  The proofs are in Experiments_proofs.     *)
(***************************************************************************)
EXTENDS Collection

Packet == [start : BOOLEAN, col : BOOLEAN, key : Int, idx : Int, last : BOOLEAN]
Reply == [key : Int, idx : Int, last : BOOLEAN]
Register == [stored : Seq(Int), cell : 0 .. N, dirty : SUBSET Cells, msn : Nat]
QueuePair == [recvs : Nat, completions : Seq(Int)]
Locals == [pc : {"init", "injected", "wait", "done", "thrown"}, round : Nat, rem : Int,
           next : Int, barrier : Int, nKeys : Int]

CollectionTyped ==
  /\ setup \in Setups
  /\ register \in Register
  /\ requests \in Seq(Packet) /\ mirrored \in Seq(Packet)
  /\ answers \in Seq(Reply) /\ got \in Seq(Reply)
  /\ qp \in QueuePair /\ main \in Locals

At(pcs) == main.pc \in pcs
NotAsking == At({"init", "injected"})
Silent == answers = <<>> /\ (Is(Rdma) => qp.recvs = 0 /\ qp.completions = <<>>)

-----------------------------------------------------------------------------
(* ow, ow-rdma.  There are two kinds of keys, each collected in turn: the  *)
(* stored ones from the last down to key 0, the queried ones downwards     *)
(* (ow) or upwards (ow-rdma).                                              *)
Room == Smaller(NKeysDp, nKey)
Stored == [t \in 1 .. Room |-> Room - t]
Queried ==
  [t \in 1 .. nInject |-> IF Is(Rdma) THEN (NKeysDp + t) - 1 ELSE (NKeysDp + nInject) - t]

(* Of the keys of turns, s carries those numbered a + 1 .. b, in this      *)
(* order, each once.                                                       *)
Carries(s, turns, a, b) ==
  /\ a <= b /\ b <= Len(turns)
  /\ \A i \in DOMAIN s, t \in DOMAIN turns : s[i].key = turns[t] => t \in a + 1 .. b
  /\ \A t \in a + 1 .. b : \E i \in DOMAIN s : s[i].key = turns[t]
  /\ \A i, j \in DOMAIN s, t, u \in DOMAIN turns :
       i < j /\ s[i].key = turns[t] /\ s[j].key = turns[u] => t < u

(* What the switch has taken from its keys is in the mirror session: Left  *)
(* keys are still to be answered.                                          *)
Left == Len(register.stored) + Len(mirrored)
IsTaken(p, k) == p.col /\ p.key = k /\ p.idx = k /\ (p.last <=> k = 0)

StoredRight ==
  /\ Left <= Room
  /\ \A i \in DOMAIN register.stored : register.stored[i] = i - 1
  /\ \A i \in DOMAIN mirrored : IsTaken(mirrored[i], Left - i)

IsCollect(p) == p.col /\ p.key = NoKey
IsQueryOf(p) ==
  \E t \in DOMAIN Queried :
    ~p.col /\ p.key = Queried[t] /\ p.idx = p.key /\ (p.last <=> Is(Rdma) /\ t = nInject)

(* The host has s stored keys and q queried ones; the switch has answered  *)
(* p queries of those that the host has sent.                              *)
Sent == nInject - main.rem

OnTheWay(s, q, p) ==
  /\ \A i \in DOMAIN requests : IsCollect(requests[i]) \/ IsQueryOf(requests[i])
  /\ Carries(requests, Queried, p, Sent)
  /\ Carries(answers, Stored, s, Room - Left) /\ Carries(answers, Queried, q, p)
  /\ Carries(got, Stored, 0, s) /\ Carries(got, Queried, 0, q)
  /\ Len(got) = s + q /\ Len(answers) = ((Room - Left) - s) + (p - q)

(* The two last keys, one of each kind, that the host waits for; so many   *)
(* of them are to come.                                                    *)
Final(k) == k = 0 \/ (nInject > 0 /\ k = Queried[nInject])
Awaited(s, q) == 2 - (IF s = Room THEN 1 ELSE 0) - (IF nInject > 0 /\ q = nInject THEN 1 ELSE 0)

(* A sequence of answers behind n others.                                  *)
AnswersOw(answered, n) ==
  \A i \in DOMAIN answered :
    LET a == answered[i]
    IN /\ a.key \in 0 .. nKey - 1
       /\ IF Is(Rdma) THEN a.idx = (n + i) - 1 /\ (a.last <=> Final(a.key)) ELSE a.idx = a.key

(* The host sends a batch when it has all but one of the latest.           *)
Paced(q) ==
  /\ main.rem \in 0 .. nInject
  /\ main.next = NextInject(main.rem)
  /\ main.rem > 0 => Sent - q > M
  /\ Sent - q <= 2 * M
Counted(s, q) ==
  IF Is(Rdma)
  THEN /\ main.rem = 0
       /\ register.msn = Len(got) + Len(answers)
       /\ qp.recvs = Awaited(s, q) /\ Len(qp.completions) = main.barrier - Awaited(s, q)
       /\ Awaited(s, q) = 0 => main.nKeys = nKey \/ qp.completions # <<>>
       /\ Awaited(s, q) = 0 /\ qp.completions # <<>> =>
            qp.completions[Len(qp.completions)] = nKey
  ELSE main.barrier = Awaited(s, q) /\ Paced(q)

Collecting(s, q, p) ==
  /\ s \in Nat /\ q \in Nat /\ p \in Nat
  /\ OnTheWay(s, q, p) /\ Counted(s, q)
  /\ AnswersOw(got, 0) /\ AnswersOw(answers, Len(got))

OwRight ==
  /\ At({"init", "injected", "wait", "done"}) /\ StoredRight
  /\ NotAsking => requests = <<>> /\ mirrored = <<>> /\ Silent
  /\ At({"init"}) => register.stored = <<>>
  /\ At({"injected"}) => Len(register.stored) = Room /\ register.msn = 0
  /\ At({"wait", "done"}) => /\ \E s, q, p \in Nat : Collecting(s, q, p)
                             /\ At({"done"}) <=> main.barrier = 0

-----------------------------------------------------------------------------
(* cpc, cpc-rdma.  The switch only answers; so much the host has asked for *)
(* when it has received n answers.                                         *)
Asked(n) ==
  IF Is(Rdma) THEN nKey
  ELSE IF nKey < 2 * M THEN 2 * M ELSE Smaller((M * (n \div M)) + (2 * M), nKey)

IsQuery(p, i) == p.idx = i /\ p.key = (IF i < nKey THEN i ELSE Junk)
Junks(s) == \A i \in DOMAIN s : s[i].key = Junk

(* A sequence of queries, or of answers to them, behind n others.          *)
Behind(s, n) ==
  \A i \in DOMAIN s : IsQuery(s[i], (n + i) - 1) /\ (Is(Rdma) => (s[i].last <=> n + i = nKey))

InLine ==
  /\ Behind(got, 0) /\ Behind(answers, Len(got)) /\ Behind(requests, Len(got) + Len(answers))
  /\ (Len(got) + Len(answers)) + Len(requests) = Asked(Len(got))

(* With less than two batches of keys the host has asked for more than     *)
(* its keys, and the answers to that await its next collection.            *)
TooMany == Is({"cpc"}) /\ nKey < 2 * M

(* One receive, for the last answer.                                       *)
OneCompletion(arrived) ==
  /\ qp.recvs = IF arrived THEN 0 ELSE 1
  /\ Len(qp.completions) = main.barrier - qp.recvs
  /\ main.barrier = IF At({"done"}) THEN 0 ELSE 1

CpcRight ==
  /\ mirrored = <<>>
  /\ At({"thrown"}) => TooMany
  /\ NotAsking => /\ requests = <<>> /\ Junks(answers) /\ (~TooMany => answers = <<>>)
                  /\ Is(Rdma) => qp.recvs = 0 /\ qp.completions = <<>>
  /\ At({"wait"}) =>
       \/ InLine /\ (IF Is(Rdma) THEN OneCompletion(Len(got) = nKey) ELSE Len(got) < nKey)
       \/ TooMany /\ got = <<>> /\ answers # <<>> /\ answers[1].key = Junk
  /\ At({"done"}) =>
       /\ Len(got) = nKey /\ Behind(got, 0)
       /\ Junks(answers) /\ Junks(requests) /\ (~TooMany => answers = <<>> /\ requests = <<>>)
       /\ Is(Rdma) => OneCompletion(TRUE)

-----------------------------------------------------------------------------
(* dpc, dpc-rdma, reset.  Collect packets of the round before that are     *)
(* still mirrored find no cell, until START sets the next cell back.       *)
Idle == register.cell = N \/ mirrored = <<>>
NoStart(s) == \A i \in DOMAIN s : ~s[i].start
StartFirst(s) == s # <<>> /\ s[1].start /\ NoStart(Tail(s))

NotStarted ==
  /\ StartFirst(requests) /\ Idle
  /\ got = <<>> /\ answers = <<>>
  /\ Is({"dpc-rdma"}) => OneCompletion(FALSE)
  /\ Is({"reset"}) => register.dirty = Cells

CellsBehind(s, n) ==
  \A i \in DOMAIN s : s[i].idx = (n + i) - 1 /\ (s[i].last <=> n + i = N)
CellsGiven ==
  /\ Len(got) + Len(answers) = register.cell
  /\ CellsBehind(got, 0) /\ CellsBehind(answers, Len(got))

DpcRight ==
  /\ At({"init", "injected", "wait", "done"}) /\ NoStart(mirrored)
  /\ NotAsking => requests = <<>> /\ Idle /\ Silent
  /\ At({"wait"}) =>
       \/ NotStarted
       \/ /\ NoStart(requests) /\ CellsGiven
          /\ IF Is(Rdma) THEN OneCompletion(Len(got) = N) ELSE Len(got) < N
  /\ At({"done"}) => /\ NoStart(requests) /\ CellsGiven /\ Len(got) = N
                     /\ Is(Rdma) => OneCompletion(TRUE)

ResetRight ==
  /\ At({"init", "injected", "wait", "done"}) /\ NoStart(mirrored)
  /\ NotAsking => requests = <<>> /\ Idle /\ Silent
  /\ At({"injected"}) => register.dirty = Cells
  /\ At({"wait"}) =>
       \/ NotStarted
       \/ /\ NoStart(requests) /\ \A c \in register.dirty : c >= register.cell
          /\ answers # <<>> <=> register.cell = N
          /\ Len(answers) <= 1
  /\ At({"done"}) => /\ NoStart(requests) /\ answers = <<>>
                     /\ register.cell = N /\ register.dirty = {}

CollectionInv ==
  /\ CollectionTyped
  /\ ~Is(Rdma) => qp.completions = <<>>
  /\ Is({"ow", "ow-rdma"}) => OwRight
  /\ Is({"cpc", "cpc-rdma"}) => CpcRight
  /\ Is({"dpc", "dpc-rdma"}) => DpcRight
  /\ Is({"reset"}) => ResetRight
=============================================================================

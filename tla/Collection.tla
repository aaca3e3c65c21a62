----------------------------- MODULE Collection -----------------------------
(***************************************************************************)
(* Exp-dc: seven ways for a host to fetch from the switch, or to reset,    *)
(* one window's state.  The keys of the input file are 0 .. nKey - 1, in   *)
(* the order the trace first shows them.                                   *)
(*   ow, ow-rdma   the switch keeps the first NKeysDp keys and collects    *)
(*                 them itself; the host queries the others                *)
(*   cpc, cpc-rdma the host queries every key                              *)
(*   dpc, dpc-rdma the switch sends its N cells; reset: it zeroes them     *)
(***************************************************************************)
EXTENDS Integers, SequencesExt

CONSTANTS Setups,      \* records [scheme, nKey, num]: host program, keys, COL packets
          NKeysDp,     \* NKEYS_DP of the host, NKEYS of the switch
          M,           \* a batch of queries
          N,           \* cells of a row of the sketch
          MaxRounds    \* bound: collections

Schemes == {"ow", "ow-rdma", "cpc", "cpc-rdma", "dpc", "dpc-rdma", "reset"}
Rdma == {"ow-rdma", "cpc-rdma", "dpc-rdma"}

ASSUME CollectionAssumption ==
  /\ \A s \in Setups : s.scheme \in Schemes /\ {s.nKey, s.num} \subseteq Nat \ {0}
  /\ {NKeysDp, M, MaxRounds} \subseteq Nat \ {0} /\ N \in Nat \ {0, 1}

VARIABLES setup,       \* the member of Setups that runs
          register,    \* stored keys, next cell, cells not zero, next RDMA slot
          requests,    \* host to switch
          mirrored,    \* the mirror session, back to the egress
          answers,     \* switch to host
          qp,          \* posted receives and unread completions
          main,        \* the locals of main
          got          \* the answers of this round, as recv or the NIC stored them

colVars == <<setup, register, requests, mirrored, answers, qp, main, got>>

NoKey == -1
Junk == -2             \* what lies behind the last element of keyBuf
Is(names) == setup.scheme \in names
nKey == setup.nKey
Cells == 0 .. N - 1
Smaller(a, b) == IF a < b THEN a ELSE b

Collect == [start |-> FALSE, col |-> TRUE, key |-> NoKey, idx |-> 0, last |-> FALSE]
Query(i) == [Collect EXCEPT !.col = FALSE, !.key = IF i < nKey THEN i ELSE Junk, !.idx = i]

(* pkts[from - 1] down to pkts[to].                                        *)
QueriesDown(from, to) == [i \in 1 .. from - to |-> Query(NKeysDp + from - i)]
(* keyBuf[from] up to keyBuf[to - 1].                                      *)
QueriesUp(from, to) == [i \in 1 .. to - from |-> Query(from + i - 1)]

Notify(queries) == [i \in DOMAIN queries |-> [queries[i] EXCEPT !.last = (i = Len(queries))]]
Collects(k) == [i \in 1 .. k |-> Collect]
StartCollects(k) == <<[Collect EXCEPT !.start = TRUE]>> \o Collects(k - 1)

CollectionInit ==
  /\ setup \in Setups
  /\ register = [stored |-> <<>>, cell |-> 0, dirty |-> {}, msn |-> 0]
  /\ requests = <<>> /\ mirrored = <<>> /\ answers = <<>>
  /\ qp = [recvs |-> 0, completions |-> <<>>]
  /\ main = [pc |-> "init", round |-> 0, rem |-> 0, next |-> 0, barrier |-> 0, nKeys |-> 0]
  /\ got = <<>>

-----------------------------------------------------------------------------
(* The operator resets the switch and plays the trace: each new key that   *)
(* still finds room is stored.  By then the requests of the round before   *)
(* have reached the switch.                                                *)
InjectTrace ==
  /\ main.pc \in {"init", "done"} /\ main.round < MaxRounds
  /\ requests = <<>>
  /\ LET room == NKeysDp - Len(register.stored)
     IN register' = [register EXCEPT
          !.stored = IF Is({"ow", "ow-rdma"})
                     THEN @ \o [i \in 1 .. Smaller(room, nKey) |-> i - 1] ELSE @,
          !.dirty = Cells, !.msn = 0]
  /\ main' = [main EXCEPT !.pc = "injected", !.round = @ + 1]
  /\ UNCHANGED <<setup, requests, mirrored, answers, qp, got>>

(* Variants with a fault: the batch before the latest one has one answer   *)
(* to come; an answer that comes only after the next batch.                *)
NextInjectEarly(rem) == NKeysDp + rem + M + 1
NextInjectLate(rem) == NKeysDp + rem - 1

(* The answer to the last query of the batch before the latest one lets    *)
(* the next batch go.                                                      *)
NextInject(rem) == NKeysDp + rem + M

(* The operator presses Enter: the host sends its first requests and, if   *)
(* it uses RDMA, posts a receive for every completion it will wait for.    *)
Begin(reqs, rem, barrier) ==
  /\ main.pc = "injected"
  /\ requests' = requests \o reqs
  /\ main' = [main EXCEPT !.pc = "wait", !.rem = rem, !.next = NextInject(rem),
                          !.barrier = barrier, !.nKeys = 0]
  /\ qp' = IF Is(Rdma) THEN [qp EXCEPT !.recvs = @ + barrier] ELSE qp
  /\ got' = <<>>
  /\ UNCHANGED <<setup, register, mirrored, answers>>

nInject == IF nKey <= NKeysDp THEN 0 ELSE nKey - NKeysDp

BeginOw ==
  /\ Is({"ow"})
  /\ LET rem == nInject - Smaller(2 * M, nInject)
     IN Begin(QueriesDown(nInject, rem) \o Collects(setup.num), rem, 2)

BeginOwRdma ==
  /\ Is({"ow-rdma"})
  /\ Begin(Collects(setup.num) \o Notify(QueriesUp(NKeysDp, NKeysDp + nInject)), 0, 2)

BeginCpc == Is({"cpc"}) /\ Begin(QueriesUp(0, 2 * M), 0, 0)
BeginCpcRdma == Is({"cpc-rdma"}) /\ Begin(Notify(QueriesUp(0, nKey)), 0, 1)
BeginCells == Is({"dpc", "dpc-rdma", "reset"}) /\ Begin(StartCollects(setup.num), 0, 1)

-----------------------------------------------------------------------------
(* SwitchEgress of each program, for a packet p; rest is what the mirror   *)
(* session still holds.                                                    *)
Answer(key, idx, last) == Append(answers, [key |-> key, idx |-> idx, last |-> last])

(* get_next_col_idx counts down, so the keys are a stack.  The packet that *)
(* took a key is mirrored with it, answers with it and takes the next.     *)
OwEgress(p, rest) ==
  LET stored == register.stored
      colIdx == Len(stored) - 1
      taken == [Collect EXCEPT !.key = Last(stored), !.idx = colIdx, !.last = (colIdx = 0)]
      hasKey == p.key # NoKey
      takes == p.col /\ stored # <<>>
  IN /\ Is({"ow", "ow-rdma"})
     /\ answers' = IF ~hasKey THEN answers
                   ELSE Answer(p.key, IF Is(Rdma) THEN register.msn ELSE p.idx, p.last)
     /\ mirrored' = IF takes THEN Append(rest, taken) ELSE rest
     /\ register' = [register EXCEPT !.stored = IF takes THEN Front(@) ELSE @,
                                     !.msn = IF hasKey /\ Is(Rdma) THEN @ + 1 ELSE @]

CpcEgress(p, rest) ==
  /\ Is({"cpc", "cpc-rdma"})
  /\ answers' = Answer(p.key, p.idx, p.last)
  /\ mirrored' = rest /\ UNCHANGED register

(* reset_col_idx and get_next_col_idx.                                     *)
DpcEgress(p, rest) ==
  LET colIdx == IF p.start THEN 0 ELSE register.cell
  IN /\ Is({"dpc", "dpc-rdma"})
     /\ register' = [register EXCEPT !.cell = IF p.start THEN 1 ELSE Smaller(@ + 1, N)]
     /\ IF colIdx = N
        THEN mirrored' = rest /\ UNCHANGED answers
        ELSE /\ answers' = Answer(NoKey, colIdx, colIdx = N - 1)
             /\ mirrored' = Append(rest, Collect)

(* start_reset and get_next_reset_idx.                                     *)
ResetEgress(p, rest) ==
  LET resetIdx == IF p.start THEN 0 ELSE register.cell
  IN /\ Is({"reset"})
     /\ register' = [register EXCEPT !.cell = IF p.start THEN 0 ELSE Smaller(@ + 1, N),
                                     !.dirty = @ \ {resetIdx}]
     /\ answers' = IF resetIdx = N - 1 THEN Answer(NoKey, resetIdx, TRUE) ELSE answers
     /\ mirrored' = IF resetIdx = N THEN rest ELSE Append(rest, Collect)

SwitchEgress(p, rest) ==
  OwEgress(p, rest) \/ CpcEgress(p, rest) \/ DpcEgress(p, rest) \/ ResetEgress(p, rest)

SwitchRequest ==
  /\ requests # <<>>
  /\ requests' = Tail(requests)
  /\ SwitchEgress(Head(requests), mirrored)
  /\ UNCHANGED <<setup, qp, main, got>>

SwitchMirrored ==
  /\ mirrored # <<>>
  /\ SwitchEgress(Head(mirrored), Tail(mirrored))
  /\ UNCHANGED <<setup, requests, qp, main, got>>

-----------------------------------------------------------------------------
(* The NIC stores a write; one with immediate data uses up a receive.      *)
NicWrite ==
  /\ Is(Rdma) /\ answers # <<>>
  /\ LET a == Head(answers)
     IN /\ a.last => qp.recvs > 0
        /\ qp' = IF a.last THEN [recvs |-> qp.recvs - 1,
                                  completions |-> Append(qp.completions, a.idx + 1)]
                  ELSE qp
        /\ got' = Append(got, a)
  /\ answers' = Tail(answers)
  /\ UNCHANGED <<setup, register, requests, mirrored, main>>

(* pollCQ; with ow-rdma the last completion tells how many keys came.      *)
PollCQ ==
  /\ main.pc = "wait" /\ qp.completions # <<>>
  /\ qp' = [qp EXCEPT !.completions = Tail(@)]
  /\ main' = [main EXCEPT !.barrier = @ - 1, !.nKeys = Head(qp.completions),
                          !.pc = IF main.barrier = 1 THEN "done" ELSE @]
  /\ UNCHANGED <<setup, register, requests, mirrored, answers, got>>

Recv(a) ==
  /\ main.pc = "wait" /\ ~Is(Rdma)
  /\ answers # <<>> /\ a = Head(answers)
  /\ answers' = Tail(answers) /\ got' = Append(got, a)
  /\ UNCHANGED <<setup, register, mirrored, qp>>

RecvOw(a) ==
  LET rem == IF a.idx = main.next THEN main.rem - Smaller(M, main.rem) ELSE main.rem
      ends == a.idx \in {0, NKeysDp}
  IN /\ Is({"ow"}) /\ Recv(a)
     /\ requests' = requests \o QueriesDown(main.rem, rem)
     /\ main' = [main EXCEPT !.rem = rem,
          !.next = IF a.idx = @ THEN NextInject(rem) ELSE @,
          !.barrier = IF ends THEN @ - 1 ELSE @,
          !.pc = IF ends /\ main.barrier = 1 THEN "done" ELSE @]

RecvCpc(a) ==
  LET n == Len(got) + 1
      batchEnds == n % M = 0 \/ n = nKey
      b == M * ((n - 1) \div M)
  IN /\ Is({"cpc"}) /\ Recv(a)
     /\ IF a.key # n - 1
        THEN main' = [main EXCEPT !.pc = "thrown"] /\ UNCHANGED requests
        ELSE /\ requests' = IF batchEnds /\ b + 2 * M < nKey
                            THEN requests \o QueriesUp(b + 2 * M, Smaller(b + 3 * M, nKey))
                            ELSE requests
             /\ main' = [main EXCEPT !.pc = IF n = nKey THEN "done" ELSE @]

RecvDpc(a) ==
  /\ Is({"dpc"}) /\ Recv(a) /\ UNCHANGED requests
  /\ main' = [main EXCEPT !.pc = IF a.idx # Len(got) THEN "thrown"
                                 ELSE IF Len(got) = N - 1 THEN "done" ELSE @]

RecvReset(a) ==
  /\ Is({"reset"}) /\ Recv(a) /\ UNCHANGED requests
  /\ main' = [main EXCEPT !.pc = "done"]

HostRecv == \E a \in {answers[i] : i \in DOMAIN answers} :
              RecvOw(a) \/ RecvCpc(a) \/ RecvDpc(a) \/ RecvReset(a)

CollectionNext ==
  \/ InjectTrace
  \/ BeginOw \/ BeginOwRdma \/ BeginCpc \/ BeginCpcRdma \/ BeginCells
  \/ SwitchRequest \/ SwitchMirrored
  \/ NicWrite \/ PollCQ \/ HostRecv

(* The switch serves both of its queues, the NIC and the host keep polling; *)
(* the operator owes nothing.                                               *)
CollectionFairness ==
  /\ WF_colVars(SwitchRequest) /\ WF_colVars(SwitchMirrored)
  /\ WF_colVars(NicWrite) /\ WF_colVars(PollCQ) /\ WF_colVars(HostRecv)

CollectionSpec == CollectionInit /\ [][CollectionNext]_colVars /\ CollectionFairness

-----------------------------------------------------------------------------
(* A collection that ended has fetched every key, or every cell in order,  *)
(* exactly once, counted them right, and left the switch no stored key; a  *)
(* reset that was answered has zeroed every cell.  The host gives up on an *)
(* answer only where it asked beyond the end of its key buffer.            *)
Fetched ==
  CASE Is({"ow", "ow-rdma"}) ->
         /\ Len(got) = nKey /\ {got[i].key : i \in 1 .. Len(got)} = 0 .. nKey - 1
         /\ Is(Rdma) => main.nKeys = nKey /\ \A i \in 1 .. nKey : got[i].idx = i - 1
         /\ register.stored = <<>>
    [] Is({"cpc", "cpc-rdma"}) ->
         Len(got) = nKey /\ \A i \in 1 .. nKey : got[i].key = i - 1 /\ got[i].idx = i - 1
    [] Is({"dpc", "dpc-rdma"}) -> Len(got) = N /\ \A i \in 1 .. N : got[i].idx = i - 1
    [] Is({"reset"}) -> register.dirty = {}

CollectsEverything ==
  /\ main.pc = "done" => Fetched
  /\ main.pc = "thrown" => Is({"cpc"}) /\ nKey < 2 * M

(* A host that paces its queries never has more than two batches of them   *)
(* on their way (cpc: if its key buffer holds two batches).                *)
Queries(s) == {i \in DOMAIN s : s[i].key # NoKey /\ (Is({"ow"}) => s[i].key >= NKeysDp)}
TwoBatches ==
  Is({"ow"}) \/ (Is({"cpc"}) /\ nKey >= 2 * M) =>
    Cardinality(Queries(requests)) + Cardinality(Queries(answers)) <= 2 * M

(* A collection that ended missed nothing and fetched nothing twice, and    *)
(* the host never had more than two batches of queries on their way.       *)
CollectionCorrect == CollectsEverything /\ TwoBatches

(* A collection that began ends.  With ow and ow-rdma the host waits for   *)
(* the last stored key and for the last queried one, so there must be a    *)
(* key the switch had no room for; cpc may give up instead.                *)
CollectionEnds ==
  (main.pc = "wait" /\ (Is({"ow", "ow-rdma"}) => nKey > NKeysDp)) ~> main.pc \in {"done", "thrown"}
=============================================================================

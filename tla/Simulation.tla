----------------------------- MODULE Simulation -----------------------------
(***************************************************************************)
(* Exp-1: each query runs over one trace with six ways of cutting it into  *)
(* windows.  The six are threads that share nothing (each has its copy of  *)
(* the trace), so they read a packet together here.                        *)
(***************************************************************************)
EXTENDS Integers, SequencesExt

CONSTANTS Hosts,         \* IP addresses
          NSlide,        \* nSlide: slides of a window; a slide is one unit of time
          NEpoch,        \* nEpoch: windows
          DcTime,        \* dcTime: how long TW1 collects data
          Threshold,     \* threshold, threshold1
          BytesPerCon,   \* 1 / threshold2
          MaxPkts,       \* bound: packets of the trace
          MaxTime        \* bound: time of the last packet

SimulationAssumption ==
  /\ NSlide \in Nat \ {0} /\ NEpoch \in Nat \ {0}
  /\ DcTime \in 0 .. NSlide
  /\ {Threshold, BytesPerCon, MaxTime} \subseteq Nat \ {0} /\ MaxPkts \in Nat

VARIABLES app,       \* the query
          trace,     \* history: the packets read
          thread     \* thread[s]: what getResultRaw of scheme s keeps

simVars == <<app, trace, thread>>

RKey == IF app = "ssh_brute" THEN Hosts \X {1, 2} ELSE Hosts
DKey ==
  CASE app \in {"new_tcp_connections", "completed_flow", "syn_flood"} -> {}
    [] app \in {"ddos", "superspreader"} -> Hosts \X Hosts
    [] app = "port_scan" -> Hosts \X {1, 2}
    [] app \in {"ssh_brute", "slowloris_attack"} -> Hosts \X Hosts \X {1, 2}

D == INSTANCE Distinct WITH DKeys <- DKey, MarkOf <- [d \in DKey |-> d]
R == INSTANCE Reduce WITH RKeys <- RKey, CellOf <- [k \in RKey |-> k]

-----------------------------------------------------------------------------
(* process of each query: what it adds to each of its reduces, if distinct *)
(* lets pair pass.                                                         *)
NewTcpConnections(p) == [pair |-> {}, adds |-> <<IF p.flag = 2 THEN {<<p.dst, 1>>} ELSE {}>>]

CompletedFlow(p) ==
  [pair |-> {}, adds |-> <<IF p.flag = 2 THEN {<<p.dst, 1>>} ELSE {},
                           IF p.flag % 2 = 1 THEN {<<p.dst, 1>>} ELSE {}>>]

SynFlood(p) ==
  [pair |-> {}, adds |-> <<IF p.flag = 2 THEN {<<p.dst, 1>>} ELSE {},
                           IF p.flag = 17 THEN {<<p.src, 1>>} ELSE {},
                           IF p.flag = 16 THEN {<<p.dst, 1>>} ELSE {}>>]

DDoS(p) == [pair |-> {<<p.dst, p.src>>}, adds |-> <<{<<p.dst, 1>>}>>]
SuperSpreader(p) == [pair |-> {<<p.dst, p.src>>}, adds |-> <<{<<p.src, 1>>}>>]
PortScan(p) == [pair |-> {<<p.src, p.port>>}, adds |-> <<{<<p.src, 1>>}>>]
SSHBrute(p) == [pair |-> {<<p.dst, p.src, p.size>>}, adds |-> <<{<<<<p.dst, p.size>>, 1>>}>>]

(* The second reduce of slowloris counts bytes, whatever distinct says.    *)
Slowloris(p) ==
  [pair |-> {<<p.dst, p.src, p.port>>}, adds |-> <<{<<p.dst, 1>>}, {<<p.dst, p.size>>}>>]

Counted(p) ==
  CASE app = "new_tcp_connections" -> NewTcpConnections(p)
    [] app = "completed_flow" -> CompletedFlow(p)
    [] app = "syn_flood" -> SynFlood(p)
    [] app = "ddos" -> DDoS(p)
    [] app = "superspreader" -> SuperSpreader(p)
    [] app = "port_scan" -> PortScan(p)
    [] app = "ssh_brute" -> SSHBrute(p)
    [] app = "slowloris_attack" -> Slowloris(p)

(* switchWin of each query: the keys that pass, r[i] the i-th reduce.  The  *)
(* loops run over the keys that the first reduce holds; slowloris looks at *)
(* those that both hold.                                                   *)
Reached(r) == {k \in DOMAIN r[1] : r[1][k] >= Threshold}
ReachedOfHost(r) == {k[1] : k \in Reached(r)}
Unfinished(r) == {k \in DOMAIN r[1] : r[1][k] - R!At(r[2], k) >= Threshold}

Flooded(r) ==
  {k \in DOMAIN r[1] : r[1][k] + R!At(r[2], k) - R!At(r[3], k) >= Threshold}
Slow(r) ==
  {k \in DOMAIN r[1] \cap DOMAIN r[2] :
     r[2][k] >= Threshold /\ r[1][k] * BytesPerCon >= r[2][k]}

Passing(r) ==
  CASE app \in {"new_tcp_connections", "ddos", "superspreader", "port_scan"} -> Reached(r)
    [] app = "completed_flow" -> Unfinished(r)
    [] app = "syn_flood" -> Flooded(r)
    [] app = "ssh_brute" -> ReachedOfHost(r)
    [] app = "slowloris_attack" -> Slow(r)

NReduce == CASE app = "syn_flood" -> 3
             [] app \in {"completed_flow", "slowloris_attack"} -> 2
             [] OTHER -> 1

-----------------------------------------------------------------------------
(* evaluate: the six schemes, each with the interval it cuts the trace at. *)
Scheme ==
  [ISW |-> [interval |-> 1,      dc |-> 0,      epochs |-> NEpoch * NSlide],
   TW1 |-> [interval |-> NSlide, dc |-> DcTime, epochs |-> NEpoch],
   TW2 |-> [interval |-> NSlide, dc |-> 0,      epochs |-> NEpoch],
   OTW |-> [interval |-> 1,      dc |-> 0,      epochs |-> NEpoch * NSlide],
   ITW |-> [interval |-> NSlide, dc |-> 0,      epochs |-> NEpoch],
   OSW |-> [interval |-> 1,      dc |-> 0,      epochs |-> NEpoch * NSlide]]
Schemes == DOMAIN Scheme

NewDistinct(s) == CASE s = "ISW" -> D!NewTtl
                    [] s \in {"TW1", "TW2", "ITW"} -> {}
                    [] s \in {"OTW", "OSW"} -> D!NewFineGrained

NewReduce(s) == CASE s = "ISW" -> R!NewSliding(R!EmptyMap)
                  [] s \in {"TW1", "TW2"} -> R!EmptySketch
                  [] s = "OTW" -> R!NewFineGrained(R!EmptySketch)
                  [] s = "ITW" -> R!EmptyMap
                  [] s = "OSW" -> R!NewSliding(R!EmptySketch)

(* distinct->switchWin, reduce->switchWin, and what the latter returns.    *)
SwitchDistinct(s, d) == CASE s = "ISW" -> D!TtlSwitch(d)
                          [] s \in {"TW1", "TW2", "ITW"} -> {}
                          [] s \in {"OTW", "OSW"} -> D!FineGrainedSwitch(d)

SwitchReduce(s, r) ==
  CASE s = "ISW" -> R!SlidingSwitch(r, R!MapResult(r.underlay), R!EmptyMap)
    [] s \in {"TW1", "TW2"} -> R!EmptySketch
    [] s = "OTW" -> R!FineGrainedSwitch(r, R!SketchResult(r.underlay), R!EmptySketch)
    [] s = "ITW" -> R!EmptyMap
    [] s = "OSW" -> R!SlidingSwitch(r, R!SketchResult(r.underlay), R!EmptySketch)

Returns(s, r) == s = "OTW" => R!FineGrainedReturns(r)
Result(s, r) ==
  CASE s = "ISW" -> R!SlidingResult(r, R!MapResult(r.underlay))
    [] s \in {"TW1", "TW2"} -> R!SketchResult(r)
    [] s = "OTW" -> R!FineGrainedResult(r, R!SketchResult(r.underlay))
    [] s = "ITW" -> R!MapResult(r)
    [] s = "OSW" -> R!SlidingResult(r, R!SketchResult(r.underlay))

(* distinct->process(pair): whether it passes, and what is kept.           *)
Passes(s, d, pair) == CASE s \in {"TW1", "TW2"} -> D!FilterPasses(d, pair)
                        [] s = "ITW" -> D!SetPasses(d, pair)
                        [] s \in {"OTW", "OSW"} -> D!FilterPasses(d.underlay, pair)
Mark(s, d, pair) ==
  CASE s = "ISW" -> D!TtlProcess(d, pair)
    [] s \in {"TW1", "TW2"} -> D!FilterProcess(d, pair)
    [] s = "ITW" -> D!SetProcess(d, pair)
    [] s \in {"OTW", "OSW"} -> [d EXCEPT !.underlay = D!FilterProcess(@, pair)]

AddTo(s, r, key, val) ==
  CASE s = "ISW" -> [r EXCEPT !.underlay = R!MapProcess(@, key, val)]
    [] s \in {"TW1", "TW2"} -> R!SketchProcess(r, key, val)
    [] s = "ITW" -> R!MapProcess(r, key, val)
    [] s \in {"OTW", "OSW"} -> [r EXCEPT !.underlay = R!SketchProcess(@, key, val)]

AddAll(s, r, adds) == FoldSet(LAMBDA a, b : AddTo(s, b, a[1], a[2]), r, adds)

-----------------------------------------------------------------------------
(* process of the query.  The ideal sliding scheme moves a pair to the     *)
(* slide that has seen it last; the others count it when it passes.        *)
Process(s, q, p) ==
  LET c == Counted(p)
      added == [i \in 1 .. NReduce |-> AddAll(s, q.reduces[i], c.adds[i])]
      first(pair) == IF s = "ISW"
                     THEN LET a == CHOOSE a \in c.adds[1] : TRUE
                          IN  R!ProcessWithPrevTtl(q.reduces[1], a[1], a[2], q.distinct[pair])
                     ELSE IF Passes(s, q.distinct, pair) THEN added[1] ELSE q.reduces[1]
  IN  IF c.pair = {} THEN [q EXCEPT !.reduces = added]
      ELSE LET pair == CHOOSE pair \in c.pair : TRUE
           IN  [q EXCEPT !.reduces = [added EXCEPT ![1] = first(pair)],
                         !.distinct = Mark(s, @, pair)]

(* One turn of the loop that closes windows: switchWin of the query, its   *)
(* distinct first.                                                         *)
SwitchWin(s, q) ==
  LET r == [i \in 1 .. NReduce |-> Result(s, q.reduces[i])]
  IN  [distinct |-> SwitchDistinct(s, q.distinct),
       reduces |-> [i \in 1 .. NReduce |-> SwitchReduce(s, q.reduces[i])],
       res |-> IF \A i \in 1 .. NReduce : Returns(s, q.reduces[i])
               THEN Append(q.res, Passing(r)) ELSE q.res,
       startTime |-> q.startTime + Scheme[s].interval,
       curEpoch |-> q.curEpoch + 1]

(* The turns of that loop for a packet of time ts, until the last window.  *)
Turns(s, q, ts) ==
  Min({(ts - q.startTime) \div Scheme[s].interval, Scheme[s].epochs - q.curEpoch})
Closed(s, q, ts) ==
  LET after[i \in 0 .. Turns(s, q, ts)] == IF i = 0 THEN q ELSE SwitchWin(s, after[i - 1])
  IN  after[Turns(s, q, ts)]

(* getResultRaw: what one packet does.                                     *)
GetResult(s, q, p) ==
  LET started == IF q.startTime = 0 THEN [q EXCEPT !.startTime = p.ts] ELSE q
      closed == Closed(s, started, p.ts)
  IN  IF \/ closed.curEpoch = Scheme[s].epochs
         \/ p.ts - closed.startTime < Scheme[s].dc
      THEN closed ELSE Process(s, closed, p)

(* collapseResultAll: all windows in one.  ResultInfo: how many of the keys *)
(* of a result the baseline has, and how many it has not.                  *)
CollapseResultAll(res) == UNION Range(res)
ResultInfo(baseline, result) ==
  [detectedAbnormal |-> Cardinality(result \cap baseline),
   detectedNormal |-> Cardinality(result \ baseline)]

(* The packets that a query is tried with: those that it tells apart.      *)
OneHost == {CHOOSE h \in Hosts : TRUE}
Plain == [src |-> OneHost, dst |-> Hosts, port |-> {1}, flag |-> {2}, size |-> {1}]
Tried ==
  CASE app = "new_tcp_connections" -> Plain
    [] app = "completed_flow" -> [Plain EXCEPT !.flag = {2, 17}]
    [] app = "syn_flood" -> [Plain EXCEPT !.dst = OneHost, !.flag = {2, 16, 17}]
    [] app \in {"ddos", "superspreader"} -> [Plain EXCEPT !.src = Hosts]
    [] app = "port_scan" -> [Plain EXCEPT !.src = Hosts, !.dst = OneHost, !.port = {1, 2}]
    [] app \in {"ssh_brute", "slowloris_attack"} ->
         [Plain EXCEPT !.src = Hosts, !.dst = OneHost, !.size = {1, 2}]
PktInfo(t) == [src : t.src, dst : t.dst, port : t.port, flag : t.flag, size : t.size, ts : 1 .. MaxTime]

Init ==
  /\ app \in {"new_tcp_connections", "completed_flow", "syn_flood", "ddos", "superspreader",
              "port_scan", "ssh_brute", "slowloris_attack"}
  /\ trace = <<>>
  /\ thread = [s \in Schemes |->
       [distinct |-> NewDistinct(s), reduces |-> [i \in 1 .. NReduce |-> NewReduce(s)],
        startTime |-> 0, curEpoch |-> 0, res |-> <<>>]]

(* Each thread reads the next packet of the trace, which is in the order   *)
(* of time.                                                                *)
ReadPacket ==
  /\ Len(trace) < MaxPkts
  /\ \E pkt \in PktInfo(Tried) :
       /\ IF trace = <<>> THEN pkt.ts = 1 ELSE pkt.ts >= Last(trace).ts
       /\ trace' = Append(trace, pkt)
       /\ thread' = [s \in Schemes |-> GetResult(s, thread[s], pkt)]
  /\ UNCHANGED app

-----------------------------------------------------------------------------
(* The reference: the query on the exact contents of the units of time     *)
(* from first to last, counted from the first packet.                      *)
Within(first, last) == {i \in DOMAIN trace : trace[i].ts - trace[1].ts \in first .. last}

ExactSum(first, last, n, k) ==
  LET counted == {i \in Within(first, last) : \E a \in Counted(trace[i]).adds[n] : a[1] = k}
      once == {i \in counted : Counted(trace[i]).pair = {} \/ n > 1
                 \/ ~\E j \in counted : j < i /\ Counted(trace[j]).pair = Counted(trace[i]).pair}
      val(i) == (CHOOSE a \in Counted(trace[i]).adds[n] : a[1] = k)[2]
  IN  FoldSet(LAMBDA i, sum : val(i) + sum, 0, once)

(* Each map holds the keys that something was counted for.                 *)
Exact(first, last) ==
  LET held(n) == UNION {{a[1] : a \in Counted(trace[i]).adds[n]} : i \in Within(first, last)}
  IN  Passing([n \in 1 .. NReduce |-> [k \in held(n) |-> ExactSum(first, last, n, k)]])

(* The baseline that all schemes are measured against is the query itself: *)
(* after each slide ISW has reported what the query asks of the last       *)
(* NSlide slides, each pair counted once wherever it came first and last.  *)
ISWExact ==
  \A i \in DOMAIN thread["ISW"].res : thread["ISW"].res[i] = Exact(i - NSlide, i - 1)

(* Without collisions the schemes differ only by when they collect: the    *)
(* tumbling ones report the query on each whole window, TW1 without what   *)
(* came while it collected, and OSW agrees with ISW after each slide where *)
(* there are no pairs, and where a window of the filter ends with it.  So  *)
(* the precision that evaluate prints is 1 for a tumbling scheme.          *)
SchemesAgree ==
  /\ \A s \in {"TW1", "TW2", "OTW", "ITW"} : \A i \in DOMAIN thread[s].res :
       thread[s].res[i] = Exact((i - 1) * NSlide + Scheme[s].dc, i * NSlide - 1)
  /\ \A i \in DOMAIN thread["OSW"].res :
       \/ thread["OSW"].res[i] = Exact(i - NSlide, i - 1)
       \/ i % NSlide # 0 /\ Counted(trace[1]).pair # {}
  /\ \A s \in {"TW2", "OTW", "ITW"} :
       ResultInfo(CollapseResultAll(thread["ISW"].res),
                  CollapseResultAll(thread[s].res)).detectedNormal = 0
=============================================================================

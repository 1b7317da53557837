------------------------- MODULE MonitorExperiment --------------------------
(***************************************************************************)
(* experiments/fidelity_monitor.py around run_monitor: the decision logs   *)
(* of three scenarios, the grid of monitors run on them, the detection     *)
(* table, the operating points and the verdict.                            *)
(*                                                                         *)
(* Training is data: a record of a stream says whether it is fraud and     *)
(* whether the good and the mis-trained gate certify it.  run_monitor is   *)
(* FidelityMonitor, of which LabelsOnTime and AlarmsAtFirstCrossing show   *)
(* that it alarms at the first decision whose matured audits cross.        *)
(***************************************************************************)
EXTENDS FiniteSets, FiniteSetsExt, Integers, Sequences, SequencesExt

CONSTANTS
  StreamsOf,    \* seed -> the gate pools: [dt, fraud, good, bad] in time order
  Windows, Thetas, Deltas,   \* the grid; thetas as hundredths
  ShiftBoost    \* shift_boost

VARIABLES
  seed,         \* seeds done
  pool,         \* the stream of each seed done or under way
  logs,         \* scenario -> its decision log, of the seed under way
  rows,         \* all_rows
  payload,      \* what the json says, or empty
  md            \* what the md says, or empty

vars == <<seed, pool, logs, rows, payload, md>>

Seeds == Len(StreamsOf)

Scenarios == {"control", "underfit", "label_shift"}

Grid == Windows \X Thetas \X Deltas

Monitor(l, d, n, th) ==
  INSTANCE FidelityMonitor WITH
    Logs <- {l}, Deltas <- {d}, NWindow <- n, Theta <- (th * n) \div 100, TReg <- 0,
    log <- l, delta <- d, idx <- 0, matured <- << >>, pending <- << >>, cum <- 0, calib <- -1,
    alarm <- [raised |-> FALSE]

\* What is left after the burn-in, and those before the injection.
AfterBurnIn(s) == SubSeq(s, (3 * Len(s)) \div 10 + 1, Len(s))

TReg(d) == (2 * Len(d)) \div 5

-----------------------------------------------------------------------------
(* decision_log.                                                           *)

\* A stable sort by time.
ByTime(s) ==
  LET Earlier(i, j) == s[i].dt < s[j].dt \/ (s[i].dt = s[j].dt /\ i < j) IN
  [k \in DOMAIN s |->
     s[CHOOSE i \in DOMAIN s : Cardinality({j \in DOMAIN s : Earlier(j, i)}) = k - 1]]

\* Frauds the good gate certifies come ShiftBoost times more.
Shifted(post) ==
  LET hidden == SelectSeq(post, LAMBDA r : r.fraud = 1 /\ r.good) IN
  ByTime(post \o FlattenSeq([i \in 1..ShiftBoost |-> hidden]))

Decision(r, allow, after) ==
  [dt |-> r.dt, cert_allow |-> allow, fraud |-> r.fraud, regressed |-> after]

DecisionLog(d, regime) ==
  LET post == SubSeq(d, TReg(d) + 1, Len(d))
      after == IF regime = "label_shift" THEN Shifted(post) ELSE post
  IN  ByTime([i \in 1..TReg(d) |-> Decision(d[i], d[i].good, FALSE)]
             \o [i \in DOMAIN after |->
                  Decision(after[i], IF regime = "underfit" THEN after[i].bad
                           ELSE after[i].good, TRUE)])

-----------------------------------------------------------------------------
(* The monitors on one log.                                                *)

\* Audits whose label has arrived at decision j.
Matured(l, d, j) ==
  Monitor(l, d, 1, 0)!Outcomes(SelectSeq(SubSeq(l, 1, j - 1), LAMBDA x : x.cert_allow
                                         /\ x.dt + d <= l[j].dt))

WarmDecisions(l, n, d) == {j \in DOMAIN l : Monitor(l, d, n, 0)!Full(Matured(l, d, j))}

Crossings(l, n, th, d) ==
  {j \in WarmDecisions(l, n, d) : Monitor(l, d, n, th)!Crossed(Matured(l, d, j))}

Exposed(l, from, to) == Monitor(l, 1, 1, 0)!total_cert_allowed_frauds(l, from, to)

\* The row of one grid point; indices count from 0, -1 is None.
Row(l, treg, tregDt, regime, n, th, d) ==
  LET crossings == Crossings(l, n, th, d)
      alarmed == crossings # {}
      at == Min(crossings) - 1
      all == Exposed(l, treg, Len(l))
      detected == alarmed /\ at >= treg /\ regime # "control"
  IN  [seed |-> seed + 1, regime |-> regime, point |-> <<n, th, d>>, alarmed |-> alarmed,
       detected |-> detected, at |-> IF alarmed THEN at ELSE -1,
       latency |-> IF detected THEN at - treg ELSE -1,
       wall |-> IF detected THEN l[at + 1].dt - tregDt ELSE -1,
       exposure |-> IF detected THEN Exposed(l, treg, at) ELSE all, noMonitor |-> all,
       falseAlarm |-> alarmed /\ (regime = "control" \/ at < treg),
       calibrated |-> alarmed /\ Min(WarmDecisions(l, n, d)) - 1 < treg]

-----------------------------------------------------------------------------
(* _summarize.                                                             *)

Sum(S, f(_)) == MapThenSumSet(f, S)

Cell(regime, point) == {r \in rows : r.regime = regime /\ r.point = point}

\* Detections of a regression, false alarms of the control, over the seeds.
Hits(regime, point) ==
  Cardinality({r \in Cell(regime, point) : IF regime = "control" THEN r.falseAlarm ELSE r.detected})

Exposure(regime, point) ==
  <<Sum(Cell(regime, point), LAMBDA r : r.exposure),
    Sum(Cell(regime, point), LAMBDA r : r.noMonitor)>>

\* Mutant: a detection on one seed is enough.
Detects_Some(regime, point) == Hits(regime, point) > 0

Detects(regime, point) == Hits(regime, point) = Cardinality(Cell(regime, point))

ControlClean(point) == Hits("control", point) = 0

StrongClean == {p \in Grid : ControlClean(p) /\ Detects("label_shift", p)}

GoodPoints == {p \in StrongClean : Detects("underfit", p)}

Verdict ==
  IF GoodPoints # {} THEN "validated" ELSE IF StrongClean # {} THEN "design sketch" ELSE "trade-off"

-----------------------------------------------------------------------------
Init == seed = 0 /\ pool = << >> /\ logs = << >> /\ rows = {} /\ payload = << >> /\ md = << >>

\* build_stream and the two gates.
StartSeed ==
  /\ seed < Seeds /\ Len(pool) = seed
  /\ \E s \in StreamsOf[seed + 1] : pool' = Append(pool, s)
  /\ UNCHANGED <<seed, logs, rows, payload, md>>

\* Every scenario's log, in turn, and the grid on it.
RunScenarios ==
  /\ Len(pool) = seed + 1
  /\ LET d == AfterBurnIn(pool[seed + 1]) IN
     /\ logs' = [regime \in Scenarios |-> DecisionLog(d, regime)]
     /\ rows' = rows
          \cup {Row(logs'[regime], TReg(d), d[TReg(d) + 1].dt, regime, p[1], p[2], p[3]) :
                           regime \in Scenarios, p \in Grid}
  /\ seed' = seed + 1
  /\ UNCHANGED <<pool, payload, md>>

WriteJson ==
  /\ seed = Seeds /\ payload = << >>
  /\ payload' = <<[verdict |-> Verdict, good |-> GoodPoints, strong |-> StrongClean,
                   exposure |-> [k \in Scenarios \X Grid |-> Exposure(k[1], k[2])]]>>
  /\ UNCHANGED <<seed, pool, logs, rows, md>>

WriteMd ==
  /\ payload # << >> /\ md = << >>
  /\ md' = <<[verdict |-> payload[1].verdict, good |-> payload[1].good,
              strong |-> payload[1].strong]>>
  /\ UNCHANGED <<seed, pool, logs, rows, payload>>

Next == StartSeed \/ RunScenarios \/ WriteJson \/ WriteMd

Spec == Init /\ [][Next]_vars

-----------------------------------------------------------------------------
(* Properties.                                                             *)

Reported == payload # << >>

RowOf(s, regime, p) == CHOOSE r \in rows : r.seed = s /\ r.regime = regime /\ r.point = p

\* The injection of a seed, as an index from 0 and as a time.
TRegOf(s) == TReg(AfterBurnIn(pool[s]))

TypeOK ==
  /\ seed \in 0..Seeds /\ Len(pool) \in {seed, seed + 1}
  /\ Cardinality(rows) = seed * Cardinality(Scenarios) * Cardinality(Grid)
  /\ Reported => payload[1].verdict \in {"validated", "design sketch", "trade-off"}

\* The scenarios differ after the injection alone: an alarm before it is raised in all
\* three, at the same decision.
AlarmsBeforeInjectionAgree ==
  \A r, q \in rows : r.seed = q.seed /\ r.point = q.point /\ r.at \in 0..(TRegOf(r.seed) - 1)
    => q.at = r.at

\* The log is in time order, what comes from the injection on is its tail, and what
\* comes before it is the same in every scenario.
RegressionIsTail ==
  seed > 0 =>
    \A regime \in Scenarios :
      LET l == logs[regime] IN
      \A i \in DOMAIN l : /\ l[i].regressed <=> i > TRegOf(seed)
                          /\ i > 1 => l[i - 1].dt <= l[i].dt
                          /\ i <= TRegOf(seed) => l[i] = logs["control"][i]

\* At a validated point no seed alarms without a regression, or before it, and every
\* seed detects both regressions.
ValidatedIsClean ==
  Reported =>
    \A p \in payload[1].good, s \in 1..Seeds :
      /\ ~RowOf(s, "control", p).alarmed
      /\ \A regime \in {"underfit", "label_shift"} : RowOf(s, regime, p).at >= TRegOf(s)

\* A larger threshold never lets the monitor alarm earlier, nor alone.
LaterWithThreshold ==
  \A r, q \in rows :
    /\ r.seed = q.seed /\ r.regime = q.regime /\ r.point[1] = q.point[1] /\ r.point[3] = q.point[3]
    /\ r.point[2] < q.point[2] /\ q.alarmed
    => r.alarmed /\ r.at <= q.at

\* The scenarios of a seed differ after the injection alone, and what the verdict
\* calls a good operating point is one on every seed.
AlarmsAreComparable ==
  /\ TypeOK /\ AlarmsBeforeInjectionAgree /\ RegressionIsTail /\ ValidatedIsClean
  /\ LaterWithThreshold
=============================================================================

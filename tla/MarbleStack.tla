---------------------------- MODULE MarbleStack -----------------------------
(***************************************************************************)
(* One authored rule, safe iff risk_score < theta(provenance), on three    *)
(* decision engines: OPA (ieee_cis_opa_cwitness.py), the GoRules ZEN       *)
(* decision table (zen_engine_cwitness.py) and the Marble score classifier *)
(* (marble_cwitness.py); the four-point solver that turns an engine's      *)
(* verdicts into a category; and the programs on top of them (prog):       *)
(*   stack   the Marble service as marble_cwitness.py sets it up and       *)
(*           marble_e2e.py then uses it, beside the two engines that run   *)
(*           in the script's own process;                                  *)
(*   budget  cx6_marble.py: eps is calibrated on one half of the records   *)
(*           as the 95th percentile of the drift that integrity and        *)
(*           freshness faults cause, and on the other half every fault     *)
(*           mechanism is run against the engine, whose verdicts are       *)
(*           remembered per provenance and rounded risk.  A verdict a      *)
(*           fault flips escapes if the drift is outside the calibrated    *)
(*           ball.                                                         *)
(*                                                                         *)
(* The setup is a sequence of HTTP calls and may be started again after    *)
(* any of them failed.  A call fails in two ways: an error answer, with no *)
(* effect on the service, or no answer, after the effect (the client's     *)
(* timeout); _http returns the first and raises on the second.  Every      *)
(* decision the service answers it also persists.  The service itself is   *)
(* external: what it does is taken from what the scripts rely on.  Of a    *)
(* record's numeric fields only risk_score is kept; the records carry the  *)
(* category ieee_cis_policy.py gave them.                                  *)
(***************************************************************************)
EXTENDS FiniteSets, FiniteSetsExt, Integers, Sequences, SequencesExt

CONSTANTS
  Theta,            \* theta_base, the strict threshold
  Delta,            \* what the loose tools add
  DataEps,          \* the budget the data set was categorised with, and EPS
  Chunk             \* cases per call of the OPA engine

CONSTANTS  \* stack
  Files,            \* contents the data file may have: sequences of records
  EpsChoices,       \* --eps of the solvers
  NC, NR,           \* --n-c and --n-r of the exploit run
  OracleMax,        \* worst cases submitted at most, 40 in the code
  Page,             \* decisions in a page of GET /v1/decisions
  MaxRuns,          \* bound: scripts started
  MaxFaults         \* bound: calls that fail

CONSTANTS  \* budget
  Cell,             \* risk values that round to one key of the memory
  CalDrifts,        \* drifts the calibration half may show: sequences
  Holdout,          \* the other half of the records
  Injects           \* mechanism -> results [tool swapped, change of the risk]

VARIABLE prog       \* "stack" or "budget"

VARIABLES  \* stack
  file,             \* the data file
  tables,           \* the service: whether the transactions table exists
  scenarios,        \* scenarios of SCENARIO_NAME, each with its live iteration or 0
  iterations,       \* each with scenario, patched, rules and committed
  decisions,        \* every decision answered, in order
  scenarioFile,     \* .scenario_id, or 0
  script,           \* the script that runs
  results,          \* last report of each kind, or empty
  runs, faults

VARIABLES  \* budget
  epsCal,           \* hundredths of a unit
  drifts,           \* what it was calibrated from
  mech, at,         \* the next mechanism and record
  memo,             \* verdict by <<provenance, key>>
  last,             \* what the last fault did, or empty
  row, rows,        \* counts of the current mechanism; finished rows
  phase             \* "calibrate", "holdout", "done", "written" or "raised"

LooseTools == {"payment_gateway_loose", "manual_screen_loose"}

SwapPairs ==
  [payment_gateway_loose |-> "identity_risk_strict",
   identity_risk_strict |-> "payment_gateway_loose",
   manual_screen_loose |-> "device_risk_strict", device_risk_strict |-> "manual_screen_loose"]

ProvenanceClass(tool) == IF tool \in LooseTools THEN "loose" ELSE "strict"

Other(class) == IF class = "loose" THEN "strict" ELSE "loose"

Provs == {"loose", "strict"}

ThetaAt(prov) == IF prov = "loose" THEN Theta + Delta ELSE Theta

-----------------------------------------------------------------------------
(* The category stored with a record.                                      *)

PolicySafe(tool, risk) == risk <= ThetaAt(ProvenanceClass(tool))

AnalyticCategory(tool, risk) ==
  LET swap == SwapPairs[tool] IN
  IF ~PolicySafe(tool, risk) THEN "U"
  ELSE IF ~PolicySafe(swap, risk) THEN "A"
  ELSE IF ~PolicySafe(tool, risk + DataEps) THEN "B"
  ELSE IF ~PolicySafe(swap, risk + DataEps) THEN "C"
  ELSE "R"

Stored(rec) == AnalyticCategory(rec.tool, rec.risk)

-----------------------------------------------------------------------------
(* The engines' verdicts.                                                  *)

OpaSafe(case) == case.risk < ThetaAt(ProvenanceClass(case.tool))

\* The table's first row that matches decides.
ZenRules ==
  <<[prov |-> "loose", below |-> <<ThetaAt("loose")>>, safe |-> TRUE],
    [prov |-> "loose", below |-> << >>, safe |-> FALSE],
    [prov |-> "strict", below |-> <<ThetaAt("strict")>>, safe |-> TRUE],
    [prov |-> "strict", below |-> << >>, safe |-> FALSE]>>

ZenSafe(prov, risk) ==
  LET hits == {i \in DOMAIN ZenRules :
                 ZenRules[i].prov = prov
                   /\ (ZenRules[i].below = << >> \/ risk < ZenRules[i].below[1])}
  IN  ZenRules[Min(hits)].safe

MarbleApproves(rules, prov, risk) == ~\E p \in rules : p = prov /\ risk >= ThetaAt(p)

-----------------------------------------------------------------------------
(* The four-point solver.                                                  *)

\* From the verdicts clean, swap only, eps only and joint.
Ladder(v) ==
  IF ~v[1] THEN "U" ELSE IF v[2] # v[1] THEN "A" ELSE IF v[3] # v[1] THEN "B"
    ELSE IF v[4] # v[1] THEN "C" ELSE "R"

\* The points of the classes, in the order in which ZEN and Marble are asked.
Probes(rec, eps) ==
  LET cls == ProvenanceClass(rec.tool) IN
  <<<<cls, rec.risk>>, <<Other(cls), rec.risk>>, <<cls, rec.risk + eps>>,
    <<Other(cls), rec.risk + eps>>>>

\* OPA's cases of all records in one list, evaluated chunk by chunk.
OpaCases(rec, eps) ==
  LET swap == SwapPairs[rec.tool] IN
  <<[tool |-> rec.tool, risk |-> rec.risk], [tool |-> swap, risk |-> rec.risk],
    [tool |-> rec.tool, risk |-> rec.risk + eps], [tool |-> swap, risk |-> rec.risk + eps]>>

EvalChunked(cases) ==
  LET chunks == [i \in 1..((Len(cases) + Chunk - 1) \div Chunk) |->
                   SubSeq(cases, (i - 1) * Chunk + 1, Min({i * Chunk, Len(cases)}))]
      verdicts(chunk) == [k \in DOMAIN chunk |-> OpaSafe(chunk[k])]
  IN  FlattenSeq([i \in DOMAIN chunks |-> verdicts(chunks[i])])

\* The verdicts of every record, by its span of the list.
OpaVerdicts(recs, eps) ==
  LET cases == FlattenSeq([i \in DOMAIN recs |-> OpaCases(recs[i], eps)])
      verdict == EvalChunked(cases)
  IN  [i \in DOMAIN recs |-> SubSeq(verdict, 4 * i - 3, 4 * i)]

ZenVerdicts(recs, eps) ==
  [i \in DOMAIN recs |-> [p \in 1..4 |-> ZenSafe(Probes(recs[i], eps)[p][1],
                                                 Probes(recs[i], eps)[p][2])]]

\* OPA is asked again for the trace; ZEN's and Marble's are their verdicts.
WitnessTrace(rec, eps) == LET c == OpaCases(rec, eps) IN [p \in 1..4 |-> OpaSafe(c[p])]

-----------------------------------------------------------------------------
(* What a script reports of its verdicts.                                  *)

CategoriesOf(verdicts) == << >> \o [i \in DOMAIN verdicts |-> Ladder(verdicts[i])]

In(cats, cat) == {i \in DOMAIN cats : cats[i] = cat}

FirstC(cats, recs) == LET c == In(cats, "C") IN {i \in c : Cardinality({j \in c : j < i}) < 5}

\* reads: the closing paragraph says that the engine reproduces the taxonomy.
Report(recs, eps, verdicts, trace(_)) ==
  LET cats == CategoriesOf(verdicts)
      ana == {i \in DOMAIN recs : Stored(recs[i]) = "C"}
      eng == In(cats, "C")
  IN  [eps |-> eps, cats |-> cats,
       agree |-> Cardinality({i \in DOMAIN recs : cats[i] = Stored(recs[i])}),
       jaccard |-> <<Cardinality(eng \cap ana), Max({1, Cardinality(eng \cup ana)})>>,
       witnesses |-> {<<i, trace(i)>> : i \in FirstC(cats, recs)},
       reads |-> TRUE]

OpaReport(recs, eps) ==
  Report(recs, eps, OpaVerdicts(recs, eps), LAMBDA i : WitnessTrace(recs[i], eps))

ZenReport(recs, eps) ==
  LET v == ZenVerdicts(recs, eps) IN Report(recs, eps, v, LAMBDA i : << >> \o v[i])

EngineAssumption == {Theta, Delta, DataEps, Chunk} \subseteq Nat \ {0}

-----------------------------------------------------------------------------
(* The Marble service and its scripts.                                     *)

service == <<tables, scenarios, iterations, decisions>>

Idle == [step |-> "idle"]

SetupSteps == {"token", "table", "newtable", "find", "create", "draft", "patch", "loose", "strict",
               "validate", "commit", "publish", "write"}

StackTypeOK ==
  /\ file \in Files
  /\ tables \in BOOLEAN
  /\ \A i \in DOMAIN scenarios : scenarios[i] \in 0..Len(iterations)
  /\ \A i \in DOMAIN iterations :
       /\ iterations[i].scenario \in DOMAIN scenarios
       /\ iterations[i].rules \subseteq Provs
       /\ {iterations[i].patched, iterations[i].committed} \subseteq BOOLEAN
  /\ \A i \in DOMAIN decisions :
       decisions[i].sid \in DOMAIN scenarios /\ decisions[i].approve \in BOOLEAN
  /\ scenarioFile \in 0..Len(scenarios)
  /\ script.step \in SetupSteps \cup {"idle", "probe", "submit"}
  /\ runs \in 0..MaxRuns /\ faults \in 0..MaxFaults

-----------------------------------------------------------------------------
(* One call.                                                               *)

Outcome == IF faults < MaxFaults THEN {"ok", "error", "lost"} ELSE {"ok"}

Count(o) == faults' = faults + (IF o = "ok" THEN 0 ELSE 1)

\* A write whose failure raises; the answer leads on to s.
Effect(o) == o # "error"

Then(o, s) == script' = IF o = "ok" THEN s ELSE Idle

At(step) == script.step = step

To(step) == [script EXCEPT !.step = step]

-----------------------------------------------------------------------------
(* Setup.                                                                  *)

\* A failed call of the token exchange leaves a key missing, or raises.
GetAdminToken ==
  /\ At("token")
  /\ \E o \in Outcome : Count(o) /\ Then(o, To("table"))
  /\ UNCHANGED <<file, service, scenarioFile, results, runs>>

\* An error answer reads as a data model without tables.
EnsureDataModel ==
  /\ At("table")
  /\ \E o \in Outcome :
       /\ Count(o)
       /\ script' = CASE o = "lost" -> Idle
                      [] o = "ok" /\ tables -> To("find")
                      [] OTHER -> To("newtable")
  /\ UNCHANGED <<file, service, scenarioFile, results, runs>>

\* The service refuses a second table of the name.
CreateTable ==
  /\ At("newtable")
  /\ \E o \in Outcome :
       /\ Count(o)
       /\ tables' = (tables \/ Effect(o))
       /\ script' = IF o = "ok" /\ ~tables THEN To("find") ELSE Idle
  /\ UNCHANGED <<file, scenarios, iterations, decisions, scenarioFile, results, runs>>

FindScenario ==
  /\ At("find")
  /\ \E o \in Outcome :
       /\ Count(o)
       /\ \/ o = "lost" /\ script' = Idle
          \/ (o = "error" \/ scenarios = << >>) /\ o # "lost" /\ script' = To("create")
          \/ /\ o = "ok" /\ scenarios # << >>
             /\ script' = [script EXCEPT !.step = IF scenarios[1] # 0 THEN "write" ELSE "draft",
                           !.sid = 1]
  /\ UNCHANGED <<file, service, scenarioFile, results, runs>>

CreateScenario ==
  /\ At("create")
  /\ \E o \in Outcome :
       /\ Count(o)
       /\ scenarios' = IF Effect(o) THEN Append(scenarios, 0) ELSE scenarios
       /\ Then(o, [script EXCEPT !.step = "draft", !.sid = Len(scenarios) + 1])
  /\ UNCHANGED <<file, tables, iterations, decisions, scenarioFile, results, runs>>

CreateIteration ==
  /\ At("draft")
  /\ \E o \in Outcome :
       /\ Count(o)
       /\ iterations' = IF Effect(o)
                        THEN Append(iterations, [scenario |-> script.sid, patched |-> FALSE,
                                                 rules |-> {}, committed |-> FALSE])
                        ELSE iterations
       /\ Then(o, [script EXCEPT !.step = "patch", !.iid = Len(iterations) + 1])
  /\ UNCHANGED <<file, tables, scenarios, decisions, scenarioFile, results, runs>>

AfterRule(o, step) == Then(o, To(step))

\* The draft is patched, gets a rule per provenance and is committed.
Author ==
  /\ script.step \in {"patch", "loose", "strict", "commit"}
  /\ \E o \in Outcome :
       /\ Count(o)
       /\ iterations' =
            IF ~Effect(o) THEN iterations
            ELSE [iterations EXCEPT ![script.iid] =
                    CASE At("patch") -> [@ EXCEPT !.patched = TRUE]
                      [] At("commit") -> [@ EXCEPT !.committed = TRUE]
                      [] OTHER -> [@ EXCEPT !.rules = @ \cup {script.step}]]
       /\ CASE At("patch") -> Then(o, To("loose"))
            [] At("loose") -> AfterRule(o, "strict")
            [] At("strict") -> AfterRule(o, "validate")
            [] OTHER -> Then(o, To("publish"))
  /\ UNCHANGED <<file, tables, scenarios, decisions, scenarioFile, results, runs>>

\* The answer of the validation is not looked at.
Validate ==
  /\ At("validate")
  /\ \E o \in Outcome : Count(o) /\ script' = IF o = "lost" THEN Idle ELSE To("commit")
  /\ UNCHANGED <<file, service, scenarioFile, results, runs>>

Publish ==
  /\ At("publish")
  /\ \E o \in Outcome :
       /\ Count(o)
       /\ scenarios' = IF Effect(o) THEN [scenarios EXCEPT ![script.sid] = script.iid]
            ELSE scenarios
       /\ Then(o, To("write"))
  /\ UNCHANGED <<file, tables, iterations, decisions, scenarioFile, results, runs>>

WriteScenarioId ==
  /\ At("write")
  /\ scenarioFile' = script.sid
  /\ script' = To("probe")
  /\ UNCHANGED <<file, service, results, runs, faults>>

-----------------------------------------------------------------------------
(* marble_cwitness: four decisions per record.                             *)

StartWitness(eps, skip) ==
  /\ At("idle") /\ runs < MaxRuns
  /\ runs' = runs + 1
  /\ script' = IF skip /\ scenarioFile # 0
               THEN [step |-> "probe", sid |-> scenarioFile, iid |-> 0, eps |-> eps,
                     verdicts |-> << >>]
               ELSE [step |-> "token", sid |-> 0, iid |-> 0, eps |-> eps, verdicts |-> << >>]
  /\ UNCHANGED <<file, service, scenarioFile, results, faults>>

Verdict(sid, prov, risk) == MarbleApproves(iterations[scenarios[sid]].rules, prov, risk)

Decided(by, points) ==
  << >> \o [k \in DOMAIN points |->
              [sid |-> script.sid, by |-> by, prov |-> points[k][1], risk |-> points[k][2],
               approve |-> Verdict(script.sid, points[k][1], points[k][2])]]

\* One record; a failing call ends the script with what is already persisted.
Probe ==
  /\ At("probe") /\ Len(script.verdicts) < Len(file)
  /\ LET rec == file[Len(script.verdicts) + 1]
         four == Decided("probe", Probes(rec, script.eps))
     IN  \/ /\ decisions' = decisions \o four
            /\ script'
                 = [script EXCEPT !.verdicts = Append(@, << >> \o [p \in 1..4 |-> four[p].approve])]
            /\ UNCHANGED faults
         \/ /\ faults < MaxFaults /\ faults' = faults + 1
            /\ \E j \in 0..4 : decisions' = decisions \o SubSeq(four, 1, j)
            /\ script' = Idle
  /\ UNCHANGED <<file, tables, scenarios, iterations, scenarioFile, results, runs>>

WriteWitness ==
  /\ At("probe") /\ Len(script.verdicts) = Len(file)
  /\ results' = [results EXCEPT !.marble =
       <<Report(file, script.eps, script.verdicts, LAMBDA i : script.verdicts[i])>>]
  /\ script' = Idle
  /\ UNCHANGED <<file, service, scenarioFile, runs, faults>>

\* The other two engines need no service.
RunOpa(eps) ==
  /\ At("idle") /\ runs < MaxRuns /\ runs' = runs + 1
  /\ results' = [results EXCEPT !.opa = <<OpaReport(file, eps)>>]
  /\ UNCHANGED <<file, service, scenarioFile, script, faults>>

RunZen(eps) ==
  /\ At("idle") /\ runs < MaxRuns /\ runs' = runs + 1
  /\ results' = [results EXCEPT !.zen = <<ZenReport(file, eps)>>]
  /\ UNCHANGED <<file, service, scenarioFile, script, faults>>

-----------------------------------------------------------------------------
(* marble_e2e: four arms of submissions, with the read-back after the      *)
(* first.                                                                  *)

\* Mutant: only the served provenance's threshold is tested.
CertifiedGateAllows_Served(prov, risk) == risk + DataEps < ThetaAt(prov)

CertifiedGateAllows(prov, risk) == \A p \in Provs : risk + DataEps < ThetaAt(p)

RealizedUnsafe(risk) == risk + DataEps >= Theta

Taken(cat, n) ==
  LET s == SelectSeq(file, LAMBDA r : Stored(r) = cat) IN SubSeq(s, 1, Min({n, Len(s)}))

Served(r) == ProvenanceClass(r.tool)

Allowed(s) == SelectSeq(s, LAMBDA r : CertifiedGateAllows(Served(r), r.risk))

EngineOnly == [k \in DOMAIN Taken("C", NC) |->
                 <<"engine_only", Served(Taken("C", NC)[k]), Taken("C", NC)[k].risk>>]

Submissions ==
  LET c == Taken("C", NC)
      r == Taken("R", NR)
      sub(arm, s) == [k \in DOMAIN s |-> <<arm, Served(s[k]), s[k].risk>>]
      worst == SubSeq(c, 1, Min({OracleMax, Len(c)}))
  IN  EngineOnly \o sub("certified_gate", Allowed(c))
        \o [k \in DOMAIN worst |-> <<"oracle", "strict", worst[k].risk + DataEps>>]
        \o sub("nonvacuity", Allowed(r))

\* Both files have to be there.
StartE2E ==
  /\ At("idle") /\ runs < MaxRuns /\ scenarioFile # 0
  /\ runs' = runs + 1
  /\ script' = [step |-> "submit", sid |-> scenarioFile, approvals |-> << >>, page |-> << >>]
  /\ UNCHANGED <<file, service, scenarioFile, results, faults>>

\* A failed read-back is None; it ends nothing.
DecisionsPresent ==
  /\ At("submit") /\ script.page = << >> /\ Len(script.approvals) = Len(EngineOnly)
  /\ \E o \in Outcome :
       /\ Count(o)
       /\ script' = [script EXCEPT !.page = <<IF o = "ok" THEN Min({Page, Len(decisions)})
                                              ELSE -1>>]
  /\ UNCHANGED <<file, service, scenarioFile, results, runs>>

Submit ==
  /\ At("submit") /\ Len(script.approvals) < Len(Submissions)
  /\ script.page # << >> \/ Len(script.approvals) < Len(EngineOnly)
  /\ LET s == Submissions[Len(script.approvals) + 1]
         d == Decided(s[1], <<<<s[2], s[3]>>>>)
     IN  \E o \in Outcome :
           /\ Count(o)
           /\ decisions' = IF Effect(o) THEN decisions \o d ELSE decisions
           /\ Then(o, [script EXCEPT !.approvals = Append(@, d[1].approve)])
  /\ UNCHANGED <<file, tables, scenarios, iterations, scenarioFile, results, runs>>

\* Submissions of an arm with this answer.
Answered(arm, answer) ==
  {k \in DOMAIN Submissions : Submissions[k][1] = arm /\ script.approvals[k] = answer}

Unsafe(ks) == Cardinality({k \in ks : RealizedUnsafe(Submissions[k][3])})

\* reads: the closing paragraph, with zero unsafe approvals behind the gate.
WriteE2E ==
  /\ At("submit") /\ script.page # << >> /\ Len(script.approvals) = Len(Submissions)
  /\ results' = [results EXCEPT !.e2e =
       <<[witnesses |-> Len(Taken("C", NC)),
          committed |-> Unsafe(Answered("engine_only", TRUE)),
          page |-> script.page[1],
          persists |-> script.page[1] > 0,
          submitted |-> Len(Allowed(Taken("C", NC))),
          gated |-> Unsafe(Answered("certified_gate", TRUE)),
          checked |-> Min({OracleMax, Len(Taken("C", NC))}),
          reviews |-> Cardinality(Answered("oracle", FALSE)),
          allowedR |-> Len(Allowed(Taken("R", NR))),
          approvedR |-> Cardinality(Answered("nonvacuity", TRUE)),
          reads |-> TRUE]>>]
  /\ script' = Idle
  /\ UNCHANGED <<file, service, scenarioFile, runs, faults>>

-----------------------------------------------------------------------------
StackInit ==
  /\ file \in Files
  /\ tables = FALSE /\ scenarios = << >> /\ iterations = << >> /\ decisions = << >>
  /\ scenarioFile = 0
  /\ script = Idle
  /\ results = [opa |-> << >>, zen |-> << >>, marble |-> << >>, e2e |-> << >>]
  /\ runs = 0 /\ faults = 0

StackNext ==
  \/ \E eps \in EpsChoices, skip \in BOOLEAN : StartWitness(eps, skip)
  \/ \E eps \in EpsChoices : RunOpa(eps) \/ RunZen(eps)
  \/ GetAdminToken \/ EnsureDataModel \/ CreateTable \/ FindScenario \/ CreateScenario
  \/ CreateIteration \/ Author \/ Validate \/ Publish \/ WriteScenarioId
  \/ Probe \/ WriteWitness
  \/ StartE2E \/ DecisionsPresent \/ Submit \/ WriteE2E

Reports == {results[e][1] : e \in {x \in {"opa", "zen", "marble"} : results[x] # << >>}}

\* However the setup was cut off and started again, a scenario goes live
\* only with the thresholds patched, a rule for either provenance and the
\* iteration committed: a live scenario decides as the authored rule does.
LiveScenarioComplete ==
  \A i \in DOMAIN scenarios : scenarios[i] # 0 =>
    LET it == iterations[scenarios[i]] IN
      it.scenario = i /\ it.patched /\ it.committed /\ it.rules = Provs

\* The scenario the later scripts take from .scenario_id is one that is
\* live, whichever call of the setup failed before.
NamedScenarioIsLive == scenarioFile # 0 => scenarios[scenarioFile] # 0

\* Three engines with the rule in three forms (a guard, a first-hit table, a
\* score above a threshold), asked in batches or one by one, put every
\* record in the same category.
EnginesAgree == \A r, s \in Reports : r.eps = s.eps => r.cats = s.cats

\* Engine and data set differ on a record only where one of the four points
\* is exactly on a threshold, or the budgets differ.
DisagreeOnlyAtThreshold ==
  \A r \in Reports : \A i \in DOMAIN file :
    r.cats[i] # Stored(file[i]) =>
      \/ r.eps # DataEps
      \/ \E p \in 1..4 : Probes(file[i], r.eps)[p][2] \in {ThetaAt(q) : q \in Provs}

\* A reported witness is safe at its own point and after either move alone
\* and unsafe after both, also where the engine was asked again for it.
WitnessesAreJoint == \A r \in Reports : \A w \in r.witnesses : w[2] = <<TRUE, TRUE, TRUE, FALSE>>

\* A record the certified gate lets through is approved by the published
\* scenario wherever in the ball the true record lies.
GateAllowsWhatEngineApproves ==
  \A sid \in DOMAIN scenarios : scenarios[sid] # 0 =>
    \A i \in DOMAIN file : CertifiedGateAllows(Served(file[i]), file[i].risk) =>
      \A p \in Provs, x \in 0..DataEps : Verdict(sid, p, file[i].risk + x)

\* What the service holds of the gated arm is no approval of a record whose
\* worst case is unsafe, while the ungated arm has committed one for every
\* witness it was given.
GateCommitsNothingUnsafe ==
  /\ \A k \in DOMAIN decisions :
       ~(decisions[k].by \in {"certified_gate", "nonvacuity"} /\ RealizedUnsafe(decisions[k].risk))
  /\ \A r \in ToSet(results.e2e) :
       r.committed = r.witnesses /\ r.gated = 0 /\ r.reviews = r.checked /\ r.approvedR = r.allowedR

-----------------------------------------------------------------------------
(* cx6_marble.py.                                                          *)

IntegrityFreshness ==
  <<"wrong_provenance_binding", "stale_cache", "numeric_jitter", "normalization_skew">>

OutOfBudgetTail == <<"schema_skew", "cache_key_collision">>

Mechanisms == IntegrityFreshness \o OutOfBudgetTail

-----------------------------------------------------------------------------
(* numpy's quantile of the positive drifts: linear between two ranks.      *)

Positive(s) == SelectSeq(s, LAMBDA e : e > 0)

Sorted(s) == SortSeq(s, <)

Quantile95(s) ==
  LET a == Sorted(s)
      pos == 95 * (Len(a) - 1)
      lo == pos \div 100
  IN  100 * a[lo + 1] + (IF lo + 2 <= Len(a) THEN (pos % 100) * (a[lo + 2] - a[lo + 1]) ELSE 0)

CalibrateEps ==
  /\ phase = "calibrate"
  /\ \E s \in CalDrifts :
       /\ drifts' = Positive(s)
       /\ epsCal' = IF Positive(s) = << >> THEN 0 ELSE Quantile95(Positive(s))
  /\ phase' = "holdout"
  /\ UNCHANGED <<mech, at, memo, last, row, rows>>

-----------------------------------------------------------------------------
(* The remembered engine.                                                  *)

EngineSafe(prov, risk) == MarbleApproves(Provs, prov, risk)

Key(prov, risk) == <<prov, (risk + Cell \div 2) \div Cell>>

\* The memory after a question: the first risk of a key answers for all.
Asked(m, prov, risk) ==
  IF Key(prov, risk) \in DOMAIN m THEN m
  ELSE [k \in DOMAIN m \cup {Key(prov, risk)} |-> IF k \in DOMAIN m THEN m[k]
        ELSE EngineSafe(prov, risk)]

MarbleDrift(rec, z) ==
  [d |-> IF ProvenanceClass(rec.tool) # ProvenanceClass(z.tool) THEN 1 ELSE 0,
   eps |-> IF rec.risk > z.risk THEN rec.risk - z.risk ELSE z.risk - rec.risk]

InBudget(drift) == drift.d <= 1 /\ 100 * drift.eps <= epsCal

NoRow == [applied |-> 0, flips |-> 0, covered |-> 0, escaped |-> 0]

-----------------------------------------------------------------------------
(* One record under one mechanism.                                         *)

Faulted(rec, f) ==
  [tool |-> IF f.swap THEN SwapPairs[rec.tool] ELSE rec.tool, risk |-> rec.risk + f.change]

Inject ==
  /\ phase = "holdout" /\ at <= Len(Holdout)
  /\ at' = at + 1
  /\ \/ UNCHANGED <<memo, last, row>>       \* the injector does not apply
     \/ \E f \in Injects[Mechanisms[mech]] :
          LET rec == Holdout[at]
              z == Faulted(rec, f)
              p == ProvenanceClass(rec.tool)
              q == ProvenanceClass(z.tool)
              m == Asked(Asked(memo, p, rec.risk), q, z.risk)
              clean == m[Key(p, rec.risk)]
              fault == m[Key(q, z.risk)]
              flip == clean # fault
              in == InBudget(MarbleDrift(rec, z))
          IN  /\ memo' = m
              /\ last' = <<[rec |-> rec, z |-> z, clean |-> clean, fault |-> fault,
                            covered |-> flip /\ in]>>
              /\ row' = [applied |-> row.applied + 1,
                         flips |-> row.flips + (IF flip THEN 1 ELSE 0),
                         covered |-> row.covered + (IF flip /\ in THEN 1 ELSE 0),
                         escaped |-> row.escaped + (IF flip /\ ~in THEN 1 ELSE 0)]
  /\ UNCHANGED <<epsCal, drifts, mech, rows, phase>>

FinishMechanism ==
  /\ phase = "holdout" /\ at > Len(Holdout)
  /\ IF row.applied = 0
     THEN phase' = "raised" /\ UNCHANGED <<mech, at, row, rows>>
     ELSE /\ rows' = Append(rows, row)
          /\ row' = NoRow /\ mech' = mech + 1 /\ at' = 1
          /\ phase' = IF mech = Len(Mechanisms) THEN "done" ELSE "holdout"
  /\ last' = << >>
  /\ UNCHANGED <<epsCal, drifts, memo>>

\* The report, with its closing paragraph.
WriteReport ==
  /\ phase = "done"
  /\ phase' = "written"
  /\ UNCHANGED <<epsCal, drifts, mech, at, memo, last, row, rows>>

BudgetInit ==
  /\ epsCal = 0 /\ drifts = << >>
  /\ mech = 1 /\ at = 1
  /\ memo = << >> /\ last = << >>
  /\ row = NoRow /\ rows = << >>
  /\ phase = "calibrate"

BudgetNext == CalibrateEps \/ Inject \/ FinishMechanism \/ WriteReport

BudgetTypeOK ==
  /\ epsCal \in Nat
  /\ mech \in 1..(Len(Mechanisms) + 1) /\ at \in 1..(Len(Holdout) + 1)
  /\ \A k \in DOMAIN memo : memo[k] \in BOOLEAN
  /\ \A r \in ToSet(rows) : r.applied > 0 /\ r.covered + r.escaped = r.flips /\ r.flips <= r.applied
  /\ phase \in {"done", "written"} => Len(rows) = Len(Mechanisms)
  /\ phase \in {"calibrate", "holdout", "done", "written", "raised"}

\* The calibrated budget leaves one drift in twenty outside, and with few
\* drifts never more than the largest.
CalibratedShare ==
  drifts # << >> =>
    LET above == Cardinality({i \in DOMAIN drifts : 100 * drifts[i] > epsCal}) IN
      20 * (above - 1) < Len(drifts)

\* A remembered verdict is the engine's unless the threshold of the asked
\* provenance lies within the cell the risk rounds to.
MemoWrongOnlyAroundTheta ==
  \A r \in ToSet(last) : \A pt \in {<<r.rec, r.clean>>, <<r.z, r.fault>>} :
    LET p == ProvenanceClass(pt[1].tool) IN
      pt[2] # EngineSafe(p, pt[1].risk) => pt[1].risk - ThetaAt(p) \in -Cell..Cell

\* What the report counts as covered the certified gate does refuse: around
\* the faulted record some point within the calibrated budget is unsafe.
\* A budget below a cell cannot hold what rounding does.
CoveredFlipsAreRefused ==
  \A r \in ToSet(last) : r.covered /\ epsCal >= 100 * Cell =>
    \E p \in Provs : 100 * r.z.risk + epsCal >= 100 * ThetaAt(p)

-----------------------------------------------------------------------------
(* The two programs.                                                       *)

stackOnly == <<file, service, scenarioFile, script, results, runs, faults>>
budgetOnly == <<epsCal, drifts, mech, at, memo, last, row, rows, phase>>
vars == <<prog, stackOnly, budgetOnly>>

NoStack ==
  /\ file = << >> /\ tables = FALSE /\ scenarios = << >> /\ iterations = << >> /\ decisions = << >>
  /\ scenarioFile = 0 /\ script = Idle /\ results = << >> /\ runs = 0 /\ faults = 0

NoBudget ==
  /\ epsCal = 0 /\ drifts = << >> /\ mech = 0 /\ at = 0 /\ memo = << >> /\ last = << >>
  /\ row = NoRow /\ rows = << >> /\ phase = "idle"

Init ==
  \/ prog = "stack" /\ StackInit /\ NoBudget
  \/ prog = "budget" /\ BudgetInit /\ NoStack

Next ==
  \/ prog = "stack" /\ StackNext /\ UNCHANGED <<prog, budgetOnly>>
  \/ prog = "budget" /\ BudgetNext /\ UNCHANGED <<prog, stackOnly>>

Spec == Init /\ [][Next]_vars

\* Whatever call of the setup failed, what is live is the authored rule, the three
\* engines categorise alike, and what passes the certified gate or is counted as
\* covered by the budget is safe to commit on the engine itself.
EngineRealisesTheRule ==
  /\ prog = "stack" => /\ StackTypeOK /\ LiveScenarioComplete /\ NamedScenarioIsLive
                       /\ EnginesAgree /\ DisagreeOnlyAtThreshold /\ WitnessesAreJoint
                       /\ GateAllowsWhatEngineApproves /\ GateCommitsNothingUnsafe
  /\ prog = "budget" => /\ BudgetTypeOK /\ CalibratedShare /\ MemoWrongOnlyAroundTheta
                        /\ CoveredFlipsAreRefused
=============================================================================

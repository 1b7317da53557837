------------------------------ MODULE Fragment ------------------------------
(***************************************************************************)
(* cert/fragment.py and experiments/cx3_differential.py: the verified      *)
(* affine policy fragment.  A policy is, in each branch of one categorical *)
(* key, a conjunction of constraints w . x <= b; a return is robustly safe *)
(* when the support function of the eps ball satisfies every constraint of *)
(* every reachable branch.  Two programs use it (prog):                    *)
(*   use      a caller parses a specification, compiles it and asks the    *)
(*            three evaluators about one return at a time;                 *)
(*   battery  generated policies and returns are judged against four       *)
(*            oracles, marked policies must be refused, and the files of   *)
(*            the run are written.                                         *)
(*                                                                         *)
(* Numbers are grid units and weight vectors have integer norms, so a      *)
(* direction eps * w / ||w|| is a grid vector.  A constraint may carry a   *)
(* bound that is not a number (nan), with which every comparison is false. *)
(* What a generator draws is any member of a small set.                    *)
(***************************************************************************)
EXTENDS FiniteSets, Functions, Integers, Sequences

CONSTANTS
  Points,       \* numeric points, by the number of fields
  Eps, D,       \* the ball and the categorical budget
  Specs,        \* use: the specifications a caller may hand in
  Strangers,    \* use: categorical values that no specification lists
  Ball,         \* use: offsets of the grid points of the eps ball, by fields
  Policies,     \* battery: parsed policies the generator may draw
  Draws,        \* battery: offsets of points of the ball that may be drawn, by fields
  NPolicies, NReturns, NOof,
  NOpa,         \* n_opa_returns, returns of each policy sent to the engine
  NBall,        \* n_ball > 0
  GridSteps     \* points of the dense grid on an axis

VARIABLES
  prog,         \* "use" or "battery"
  parsed        \* the parsed policy, Unsupported before

VARIABLES  \* use
  handed,       \* the specification
  rego,         \* "unset", "loaded" or "rejected" by the engine
  asked,        \* the return and budget of the last question, or empty
  answer        \* what the evaluators said

VARIABLES  \* battery
  pid, judged,  \* position of the policy under test; returns of it that were judged
  latest,       \* the last return and the verdicts on it, or empty
  count,        \* its mismatches so far
  perPolicy,    \* the rows of the finished policies
  oof, refused, \* marked policies tried and refused
  pc,           \* "policy", "returns", "marked", "summary" or "died"
  json,         \* accept in the JSON file, or empty
  summary,      \* rows of differential_summary.csv, -1 for no file
  tmpRego       \* whether _tmp_policy.rego is there

Markers == {"numeric_disjunction", "nonlinear", "division", "regex", "unbounded_categorical"}

NoKey == ""

Dot(w, x) == FoldFunction(+, 0, [i \in DOMAIN w |-> w[i] * x[i]])

Wnorm(w) == CHOOSE n \in 0..100 : n * n = Dot(w, w)

-----------------------------------------------------------------------------
(* parse_policy.  A specification is the structured object the caller      *)
(* hands in; a part that is missing or of another type is empty.  The      *)
(* weights of a constraint are a list w, or a map, the set of its pairs    *)
(* <<field, weight>>.  A categorical value has a text and a JSON type.     *)

Unsupported == [ok |-> FALSE]

Entry(map, f) == IF \E p \in map : p[1] = f THEN (CHOOSE p \in map : p[1] = f)[2] ELSE 0

Weights(c, fields) ==
  IF c.form = "map" THEN [i \in DOMAIN fields |-> Entry(c.map, fields[i])] ELSE c.w

ConstraintOk(c, fields) == c.form = "map" \/ (c.form = "list" /\ Len(c.w) = Len(fields))

BranchOk(branch, fields) == \A j \in DOMAIN branch : ConstraintOk(branch[j], fields)

InFragment(spec) ==
  /\ spec.marked \cap Markers = {}
  /\ spec.fields # << >>
  /\ spec.key # NoKey
  /\ spec.values # {}
  /\ \A v \in spec.values : v \in DOMAIN spec.branches /\ BranchOk(spec.branches[v], spec.fields)

Constraint(c, fields) == [w |-> Weights(c, fields), b |-> c.b, nan |-> c.nan]

ParsePolicy(spec) ==
  IF ~InFragment(spec) THEN Unsupported
  ELSE [ok |-> TRUE, fields |-> spec.fields, values |-> spec.values,
        branches |-> [v \in spec.values |->
                        [j \in DOMAIN spec.branches[v] |-> Constraint(spec.branches[v][j],
                                                                      spec.fields)]]]

-----------------------------------------------------------------------------
(* The decisions over a parsed policy.                                     *)

Branch(policy, s) == IF s \in policy.values THEN policy.branches[s] ELSE << >>

\* discrete_neighbors: the value asked about is always among them for d >= 1.
Neighbors(policy, s, d) == IF d <= 0 THEN {s} \cap policy.values ELSE {s} \cup policy.values

Violated(c, x) == ~c.nan /\ Dot(c.w, x) > c.b

PointSafe(policy, s, x) == \A j \in DOMAIN Branch(policy, s) : ~Violated(Branch(policy, s)[j], x)

Slack(c, x, eps) == c.b - (Dot(c.w, x) + eps * Wnorm(c.w))

\* A slack that is not a number never becomes the worst one.
Slacks(policy, s, x, eps, d) ==
  UNION {{Slack(c, x, eps) : c \in {k \in Range(Branch(policy, t)) : ~k.nan}} :
         t \in Neighbors(policy, s, d)}

\* Mutant: a tie is refused.
RobustEval_Strict(policy, s, x, eps, d) == \A v \in Slacks(policy, s, x, eps, d) : v > 0

RobustEval(policy, s, x, eps, d) == \A v \in Slacks(policy, s, x, eps, d) : v >= 0

-----------------------------------------------------------------------------
(* compile_to_rego: a table of the branches under the texts of their       *)
(* values, and the decision the engine takes on a case.                    *)

\* A bound that is not a number is printed as a name the engine does not know.
RegoLoads(policy) ==
  \A v \in policy.values : \A j \in DOMAIN policy.branches[v] : ~policy.branches[v][j].nan

\* A key that is not a string is not found in a table of strings.
RegoSafe(policy, case) == case.s.type = "string" => PointSafe(policy, case.s, case.x)

-----------------------------------------------------------------------------
(* The functions as a caller uses them.                                    *)

UseInit ==
  /\ handed \in Specs
  /\ parsed = Unsupported /\ rego = "unset" /\ asked = << >> /\ answer = << >>

Parse ==
  /\ rego = "unset" /\ ~parsed.ok /\ InFragment(handed)
  /\ parsed' = ParsePolicy(handed)
  /\ UNCHANGED <<handed, rego, asked, answer>>

Compile ==
  /\ parsed.ok /\ rego = "unset"
  /\ rego' = IF RegoLoads(parsed) THEN "loaded" ELSE "rejected"
  /\ UNCHANGED <<handed, parsed, asked, answer>>

Ask ==
  /\ rego # "unset"
  /\ \E s \in parsed.values \cup Strangers, x \in Points[Len(parsed.fields)], d \in {0, 1} :
       /\ asked' = [s |-> s, x |-> x, d |-> d]
       /\ answer' = [robust |-> RobustEval(parsed, s, x, Eps, d),
                     point |-> PointSafe(parsed, s, x),
                     rego |-> IF rego = "loaded" THEN RegoSafe(parsed, [s |-> s, x |-> x])
                       ELSE FALSE]
  /\ UNCHANGED <<handed, parsed, rego>>

UseNext == Parse \/ Compile \/ Ask

Shifted(x, o) == [i \in DOMAIN x |-> x[i] + o[i]]

\* What is accepted can be evaluated: every branch is there and every vector
\* of weights has one entry for each field.
UseTypeOK ==
  /\ rego \in {"unset", "loaded", "rejected"}
  /\ parsed.ok => \A v \in parsed.values : \A j \in DOMAIN parsed.branches[v] :
                    DOMAIN parsed.branches[v][j].w = DOMAIN parsed.fields

\* The support-function test is the question about the ball: allowed exactly
\* when no point of the ball is unsafe in a branch within the budget.
RobustEvalIsTheBall ==
  answer # << >> =>
    (answer.robust <=> \A s \in Neighbors(parsed, asked.s, asked.d) :
     \A o \in Ball[Len(parsed.fields)] :
                         PointSafe(parsed, s, Shifted(asked.x, o)))

\* A robust answer is not weaker than the decision at the return itself, nor
\* than the engine's, where the engine knows the key.
RobustImpliesPoint ==
  (answer # << >> /\ answer.robust /\ asked.s \in parsed.values) =>
    answer.point /\ (rego = "loaded" /\ asked.s.type = "string" => answer.rego)

-----------------------------------------------------------------------------
(* The differential battery.                                               *)

Kinds == <<"numeric_disjunction", "nonlinear", "division", "regex", "unbounded_categorical">>

Tally ==
  [solver |-> 0, opa |-> 0, nOpa |-> 0, gridHard |-> 0, gridMissed |-> 0, sampleHard |-> 0,
   sampleMissed |-> 0]

-----------------------------------------------------------------------------
(* The oracles.                                                            *)

CageAllow(r) == RobustEval(parsed, r.s, r.x, Eps, D)

\* x + eps * w / ||w||, or x itself where the constraint does not depend on it.
WorstPoint(c, x) ==
  [j \in DOMAIN x |-> x[j] + (IF Wnorm(c.w) = 0 THEN 0 ELSE (Eps * c.w[j]) \div Wnorm(c.w))]

\* The centre and the worst points of a branch are asked under that branch.
BranchCases(s, r) ==
  {[s |-> s, x |-> r.x]} \cup {[s |-> s, x |-> WorstPoint(c, r.x)] : c \in Range(Branch(parsed, s))}

\* The constraint the adversarial samples step towards; the first of equals.
MostViolated(r) ==
  LET cs ==
        {c \in UNION {Range(Branch(parsed, s)) : s \in Neighbors(parsed, r.s, D)} : Wnorm(c.w) > 0}
  IN  {c \in cs : \A k \in cs : Slack(c, r.x, Eps) <= Slack(k, r.x, Eps)}

Samples(r, drawn) == drawn \cup {WorstPoint(c, r.x) : c \in MostViolated(r)}

OpaProbeCases(r, drawn) ==
  UNION {BranchCases(s, r) \cup {[s |-> s, x |-> p] : p \in Samples(r, drawn)} :
         s \in Neighbors(parsed, r.s, D)}

OpaRobust(r, drawn) == \A q \in OpaProbeCases(r, drawn) : RegoSafe(parsed, q)

SolverRobust(r) ==
  \A s \in Neighbors(parsed, r.s, D) : \A c \in Range(Branch(parsed, s)) :
    Dot(c.w, r.x) + Eps * Wnorm(c.w) <= c.b

SafeAt(r, points) == \A s \in Neighbors(parsed, r.s, D) : \A p \in points : PointSafe(parsed, s, p)

SamplingRobust(r, drawn) == SafeAt(r, {r.x} \cup drawn)

\* _lin
Lin(steps) ==
  IF steps <= 1 THEN {-Eps, Eps}
    ELSE {-Eps + ((2 * Eps * n) \div (steps - 1)) : n \in 0..(steps - 1)}

GridOffsets(k) ==
  IF k = 1 THEN {<<t>> : t \in Lin(GridSteps)}
  ELSE {o \in Lin(GridSteps) \X Lin(GridSteps) : o[1] * o[1] + o[2] * o[2] <= Eps * Eps}

\* Points with more than two fields have no grid.
GridRobust(r) == SafeAt(r, {Shifted(r.x, o) : o \in GridOffsets(Len(r.x))})

-----------------------------------------------------------------------------
(* The run.                                                                *)

BatteryInit ==
  /\ pid = 0 /\ parsed = Unsupported /\ judged = 0 /\ latest = << >> /\ count = Tally
       /\ perPolicy = << >>
  /\ oof = 0 /\ refused = 0 /\ pc = "policy" /\ json = << >> /\ summary = -1 /\ tmpRego = FALSE

files == <<json, summary, tmpRego>>

\* gen_fragment_policy, parse_policy, compile_to_rego
Generate ==
  /\ pc = "policy" /\ pid < NPolicies
  /\ parsed' \in Policies
  /\ tmpRego' = TRUE
  /\ pid' = pid + 1 /\ judged' = 0 /\ count' = Tally /\ pc' = "returns"
  /\ UNCHANGED <<latest, perPolicy, oof, refused, json, summary>>

One(b) == IF b THEN 1 ELSE 0

Count(v) ==
  [solver |-> count.solver + One(v.cage # v.solver),
   opa |-> count.opa + One(v.asked /\ v.cage # v.opa),
   nOpa |-> count.nOpa + One(v.asked),
   gridHard |-> count.gridHard + One(v.cage /\ ~v.grid),
   gridMissed |-> count.gridMissed + One(~v.cage /\ v.grid),
   sampleHard |-> count.sampleHard + One(v.cage /\ ~v.sampling),
   sampleMissed |-> count.sampleMissed + One(~v.cage /\ v.sampling)]

\* gen_returns and one entry of each oracle's list.
Judge ==
  /\ pc = "returns" /\ judged < NReturns
  /\ \E s \in parsed.values, x \in Points[Len(parsed.fields)],
        o \in Draws[Len(parsed.fields)], e \in Draws[Len(parsed.fields)] :
       LET r == [s |-> s, x |-> x]
           ball == IF NBall THEN {Shifted(x, e)} ELSE {}
           v ==
             [cage |-> CageAllow(r), solver |-> SolverRobust(r),
              sampling |-> SamplingRobust(r, {Shifted(x, o)}),
                 grid |-> GridRobust(r), asked |-> judged < NOpa, opa |-> OpaRobust(r, ball)]
       IN  latest' = [r |-> r, v |-> v] /\ count' = Count(v)
  /\ judged' = judged + 1
  /\ UNCHANGED <<pid, parsed, perPolicy, oof, refused, pc, files>>

\* Nothing of a run whose engine fails is written; its policy file stays.
EngineFails ==
  /\ pc = "returns" /\ judged = NReturns /\ NOpa > 0
  /\ pc' = "died"
  /\ UNCHANGED <<pid, parsed, judged, latest, count, perPolicy, oof, refused, files>>

FinishPolicy ==
  /\ pc = "returns" /\ judged = NReturns
  /\ perPolicy' = Append(perPolicy, count)
  /\ latest' = << >>
  /\ pc' = IF pid = NPolicies THEN "marked" ELSE "policy"
  /\ UNCHANGED <<pid, parsed, judged, count, oof, refused, files>>

Kind(n) == Kinds[(n % 5) + 1]

\* gen_out_of_fragment: the unbounded key has no values, the others a marker.
OutOfFragment(n) ==
  [marked |-> IF Kind(n) = "unbounded_categorical" THEN {} ELSE {Kind(n)},
   fields |-> <<"x0", "x1">>, key |-> "s",
   values |-> IF Kind(n) = "unbounded_categorical" THEN {} ELSE {"s0", "s1"},
   branches |-> [s \in {"s0", "s1"} |-> << >>]]

Refuse ==
  /\ pc = "marked" /\ oof < NOof
  /\ oof' = oof + 1
  /\ refused' = refused + One(~InFragment(OutOfFragment(oof)))
  /\ UNCHANGED <<pid, parsed, judged, latest, count, perPolicy, pc, files>>

GateMismatches(row) == row.solver + row.opa + row.gridHard + row.sampleHard

TotalMismatch == FoldFunction(+, 0, [n \in DOMAIN perPolicy |-> GateMismatches(perPolicy[n])])

WriteJson ==
  /\ pc = "marked" /\ oof = NOof
  /\ json' = <<[accept |-> TotalMismatch = 0 /\ refused = NOof]>>
  /\ pc' = "summary"
  /\ UNCHANGED <<pid, parsed, judged, latest, count, perPolicy, oof, refused, summary, tmpRego>>

\* _write_summary: the header is written; the first row asks for a key that
\* no row has.  The markdown and the removal of the policy file come after.
WriteSummary ==
  /\ pc = "summary"
  /\ summary' = 0
  /\ pc' = "died"
  /\ UNCHANGED <<pid, parsed, judged, latest, count, perPolicy, oof, refused, json, tmpRego>>

BatteryNext ==
  Generate \/ Judge \/ EngineFails \/ FinishPolicy \/ Refuse \/ WriteJson \/ WriteSummary

BatteryTypeOK ==
  /\ pid \in 0..NPolicies /\ judged \in 0..NReturns /\ oof \in 0..NOof /\ refused \in 0..oof
  /\ pc \in {"policy", "returns", "marked", "summary", "died"}
  /\ DOMAIN count = DOMAIN Tally /\ \A k \in DOMAIN count : count[k] \in 0..judged
  /\ \A n \in DOMAIN perPolicy : perPolicy[n].nOpa <= NReturns
  /\ summary \in {-1, 0} /\ tmpRego \in BOOLEAN

\* "Agreement is expected to be EXACT": the engine at the worst points answers
\* as the support function does, with or without any sample.
EngineAgreesExactly == latest # << >> => latest.v.opa = latest.v.cage

\* "Can only find violations robust_eval MISSED": a finite oracle never refuses
\* what was allowed, and never allows less than the engine at the worst points.
FiniteOraclesOnlyMiss ==
  latest # << >> => /\ latest.v.cage => latest.v.grid /\ latest.v.sampling
                    /\ latest.v.opa => latest.v.grid /\ latest.v.sampling

\* "EXPECTED discretization and EXCLUDED from the accept gate": whatever was
\* drawn, a run that gets as far as its JSON accepts, every marked policy refused.
BatteryAccepts == json # << >> => json[1].accept

-----------------------------------------------------------------------------
(* The two programs.                                                       *)

useOnly == <<handed, rego, asked, answer>>
batteryOnly == <<pid, judged, latest, count, perPolicy, oof, refused, pc, files>>
vars == <<prog, parsed, useOnly, batteryOnly>>

NoUse == handed = << >> /\ rego = "unset" /\ asked = << >> /\ answer = << >>

NoBattery ==
  /\ pid = 0 /\ judged = 0 /\ latest = << >> /\ count = Tally /\ perPolicy = << >>
  /\ oof = 0 /\ refused = 0 /\ pc = "idle" /\ json = << >> /\ summary = -1 /\ tmpRego = FALSE

Init ==
  \/ prog = "use" /\ UseInit /\ NoBattery
  \/ prog = "battery" /\ BatteryInit /\ NoUse

Next ==
  \/ prog = "use" /\ UseNext /\ UNCHANGED <<prog, batteryOnly>>
  \/ prog = "battery" /\ BatteryNext /\ UNCHANGED <<prog, useOnly>>

Spec == Init /\ [][Next]_vars

\* The closed form is exact: it answers the question about the whole ball, the
\* engine at the worst points agrees with it, and a sampled or gridded oracle can
\* only miss, so that a battery that reaches its JSON accepts.
FragmentExact ==
  /\ prog = "use" => UseTypeOK /\ RobustEvalIsTheBall /\ RobustImpliesPoint
  /\ prog = "battery" => /\ BatteryTypeOK /\ EngineAgreesExactly /\ FiniteOraclesOnlyMiss
                         /\ BatteryAccepts
=============================================================================

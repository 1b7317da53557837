---------------------------- MODULE FaultStudies ----------------------------
(***************************************************************************)
(* experiments/fault_injection.py, exp_fault_injection.py,                 *)
(* compound_fault_injection.py and discrete_escape.py: typed records, the  *)
(* eight adapter faults, and the three programs that inject them (prog):   *)
(*   stacks  the faults alone or stacked in one window, the rows the study *)
(*           keeps and the verdict it draws from them;                     *)
(*   escape  one mechanism is held out and the faults that land outside    *)
(*           what the others declare are counted; then the price of        *)
(*           declaring K more branches;                                    *)
(*   budget  every fault on its own into up to Samples records, then a     *)
(*           pool of faults drawn by frequency, then the report.           *)
(*                                                                         *)
(* An injector is the set of returns its fault may leave, empty when it    *)
(* does not apply.  A drawn number is any member of a small set (Noise,    *)
(* Skews); numbers are grid units of RuleOracle, rates are counts, and a   *)
(* bound on a branch is the least count Needed of it, by number of         *)
(* branches.                                                               *)
(***************************************************************************)
EXTENDS RuleOracle, SequencesExt

CONSTANTS
  Dom,              \* the domain of the substrate's records
  Pool,             \* the substrate's records, a sequence
  ProvenanceSwaps,  \* provenance_swaps: tool -> related tools
  EnvField,         \* env_field
  Noise, Skews,     \* jitter displacements; normaliser errors in percent
  Samples,          \* n, records measured per row
  Action, Combos,   \* stacks: the action the oracle adapter is fixed to; the stacks
  Seeds, Ks,        \* escape: how many seeds; branches added, a sequence
  BaseBranches,     \* escape: n_base_branches
  Counts, Needed,   \* escape: counts a branch may draw; by number of branches, the
                    \* least count whose bound is at least tau
  Mix, Tries        \* budget: the faults of FAULT_MIX; n * 20, the draws of the pool

VARIABLES
  prog,         \* "stacks", "escape" or "budget"
  used, rec, z, \* records given out for this row; the record and its corrupted form
  k, rows,      \* the next mechanism, or position in Ks; finished rows
  found         \* the substrate could be loaded (escape, budget)

VARIABLES  \* stacks
  ci, gi,       \* positions in Combos and Regimes
  fired, allFired,
  taken, maxD,  \* the row under construction
  lost,         \* a robust record of it became unsafe (single faults only)
  lip,          \* what d2_lipschitz_soundness returned
  verdict

VARIABLES  \* escape
  h,                \* position in HeldOut, beyond the end when part 1 is done
  applied, escaped, \* of this seed
  seeds,            \* seeds done for this mechanism or this K
  vals,             \* <<escaped, applied>> of the seeds that had a fault
  branches,         \* counts of the point under construction
  allows, curve,    \* points allowed, for this K and for each K done
  written

VARIABLES  \* budget
  fi, tally,    \* position in Faults, the row under construction
  tries, drawn, \* draws of the pool; the faults among them
  pooled,       \* the pool's row, or empty
  pc            \* "faults", "pool", "report", "written" or "died"

Discrete == {"wrong_provenance_binding", "wrong_policy_pack", "toctou_env_label"}

Continuous == {"numeric_jitter", "normalization_skew", "stale_cache",
               "cache_key_collision", "schema_skew"}

-----------------------------------------------------------------------------
(* The substrate and the injectors: the returns a fault may leave; none    *)
(* when it does not apply to this return.                                  *)

Records == {Pool[i] : i \in DOMAIN Pool}

Rebind(r, field) == {[r EXCEPT !.x1[field] = v] : v \in Allowed(Dom, field) \ {r.x1[field]}}

WrongProvenance(r) == {[r EXCEPT !.tool = t] : t \in ProvenanceSwaps[r.tool]}

WrongPolicyPack(r) == UNION {Rebind(r, f) : f \in DOMAIN r.x1}

ToctouEnvLabel(r) == IF EnvField \in DOMAIN r.x1 THEN Rebind(r, EnvField) ELSE {}

SquaredDistance(x, y) == (x[1] - y[1]) * (x[1] - y[1]) + (x[2] - y[2]) * (x[2] - y[2])

ProfileStratum(r) == {i \in DOMAIN Pool : StateOf(Pool[i]) = StateOf(r)}

\* The nearest different read of the same surface.  A stratum above 64 records
\* is sampled first; the pools here are smaller.
StaleCache(r) ==
  LET others == {Pool[i].x2 : i \in ProfileStratum(r)} \ {r.x2}
      nearest ==
        {x \in others : \A y \in others : SquaredDistance(r.x2, x) <= SquaredDistance(r.x2, y)}
  IN  IF Cardinality(ProfileStratum(r)) < 2 THEN {} ELSE {[r EXCEPT !.x2 = x] : x \in nearest}

\* Eight draws may all miss: the fault may also come out inapplicable.
CacheKeyCollision(r) ==
  {[r EXCEPT !.x2 = p.x2] : p \in {q \in Records : q.tool = r.tool /\ q.x2 # r.x2}}

NumericJitter(r) == {[r EXCEPT !.x2 = <<r.x2[1] + e[1], r.x2[2] + e[2]>>] : e \in Noise}

NormalizationSkew(r) ==
  {[r EXCEPT !.x2 = <<(r.x2[1] * (100 + s[1])) \div 100, (r.x2[2] * (100 + s[2])) \div 100>>] :
   s \in Skews}

SchemaSkew(r) == IF r.x2[1] = r.x2[2] THEN {} ELSE {[r EXCEPT !.x2 = <<r.x2[2], r.x2[1]>>]}

Inject(m, r) ==
  CASE m = "wrong_provenance_binding" -> WrongProvenance(r)
    [] m = "wrong_policy_pack" -> WrongPolicyPack(r)
    [] m = "toctou_env_label" -> ToctouEnvLabel(r)
    [] m = "stale_cache" -> StaleCache(r)
    [] m = "cache_key_collision" -> CacheKeyCollision(r)
    [] m = "numeric_jitter" -> NumericJitter(r)
    [] m = "normalization_skew" -> NormalizationSkew(r)
    [] m = "schema_skew" -> SchemaSkew(r)

MayMiss(m, r) == Inject(m, r) = {} \/ m = "cache_key_collision"

ChangedFields(a, b) == {f \in DOMAIN a.x1 : a.x1[f] # b.x1[f]}

\* Mutant: a changed tool is not counted as an atom.
DriftAtoms_FieldsOnly(a, b) == Cardinality(ChangedFields(a, b))

DriftAtoms(a, b) == Cardinality(ChangedFields(a, b)) + (IF a.tool # b.tool THEN 1 ELSE 0)

\* The square of the measured eps.
DriftEps(a, b) == SquaredDistance(a.x2, b.x2)

InBudget(a, b) == DriftAtoms(a, b) <= 1 /\ DriftEps(a, b) <= Eps * Eps

-----------------------------------------------------------------------------
(* Stacks of faults.                                                       *)

Regimes == <<"adversarial", "independent">>

\* _in_budget_class.
FaultClass(m) ==
  CASE m \in Discrete -> "discrete"
    [] m \in {"numeric_jitter", "normalization_skew"} -> "in_budget"
    [] m = "stale_cache" -> "freshness_removable"
    [] OTHER -> "out_of_budget"

AsReturn(r) == [domain |-> Dom, tool |-> r.tool, x1 |-> r.x1, x2 |-> r.x2]

\* pr_R_to_U and pr_safe_to_unsafe count it, where the oracle has both rules.
RobustLost(a, b) ==
  /\ HasRule(Dom, StateOf(a), Action) /\ HasRule(Dom, StateOf(b), Action)
  /\ Category(AsReturn(a), Action) = "R"
  /\ ~Safe(AsReturn(b), Action)

-----------------------------------------------------------------------------
(* The study: for each stack and regime, up to Samples records.            *)

Nobody == [tool |-> "none"]

Idle == rec = Nobody

Combo == Combos[ci]

Single == Len(Combo) = 1

StackInit ==
  /\ ci = 1 /\ gi = 1
  /\ used = {} /\ rec = Nobody /\ z = Nobody /\ k = 1
  /\ fired = {} /\ allFired = TRUE
  /\ taken = 0 /\ maxD = 0 /\ lost = FALSE
  /\ rows = {} /\ lip = "unset" /\ verdict = "none"

\* The next record of the permutation.
Draw ==
  /\ Idle /\ ci <= Len(Combos) /\ taken < Samples
  /\ \E i \in DOMAIN Pool \ used :
       /\ used' = used \cup {i}
       /\ rec' = Pool[i] /\ z' = Pool[i]
  /\ UNCHANGED <<ci, gi, k, fired, allFired, taken, maxD, lost, rows, lip, verdict>>

Composing == ~Idle /\ k <= Len(Combo)

Fire ==
  /\ Composing
  /\ z' \in Inject(Combo[k], z)
  /\ fired' = fired \cup {Combo[k]}
  /\ k' = k + 1
  /\ UNCHANGED <<ci, gi, used, rec, allFired, taken, maxD, lost, rows, lip, verdict>>

\* The mechanism does not apply, or the independent regime does not draw it.
Skip ==
  /\ Composing
  /\ Regimes[gi] = "independent" \/ MayMiss(Combo[k], z)
  /\ allFired' = FALSE
  /\ k' = k + 1
  /\ UNCHANGED <<ci, gi, used, rec, z, fired, taken, maxD, lost, rows, lip, verdict>>

Composed == ~Idle /\ k > Len(Combo)

\* A sample no mechanism of which fired is not counted.
Measure ==
  /\ Composed
  /\ IF fired = {}
     THEN UNCHANGED <<taken, maxD, lost>>
     ELSE /\ taken' = taken + 1
          /\ maxD' = IF DriftAtoms(rec, z) > maxD THEN DriftAtoms(rec, z) ELSE maxD
          /\ lost' = (lost \/ (Single /\ RobustLost(rec, z)))
  /\ rec' = Nobody /\ z' = Nobody /\ k' = 1 /\ fired' = {} /\ allFired' = TRUE
  /\ UNCHANGED <<ci, gi, used, rows, lip, verdict>>

\* n applied, or the records are exhausted.
RowDone == Idle /\ ci <= Len(Combos) /\ (taken = Samples \/ used = DOMAIN Pool)

ClearRow ==
  /\ used' = {} /\ taken' = 0 /\ maxD' = 0 /\ lost' = FALSE
  /\ UNCHANGED <<rec, z, k, fired, allFired, lip, verdict>>

\* A row without samples is dropped.
Keep(row) == rows' = IF taken = 0 THEN rows ELSE rows \cup {row}

FinishSingle ==
  /\ RowDone /\ Single
  /\ Keep([arity |-> 1, class |-> FaultClass(Combo[1]), maxD |-> maxD, lost |-> lost])
  /\ ci' = ci + 1 /\ gi' = 1
  /\ ClearRow

FinishCombo ==
  /\ RowDone /\ ~Single
  /\ Keep([arity |-> Len(Combo), maxD |-> maxD])
  /\ IF gi < Len(Regimes) THEN gi' = gi + 1 /\ ci' = ci ELSE gi' = 1 /\ ci' = ci + 1
  /\ ClearRow

Finished == ci > Len(Combos)

\* do_lip off or no backend; else whether the d = 2 gate allowed nothing unsafe.
EvaluateGate ==
  /\ Finished /\ lip = "unset"
  /\ lip' \in {"unavailable", "sound", "broken"}
  /\ UNCHANGED <<ci, gi, used, rec, z, k, fired, allFired, taken, maxD, lost, rows, verdict>>

PairsAllLe2 == \A r \in rows : r.arity = 2 => r.maxD <= 2

VerdictOf ==
  IF PairsAllLe2 /\ lip = "sound" THEN "closes"
  ELSE IF lip = "broken" THEN "kill"
  ELSE IF ~PairsAllLe2 THEN "pair_reached_d3"
  ELSE "not_evaluated"

Report ==
  /\ lip # "unset" /\ verdict = "none"
  /\ verdict' = VerdictOf
  /\ UNCHANGED <<ci, gi, used, rec, z, k, fired, allFired, taken, maxD, lost, rows, lip>>

StackNext ==
  Draw \/ Fire \/ Skip \/ Measure \/ FinishSingle \/ FinishCombo \/ EvaluateGate \/ Report

\* Records stay well-typed returns of the domain under every stack of faults.
StackTypeOK ==
  /\ ci \in 1..(Len(Combos) + 1) /\ gi \in 1..2 /\ k \in Nat /\ taken \in 0..Samples
  /\ used \subseteq DOMAIN Pool
  /\ Idle \/ {AsReturn(rec), AsReturn(z)} \subseteq Returns
  /\ fired \subseteq Discrete \cup Continuous /\ allFired \in BOOLEAN
  /\ maxD \in 0..(1 + Cardinality(Fields(Dom)))
  /\ lost \in BOOLEAN
  /\ lip \in {"unset", "unavailable", "sound", "broken"}
  /\ verdict \in {"none", "closes", "kill", "pair_reached_d3", "not_evaluated"}

Hit(ms) == Cardinality(fired \cap ms)

\* The drift is what the fired mechanisms explain: provenance lost the tool,
\* one rebinding lost one field, two may meet on one field; numbers move only
\* by a continuous fault, and by a lone real read always.
DriftNamesItsFaults ==
  ~Idle =>
    LET fields == Cardinality(ChangedFields(rec, z))
        rebinds == Hit({"wrong_policy_pack", "toctou_env_label"})
    IN  /\ (rec.tool # z.tool) <=> "wrong_provenance_binding" \in fired
        /\ fields <= rebinds /\ (rebinds = 1 => fields = 1)
        /\ Hit(Continuous) = 0 => rec.x2 = z.x2
        /\ (Hit(Continuous) = 1 /\ Hit({"stale_cache", "cache_key_collision", "schema_skew"}) = 1)
             => rec.x2 # z.x2

\* A robust record stays safe under any stack whose drift is measured inside
\* B_{1,eps}, where the oracle has a rule for what the stack left.
RobustStaysSafeInBudget ==
  Composed /\ InBudget(rec, z) => ~RobustLost(rec, z)

\* "every single discrete fault" stays inside what R certifies: no discrete row
\* saw a robust record become unsafe.
DiscreteRowsKeepRobustSafe ==
  \A r \in rows : r.arity = 1 => (r.class = "discrete" => r.maxD = 1 /\ ~r.lost)

\* The threat model is said to close only on rows of pairs within d = 2 and a
\* gate found sound, and no stack without three discrete faults leaves d = 2.
ClosesOnSoundGate ==
  /\ verdict = "closes" => lip = "sound" /\ \A r \in rows : r.arity < 3 => r.maxD <= r.arity
  /\ Hit(Discrete) < 3 /\ ~Idle => DriftAtoms(rec, z) <= 2

\* A smaller level per branch never asks for fewer safe draws.
NeededGrows == \A m, n \in DOMAIN Needed : m <= n => Needed[m] <= Needed[n]

HeldOut == <<"wrong_provenance_binding", "wrong_policy_pack", "toctou_env_label",
             "schema_skew", "cache_key_collision">>

partOne == <<h, used, rec, z, applied, escaped, vals, rows>>

cost == <<k, branches, allows, curve>>

-----------------------------------------------------------------------------
(* The declared neighbourhood.                                             *)

Fault == HeldOut[h]

Others(m) == Discrete \ {m}

\* The shared table, whichever mechanisms are left, or nothing.
DeclaredVocab(mechs) ==
  [tools |-> IF mechs = {} THEN {} ELSE UNION Range(ProvenanceSwaps),
   fields |-> [f \in Fields(Dom) |-> IF mechs = {} THEN {} ELSE Allowed(Dom, f)]]

InDeclared(a, b, vocab) ==
  /\ DriftEps(a, b) <= Eps * Eps
  /\ DriftAtoms(a, b) <= 1
  /\ a.tool # b.tool => b.tool \in vocab.tools
  /\ \A f \in ChangedFields(a, b) : b.x1[f] \in vocab.fields[f]

-----------------------------------------------------------------------------
(* Part 1: leave one mechanism out.                                        *)

InPartOne == found /\ h <= Len(HeldOut)

SeedDone == Idle /\ (applied = Samples \/ used = DOMAIN Pool)

EscapeInit ==
  /\ found \in BOOLEAN
  /\ h = 1 /\ used = {} /\ rec = Nobody /\ z = Nobody /\ applied = 0 /\ escaped = 0
  /\ seeds = 0 /\ vals = << >> /\ rows = << >>
  /\ k = 1 /\ branches = << >> /\ allows = 0 /\ curve = << >> /\ written = FALSE

Inject1 ==
  /\ InPartOne /\ Idle /\ seeds < Seeds /\ applied < Samples
  /\ \E i \in DOMAIN Pool \ used :
       /\ used' = used \cup {i}
       /\ z' \in Inject(Fault, Pool[i])
       /\ rec' = Pool[i]
  /\ UNCHANGED <<found, h, applied, escaped, seeds, vals, rows, cost, written>>

\* The injector has nothing to do for this record.
PassOver ==
  /\ InPartOne /\ Idle /\ seeds < Seeds /\ applied < Samples
  /\ \E i \in DOMAIN Pool \ used : MayMiss(Fault, Pool[i]) /\ used' = used \cup {i}
  /\ UNCHANGED <<found, h, rec, z, applied, escaped, seeds, vals, rows, cost, written>>

MeasureEscape ==
  /\ ~Idle
  /\ applied' = applied + 1
  /\ escaped' = escaped + (IF InDeclared(rec, z, DeclaredVocab(Others(Fault))) THEN 0 ELSE 1)
  /\ rec' = Nobody /\ z' = Nobody
  /\ UNCHANGED <<found, h, used, seeds, vals, rows, cost, written>>

\* A seed without a fault is left out.
FinishSeed ==
  /\ InPartOne /\ seeds < Seeds /\ SeedDone
  /\ vals' = IF applied = 0 THEN vals ELSE Append(vals, <<escaped, applied>>)
  /\ seeds' = seeds + 1
  /\ used' = {} /\ applied' = 0 /\ escaped' = 0
  /\ UNCHANGED <<found, h, rec, z, rows, cost, written>>

Total(j) == FoldFunction(+, 0, [i \in DOMAIN vals |-> vals[i][j]])

\* aggregate_escape: a mechanism without a seed has no row.
Aggregate ==
  /\ InPartOne /\ seeds = Seeds
  /\ rows' = IF vals = << >> THEN rows
             ELSE Append(rows, [mechanism |-> Fault, seeds |-> Len(vals), escaped |-> Total(1),
                                n |-> Total(2)])
  /\ h' = h + 1 /\ seeds' = 0 /\ vals' = << >>
  /\ UNCHANGED <<found, used, rec, z, applied, escaped, cost, written>>

-----------------------------------------------------------------------------
(* Part 2: over-declaration, one point per seed.                           *)

InPartTwo == (~found \/ h > Len(HeldOut)) /\ k <= Len(Ks)

NumBranches == BaseBranches + Ks[k]

PointAllowed(counts) == \A b \in DOMAIN counts : counts[b] >= Needed[Len(counts)]

DrawBranch ==
  /\ InPartTwo /\ seeds < Seeds /\ Len(branches) < NumBranches
  /\ \E c \in Counts : branches' = Append(branches, c)
  /\ UNCHANGED <<found, partOne, seeds, k, allows, curve, written>>

FinishPoint ==
  /\ InPartTwo /\ seeds < Seeds /\ Len(branches) = NumBranches
  /\ allows' = allows + (IF PointAllowed(branches) THEN 1 ELSE 0)
  /\ branches' = << >> /\ seeds' = seeds + 1
  /\ UNCHANGED <<found, partOne, k, curve, written>>

FinishK ==
  /\ InPartTwo /\ seeds = Seeds
  /\ curve' = Append(curve, allows)
  /\ allows' = 0 /\ seeds' = 0 /\ k' = k + 1
  /\ UNCHANGED <<found, partOne, branches, written>>

\* The tables, the notes and the "Read", whatever the tables hold.
WriteOutputs ==
  /\ k > Len(Ks) /\ ~written
  /\ written' = TRUE
  /\ UNCHANGED <<found, partOne, seeds, cost>>

EscapeNext ==
  \/ Inject1 \/ PassOver \/ MeasureEscape \/ FinishSeed \/ Aggregate
  \/ DrawBranch \/ FinishPoint \/ FinishK \/ WriteOutputs

\* A row has between one and Seeds seeds, and a fault per seed at least.
EscapeTypeOK ==
  /\ h \in 1..(Len(HeldOut) + 1) /\ k \in 1..(Len(Ks) + 1) /\ seeds \in 0..Seeds
  /\ used \subseteq DOMAIN Pool /\ applied \in 0..Cardinality(used) /\ escaped \in 0..applied
  /\ \A i \in DOMAIN rows : rows[i].seeds \in 1..Seeds /\ rows[i].escaped \in 0..rows[i].n
                              /\ rows[i].n >= rows[i].seeds
  /\ allows \in 0..seeds /\ \A i \in DOMAIN curve : curve[i] \in 0..Seeds

\* "escape_rate[M] = Pr[ realized z' NOT in N_d^{-M} x B_eps ]" is one minus the
\* fraction that fault_injection.py finds in B_{1,eps}: no fault is in one and not
\* in the other, whichever mechanism is held out.
EscapeIsTheDriftBudget ==
  ~Idle => (InDeclared(rec, z, DeclaredVocab(Others(Fault))) <=> InBudget(rec, z))

\* "Provenance/policy/TOCTOU held-out escape ~ 0".
DiscreteNeverEscape == \A i \in DOMAIN rows : rows[i].mechanism \in Discrete => rows[i].escaped = 0

\* A point allowed with more branches is allowed with the first of them alone.
MoreBranchesNeverHelp ==
  (InPartTwo /\ Len(branches) = NumBranches /\ PointAllowed(branches)) =>
    \A n \in BaseBranches..NumBranches : PointAllowed(SubSeq(branches, 1, n))

-----------------------------------------------------------------------------
(* fault_injection.py as a program.                                        *)

Faults == <<"wrong_provenance_binding", "wrong_policy_pack", "toctou_env_label", "stale_cache",
            "numeric_jitter", "normalization_skew", "schema_skew", "cache_key_collision">>

NoRow == [n |-> 0, d1 |-> 0, d2 |-> 0, near |-> 0, inside |-> 0, kept |-> {}]

One(b) == IF b THEN 1 ELSE 0

Measured(q, m, a, b) ==
  [n |-> q.n + 1, d1 |-> q.d1 + One(DriftAtoms(a, b) = 1), d2 |-> q.d2 + One(DriftAtoms(a, b) >= 2),
   near |-> q.near + One(DriftEps(a, b) <= Eps * Eps), inside |-> q.inside + One(InBudget(a, b)),
   kept |-> q.kept \cup {m}]

BudgetInit ==
  /\ found \in BOOLEAN
  /\ fi = 1 /\ used = {} /\ tally = NoRow /\ rows = << >> /\ tries = 0 /\ drawn = {}
       /\ pooled = << >>
  /\ pc = IF found THEN "faults" ELSE "report"

\* run_fault
Sample ==
  /\ pc = "faults" /\ tally.n < Samples
  /\ \E i \in DOMAIN Pool \ used :
       /\ used' = used \cup {i}
       /\ \/ \E b \in Inject(Faults[fi], Pool[i]) : tally' = Measured(tally, Faults[fi], Pool[i], b)
          \/ MayMiss(Faults[fi], Pool[i]) /\ tally' = tally
  /\ UNCHANGED <<found, fi, rows, tries, drawn, pooled, pc>>

\* A fault that applied to no record has no row.
FinishFault ==
  /\ pc = "faults" /\ (tally.n = Samples \/ used = DOMAIN Pool)
  /\ rows' = IF tally.n = 0 THEN rows ELSE Append(rows, [fault |-> Faults[fi], r |-> tally])
  /\ fi' = fi + 1 /\ used' = {} /\ tally' = NoRow
  /\ pc' = IF fi = Len(Faults) THEN "pool" ELSE "faults"
  /\ UNCHANGED <<found, tries, drawn, pooled>>

\* run_pooled: what does not apply is thrown away with its fault.
DrawPool ==
  /\ pc = "pool" /\ tally.n < Samples /\ tries < Tries
  /\ tries' = tries + 1
  /\ \E m \in Mix, i \in DOMAIN Pool :
       /\ drawn' = drawn \cup {m}
       /\ \/ \E b \in Inject(m, Pool[i]) : tally' = Measured(tally, m, Pool[i], b)
          \/ MayMiss(m, Pool[i]) /\ tally' = tally
  /\ UNCHANGED <<found, fi, used, rows, pooled, pc>>

\* The maximum of an empty pool raises.
FinishPool ==
  /\ pc = "pool" /\ (tally.n = Samples \/ tries = Tries)
  /\ IF tally.n = 0 THEN pc' = "died" /\ pooled' = << >> ELSE pc' = "report" /\ pooled' = <<tally>>
  /\ UNCHANGED <<found, fi, used, tally, rows, tries, drawn>>

\* write_reports: the table and the "Reads".
WriteReports ==
  /\ pc = "report"
  /\ pc' = "written"
  /\ UNCHANGED <<found, fi, used, tally, rows, tries, drawn, pooled>>

BudgetNext == Sample \/ FinishFault \/ DrawPool \/ FinishPool \/ WriteReports

\* A row has at most Samples entries, and its counts are parts of them.
BudgetTypeOK ==
  /\ pc \in {"faults", "pool", "report", "written", "died"} /\ tries \in 0..Tries
  /\ \A q \in {tally} \cup {rows[j].r : j \in DOMAIN rows} :
       q.n \in 0..Samples /\ q.d1 + q.d2 <= q.n /\ q.inside <= q.near /\ q.near <= q.n
  /\ tally.kept \subseteq drawn \cup {Faults[j] : j \in DOMAIN Faults \cap {fi}}

\* "Atomic ... faults each change exactly one discrete atom (Pr[d=1]=1, eps=0), and
\* NO single fault reaches d>=2"; the others move numbers alone.
SingleFaultIsOneAtom ==
  /\ \A j \in DOMAIN rows :
       IF rows[j].fault \in Discrete THEN rows[j].r.d1 = rows[j].r.n /\ rows[j].r.near = rows[j].r.n
       ELSE rows[j].r.d1 + rows[j].r.d2 = 0
  /\ \A j \in DOMAIN pooled : pooled[j].d2 = 0

\* With one fault at a time the budget is decided by the ball: the last column
\* repeats the one before, and a return outside both budgets never occurs.
BudgetIsTheBall == \A q \in {tally} \cup {rows[j].r : j \in DOMAIN rows} : q.inside = q.near

-----------------------------------------------------------------------------
(* The three programs.  Each leaves the variables of the others alone.     *)

stackOnly == <<ci, gi, fired, allFired, taken, maxD, lost, lip, verdict>>
escapeOnly == <<h, applied, escaped, seeds, vals, branches, allows, curve, written>>
budgetOnly == <<fi, tally, tries, drawn, pooled, pc>>
vars == <<prog, used, rec, z, k, rows, found, stackOnly, escapeOnly, budgetOnly>>

NoStack ==
  /\ ci = 0 /\ gi = 0 /\ fired = {} /\ allFired = FALSE /\ taken = 0 /\ maxD = 0 /\ lost = FALSE
  /\ lip = "unset" /\ verdict = "none"

NoEscape ==
  /\ h = 0 /\ applied = 0 /\ escaped = 0 /\ seeds = 0 /\ vals = << >> /\ branches = << >>
  /\ allows = 0 /\ curve = << >> /\ written = FALSE

NoBudget ==
  /\ fi = 0 /\ tally = NoRow /\ tries = 0 /\ drawn = {} /\ pooled = << >> /\ pc = "idle"

Init ==
  \/ prog = "stacks" /\ StackInit /\ NoEscape /\ NoBudget /\ found = TRUE
  \/ prog = "escape" /\ EscapeInit /\ NoStack /\ NoBudget
  \/ prog = "budget" /\ BudgetInit /\ NoStack /\ NoEscape /\ rec = Nobody /\ z = Nobody /\ k = 0

Next ==
  \/ prog = "stacks" /\ StackNext /\ UNCHANGED <<prog, found, escapeOnly, budgetOnly>>
  \/ prog = "escape" /\ EscapeNext /\ UNCHANGED <<prog, stackOnly, budgetOnly>>
  \/ prog = "budget" /\ BudgetNext /\ UNCHANGED <<prog, rec, z, k, stackOnly, escapeOnly>>

Spec == Init /\ [][Next]_vars

\* What the three programs report about the drift of a fault is explained by the
\* faults that fired, and a fault measured inside the budget harms nothing robust.
DriftsExplained ==
  /\ prog = "stacks" => /\ StackTypeOK /\ DriftNamesItsFaults /\ RobustStaysSafeInBudget
                        /\ DiscreteRowsKeepRobustSafe /\ ClosesOnSoundGate
  /\ prog = "escape" => /\ EscapeTypeOK /\ EscapeIsTheDriftBudget /\ DiscreteNeverEscape
                        /\ MoreBranchesNeverHelp
  /\ prog = "budget" => BudgetTypeOK /\ SingleFaultIsOneAtom /\ BudgetIsTheBall
=============================================================================

------------------------------ MODULE RealData ------------------------------
(***************************************************************************)
(* The two real-data experiments (prog).                                   *)
(*   ieee  realdata_ieee_cis.py samples records from the gate pool and     *)
(*         writes them with one configuration file per directory;          *)
(*         run_realdata_ieee_cis_cert.py certifies a records file and      *)
(*         reports the configuration lying beside it;                      *)
(*   nab   second_real_dataset.py does both per seed.                      *)
(*                                                                         *)
(* The stable hash of (id, salt) is any function onto 0..UnitDen-1.  What  *)
(* a trained gate certifies is any subset of the test records: the policy, *)
(* the sampling and the bookkeeping are exact, learning is not.            *)
(***************************************************************************)
EXTENDS RealDataPolicy

CONSTANTS
  Ids,               \* row ids, integers
  Seeds, Files,      \* seeds, and record files of one directory
  ValueMaps, Units,  \* candidate data [Ids -> 0..One] and hashes [salts -> [Ids -> Nat]]
  X1,                \* the categorical fields per id
  Outcome,           \* isFraud per id
  UnitDen, QNum, QDen,   \* 1.0 of the hash, and the theta quantile
  NRecords, MinC, Folds, \* --n-records, --min-c-records, the split's buckets
  WitnessCap             \* --c-witness-cap

VARIABLES
  prog,              \* "ieee" or "nab"
  value, unit,       \* the data and the hash, fixed
  disk, config,      \* record files, and the configuration file
  pending,           \* the configuration the generator has yet to write
  report,            \* the last certification report
  rows,              \* NAB: the rows of the seeds done
  summary            \* NAB: what summary.md says, or empty

vars == <<prog, value, unit, disk, config, pending, report, rows, summary>>

Modes == {"natural", "boundary_balanced", "c_targeted"}

-----------------------------------------------------------------------------
(* Split, threshold, candidates.                                           *)

GatePool(seed) == {id \in Ids : ~(2 * unit[seed][id] < UnitDen)}

\* np.quantile with linear interpolation, to the grid, then clipped.
ThetaBase(seed) ==
  LET pool == GatePool(seed)
      below(id) == {j \in pool : value[j] < value[id] \/ (value[j] = value[id] /\ j < id)}
      ranked(k) == value[CHOOSE id \in pool : Cardinality(below(id)) = k]
      at == QNum * (Cardinality(pool) - 1)
      a == ranked(at \div QDen)
      b == ranked(Min({at \div QDen + 1, Cardinality(pool) - 1}))
  IN  IF pool = {} THEN Clip(One \div 2) ELSE Clip(a + ((b - a) * (at % QDen)) \div QDen)

BaseTool(id, seed) == ToolSeq[(unit[7 * seed + 3][id] * Len(ToolSeq)) \div UnitDen + 1]

InCInterval(id, theta) == LET c == CInterval(theta, X1[id]) IN c[1] < value[id] /\ value[id] <= c[2]

\* c_targeted routes a row of the C interval through a loose tool.
Targeted(id, seed, mode) == mode = "c_targeted" /\ InCInterval(id, ThetaBase(seed))

ToolFor(id, seed, mode) ==
  IF Targeted(id, seed, mode)
  THEN LooseTools[(unit[seed][id] * Len(LooseTools)) \div UnitDen + 1]
  ELSE BaseTool(id, seed)

Candidate(id, seed, mode) ==
  LET tool == ToolFor(id, seed, mode)
      theta == ThetaBase(seed)
  IN  [id |-> id, tool |-> tool, value |-> value[id], x1 |-> X1[id], theta |-> theta,
       label |-> PolicySafe(value[id], tool, X1[id], theta),
       category |-> AnalyticCategory(value[id], tool, X1[id], theta),
       witness |-> Witness(value[id], tool, X1[id], theta), outcome |-> Outcome[id]]

Candidates(seed, mode) == {Candidate(id, seed, mode) : id \in GatePool(seed)}

-----------------------------------------------------------------------------
(* Sampling.  A round robin over categories, each by id, takes the first n *)
(* in the order of position in the category, then of the category.         *)

FirstById(recs, n) == {r \in recs : Cardinality({q \in recs : q.id < r.id}) < n}

InTurn(cats, recs, q, r) ==
  LET pos(cat) == CHOOSE i \in DOMAIN cats : cats[i] = cat
      rank(x) == Cardinality({y \in recs : y.category = x.category /\ y.id < x.id})
  IN  \/ rank(q) < rank(r)
      \/ rank(q) = rank(r) /\ pos(q.category) < pos(r.category)

RoundRobin(cats, recs, n) ==
  {r \in recs : Cardinality({q \in recs : InTurn(cats, recs, q, r)}) < n}

BalancedOrder == <<"R", "B", "C", "A", "U">>

Balanced(recs, n) == RoundRobin(BalancedOrder, recs, n)

\* C first, to 60 percent of the request or to min_c, then the other categories.
CTargeted(recs, n) ==
  LET cs == {r \in recs : r.category = "C"}
      cap == Max({MinC, (6 * n + 5) \div 10})
      head == FirstById(cs, Min({cap, n}))
  IN  head \cup RoundRobin(<<"U", "R", "B", "A">>, recs \ cs, n - Cardinality(head))

Select(recs, mode, n) ==
  CASE mode = "natural" -> FirstById(recs, n)
    [] mode = "c_targeted" -> CTargeted(recs, n)
    [] mode = "boundary_balanced" -> Balanced(recs, n)

Warning(recs, mode) ==
  mode = "c_targeted" /\ Cardinality({r \in recs : r.category = "C"}) < MinC

\* The mean of a 1 per selected fraud, over those ones: <<sum, count>>.
FraudAll(recs) == LET k == Cardinality({r \in recs : r.outcome}) IN <<k, k>>

-----------------------------------------------------------------------------
(* Certification: the oracle's categories over the rule table rebuilt from *)
(* the first record's threshold, and the held-out fifth of every stratum.  *)

ToInternal(recs, theta) ==
  {[rec |-> r, category |-> OracleCategory(r.value, r.tool, r.x1, theta)] : r \in recs}

TestSet(internal) ==
  {i \in internal :
     LET stratum == {j \in internal : j.category = i.category}
         at == Cardinality({j \in stratum : j.rec.id < i.rec.id})
     IN  Cardinality(stratum) >= 3 /\ at % Folds = Folds - 1}

JointReachable(r, theta) ==
  Oracle(theta)!JointReachableUnsafe(AsReturn(r.value, r.tool, r.x1), Action)

FalseAllows(allowed, theta) ==
  {i \in allowed : i.category = "U" \/ JointReachable(i.rec, theta)}

ExactAllow(test) == {i \in test : i.category = "R"}

\* Audited same-state witnesses: recomputed by the policy for the oracle's C
\* records, kept when safe before the move and unsafe after it, the first ones
\* in the order of the balanced sample up to the cap.
CollectWitnesses(internal, theta) ==
  LET own(i) == Witness(i.rec.value, i.rec.tool, i.rec.x1, theta)
      audited ==
        {i \in internal :
           /\ i.category = "C" /\ own(i) # << >> /\ own(i)[1].joint
           /\ i.rec.value <= own(i)[1].threshold /\ i.rec.value + Eps > own(i)[1].threshold}
      recs == {i.rec : i \in internal}
      ahead(i) == {j \in audited : InTurn(BalancedOrder, recs, j.rec, i.rec)}
  IN  {[rec |-> i.rec, w |-> own(i)[1]] : i \in {j \in audited : Cardinality(ahead(j)) < WitnessCap}}

-----------------------------------------------------------------------------
Init ==
  /\ prog \in {"ieee", "nab"}
  /\ value \in ValueMaps /\ unit \in Units
  /\ disk = [f \in Files |-> << >>] /\ config = << >> /\ pending = << >> /\ report = << >>
  /\ rows = << >> /\ summary = << >>

\* generate, up to the records file.
WriteRecords(f, seed, mode) ==
  /\ prog = "ieee" /\ pending = << >>
  /\ LET cands == Candidates(seed, mode)
         chosen == Select(cands, mode, NRecords)
     IN  /\ disk' = [disk EXCEPT ![f] = <<[recs |-> chosen, mode |-> mode, seed |-> seed]>>]
         /\ pending' = <<[mode |-> mode, theta |-> ThetaBase(seed),
                          warning |-> Warning(cands, mode),
                          n |-> Cardinality(chosen), fraud |-> FraudAll(chosen),
                          frauds |-> Cardinality({r \in chosen : r.outcome})]>>
  /\ UNCHANGED <<prog, value, unit, config, report, rows, summary>>

\* The configuration has one name whatever the records file is called.
WriteConfig ==
  /\ pending # << >>
  /\ config' = pending /\ pending' = << >>
  /\ UNCHANGED <<prog, value, unit, disk, report, rows, summary>>

Certify(f) ==
  /\ disk[f] # << >> /\ disk[f][1].recs # {} /\ pending = << >>
  /\ LET recs == disk[f][1].recs
         theta == (CHOOSE r \in recs : TRUE).theta
         test == TestSet(ToInternal(recs, theta))
     IN  \E allowed \in SUBSET test :
           report' = <<[file |-> f, theta |-> config[1].theta, sampling |-> config[1].mode,
                        allowed |-> allowed, falseAllow |-> FalseAllows(allowed, theta)]>>
  /\ UNCHANGED <<prog, value, unit, disk, config, pending, rows, summary>>

\* One seed of the NAB experiment; the seeds come in increasing order.
RunSeed(seed) ==
  /\ prog = "nab" /\ summary = << >> /\ Len(rows) < Cardinality(Seeds)
  /\ Cardinality({s \in Seeds : s < seed}) = Len(rows)
  /\ LET theta == ThetaBase(seed)
         natural == Candidates(seed, "natural")
         internal == ToInternal(Balanced(natural, NRecords), theta)
         test == TestSet(internal)
     IN  \E allowed \in SUBSET test :
           rows' = Append(rows, [seed |-> seed, theta |-> theta, internal |-> internal,
                                 natural |-> [C |-> Cardinality({r \in natural : r.category = "C"}),
                                              n |-> Cardinality(natural)],
                                 lip |-> FalseAllows(allowed, theta),
                                 exactAllow |-> ExactAllow(test),
                                 exact |-> FalseAllows(ExactAllow(test), theta),
                                 witnesses |-> CollectWitnesses(internal, theta)])
  /\ UNCHANGED <<prog, value, unit, disk, config, pending, report, summary>>

\* The natural prevalence of C in thousandths of a percent, meant over seeds.
MeanC ==
  MapThenSumSet(LAMBDA k : (100000 * rows[k].natural.C) \div Max({1, rows[k].natural.n}),
                DOMAIN rows)
    \div Len(rows)

\* The verdict and the kill-criterion note depend on the prevalence; that every
\* backend is sound is said whatever was measured.
WriteSummary ==
  /\ prog = "nab" /\ summary = << >> /\ Len(rows) = Cardinality(Seeds)
  /\ summary' = <<[inBand |-> 3000 <= MeanC /\ MeanC <= 8000, killNote |-> ~(MeanC > 500),
                   sound |-> TRUE]>>
  /\ UNCHANGED <<prog, value, unit, disk, config, pending, report, rows>>

Next ==
  \/ \E f \in Files, seed \in Seeds, mode \in Modes : WriteRecords(f, seed, mode)
  \/ WriteConfig
  \/ \E f \in Files : Certify(f)
  \/ \E seed \in Seeds : RunSeed(seed)
  \/ WriteSummary

-----------------------------------------------------------------------------
(* Properties.                                                             *)

RecordFiles == {f \in Files : disk[f] # << >>}

Written == UNION {disk[f][1].recs : f \in RecordFiles}

TypeOK ==
  /\ prog \in {"ieee", "nab"} /\ value \in ValueMaps /\ unit \in Units
  /\ \A f \in RecordFiles : disk[f][1].mode \in Modes /\ Cardinality(disk[f][1].recs) <= NRecords
  /\ \A r \in Written : /\ r.theta \in Lo..Hi /\ r.category \in {"A", "B", "C", "R", "U"}
                         /\ r.label = (r.category # "U")
  /\ \A i \in DOMAIN rows : rows[i].exact \subseteq rows[i].exactAllow

\* The closed form and the enumeration of the endpoints give every record the
\* same category.
BruteForceAgrees ==
  \A r \in Written : r.category = BruteForceCategory(r.value, r.tool, r.x1, r.theta)

\* The oracle, over the exported rule table, is never laxer than the policy: a
\* record it calls robust the policy calls robust, and one the policy calls
\* unsafe it calls unsafe.
OracleNeverLaxer ==
  \A r \in Written :
    LET o == OracleCategory(r.value, r.tool, r.x1, r.theta) IN
    /\ o = "R" => r.category = "R"
    /\ r.category = "U" => o = "U"

\* What the exact backend admits is safe by the policy on the whole budget: at
\* the record's tool and its partner, anywhere within eps.
ExactCeilingSound ==
  \A k \in DOMAIN rows :
    /\ rows[k].exact = {}
    /\ \A i \in rows[k].exactAllow :
         \A tool \in {i.rec.tool, SwapPairs[i.rec.tool]},
         y \in (i.rec.value - Eps)..(i.rec.value + Eps) :
           PolicySafe(y, tool, i.rec.x1, rows[k].theta)

\* Every audited witness crosses the boundary by the two moves together: a
\* loose record, strictly safe at the strict partner, unsafe there after eps,
\* and safe with either move alone.
WitnessesCross ==
  \A k \in DOMAIN rows : \A w \in rows[k].witnesses :
    /\ IsLoose(w.rec.tool) /\ ~IsLoose(w.w.tool)
    /\ w.rec.value < w.w.threshold
    /\ ~PolicySafe(w.w.value, w.w.tool, w.rec.x1, rows[k].theta)
    /\ PolicySafe(w.w.value, w.rec.tool, w.rec.x1, rows[k].theta)

\* A balanced file leaves a category behind another by more than one record
\* only when that category is exhausted.
BalancedQuota ==
  \A f \in RecordFiles : disk[f][1].mode = "boundary_balanced" =>
    LET recs == disk[f][1].recs
        cands == Candidates(disk[f][1].seed, "boundary_balanced")
        n(s, cat) == Cardinality({r \in s : r.category = cat})
    IN  \A p, q \in {"A", "B", "C", "R", "U"} :
          n(recs, p) + 1 < n(recs, q) => n(recs, p) = n(cands, p)

\* The hash that put a row into the gate pool also picks its loose tool, so
\* targeting only ever uses the second one.
TargetingUsesOneTool ==
  \A f \in RecordFiles : \A r \in disk[f][1].recs :
    Targeted(r.id, disk[f][1].seed, disk[f][1].mode) => r.tool = LooseTools[2]

\* A row of the C interval routed through a loose tool is of category C, so long
\* as the clip leaves the loose threshold alone.
TargetedIsC ==
  \A f \in RecordFiles : \A r \in disk[f][1].recs :
    Targeted(r.id, disk[f][1].seed, disk[f][1].mode) /\ r.theta + Delta <= Hi => r.category = "C"

Spec == Init /\ [][Next]_vars

\* The three ways a record gets its category agree as far as the experiments
\* rely on it, and the samples and witnesses are what the modes promise.
CategoriesAgree ==
  /\ TypeOK /\ BruteForceAgrees /\ OracleNeverLaxer /\ ExactCeilingSound /\ WitnessesCross
  /\ BalancedQuota /\ TargetingUsesOneTool /\ TargetedIsC
=============================================================================

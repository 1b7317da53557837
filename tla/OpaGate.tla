------------------------------ MODULE OpaGate -------------------------------
(***************************************************************************)
(* experiments/opa_gate and experiments/exp_opa_full.py: the policy of     *)
(* policies/authored as an engine decides it, the typed schema and its     *)
(* sampler, the five-way category over the ball B_{1,eps}, the registered  *)
(* controls of methodology.py, the learned gate with its two certificates, *)
(* and the two drivers (prog):                                             *)
(*   run    run_opa_gate.py: for every domain, and for both sampling       *)
(*          schemes or for several seeds, draw records, let the engine     *)
(*          categorise them, train a gate on the engine's labels, certify  *)
(*          every record and report;                                       *)
(*   sweep  exp_opa_full.py: domains, backends, seeds, radii and taus.  A  *)
(*          gate is trained once per domain, backend and seed; its bound   *)
(*          is computed once per record and radius and compared with every *)
(*          tau afterwards.  Every record is written to per_example.jsonl  *)
(*          as it is certified; the summary is written at the end, so an   *)
(*          engine failure leaves the summary of an earlier sweep.         *)
(*                                                                         *)
(* The three domains have one policy up to renaming, so there is one.      *)
(* Fields, thresholds and eps are hundredths; of a record's numeric fields *)
(* only the one the policy reads is kept.  A learned gate is known by the  *)
(* threshold it puts at each discrete state, and a smoothed probability by *)
(* the distance to it: Prob is the increasing map from the one to the      *)
(* other, in units of 1/100000.                                            *)
(***************************************************************************)
EXTENDS FiniteSets, FiniteSetsExt, Integers, Sequences

CONSTANTS
  Base,             \* threshold by tool
  Adj,              \* and what the provenance label adds to it
  Kinds,            \* values of the field the policy does not read
  FieldRange,       \* the natural scheme's band <<lo, hi>>
  BoundaryBand,     \* the boundary scheme's
  Prob,             \* lower bound on a probability, by distance
  Reach,            \* distances are cut to -Reach..Reach
  Slack,            \* what Monte Carlo sampling costs, as a distance
  Seeds,            \* --seeds, a sequence
  Gates             \* what training may learn

CONSTANTS  \* run
  DomainSeq,        \* the domains of a run, in order
  Seed,             \* --seed
  Epsilon, Tau,     \* the operating point
  EpsGrid,          \* --eps-grid, a sequence
  RunDraws          \* what the sampler may draw, functions from seeds to records

CONSTANTS  \* sweep
  Domains,          \* the domains of the schema, in order
  Epsilons, Taus,   \* --epsilons and --taus, sequences
  SweepDraws,       \* what the sampler may draw: records by seed of the generator, from 0
  Requests,         \* command lines: the --backends given or none, and --quick
  MaxSweeps         \* bound on the sweeps started

VARIABLES
  prog,             \* "run" or "sweep"
  draw,             \* the sampler: records by scheme (run) and seed of the generator
  at                \* index of the next cell or base; 0 after a failed engine call,
                    \* and where no sweep runs

VARIABLES  \* run
  mode,             \* "single" or "multi"
  used,             \* the draws made: domain, role and seed of the generator
  results,          \* one result per finished cell
  report            \* the Markdown report, or empty

VARIABLES  \* sweep
  lip,              \* the Lipschitz backend can be imported
  sweeps,           \* sweeps started
  config,           \* the running sweep's backends and domains
  gates,            \* what was learned, by base cell
  cells,            \* metrics by (domain, backend, eps, tau), one per seed
  examples,         \* per_example.jsonl
  summary           \* summary.json, or empty

Privileged == "privileged"

Tools == DOMAIN Base

Labels == DOMAIN Adj

-----------------------------------------------------------------------------
(* The engine.                                                             *)

Threshold(s) == Base[s.tool] + Adj[s.label]

Safe(c) == c.action # Privileged \/ c.x < Threshold(c.state)

-----------------------------------------------------------------------------
(* Schema and sampler.                                                     *)

States == [tool : Tools, label : Labels, kind : Kinds]

Band(scheme) == IF scheme = "natural" THEN FieldRange ELSE BoundaryBand

\* A returned record asks for the privileged action.
Sampled(scheme) == [state : States, x : Band(scheme)[1]..Band(scheme)[2]]

RngSeed(scheme, seed) == seed + (IF scheme = "natural" THEN 0 ELSE 9973)

-----------------------------------------------------------------------------
(* Neighbours, as the schema has them and as the registry lists them.      *)

StructuralSwaps(s) ==
  {[s EXCEPT !.tool = t] : t \in Tools \ {s.tool}}
    \cup {[s EXCEPT !.label = l] : l \in Labels \ {s.label}}
    \cup {[s EXCEPT !.kind = k] : k \in Kinds \ {s.kind}}

RegisteredSwaps(s) ==
  {[s EXCEPT !.tool = t] : t \in Tools \ {s.tool}}
    \cup {[s EXCEPT !.label = l] : l \in Labels \ {s.label}}

RegisteredStateCount(s) == 1 + Cardinality(RegisteredSwaps(s))

Branches(s) == 1 + Cardinality(StructuralSwaps(s))

-----------------------------------------------------------------------------
(* The category of a record over the ball.                                 *)

SafeAt(s, x) == Safe([state |-> s, action |-> Privileged, x |-> x])

DiscFlip(r, swaps) == \E s \in swaps : SafeAt(s, r.x) # SafeAt(r.state, r.x)

ContFlip(r, eps) == SafeAt(r.state, r.x + eps) # SafeAt(r.state, r.x)

JointFlip(r, eps, swaps) == \E s \in swaps : SafeAt(s, r.x + eps) # SafeAt(r.state, r.x)

CategoryOver(r, eps, swaps) ==
  CASE ~SafeAt(r.state, r.x) -> "U"
    [] SafeAt(r.state, r.x) /\ DiscFlip(r, swaps) -> "A"
    [] SafeAt(r.state, r.x) /\ ~DiscFlip(r, swaps) /\ ContFlip(r, eps) -> "B"
    [] SafeAt(r.state, r.x) /\ ~DiscFlip(r, swaps) /\ ~ContFlip(r, eps)
      /\ JointFlip(r, eps, swaps) -> "C"
    [] OTHER -> "R"

Categorize(r, eps) == CategoryOver(r, eps, StructuralSwaps(r.state))

UnsafeReachable(r, eps) == Categorize(r, eps) # "R"

NaiveMarginalSafe(r, eps) ==
  ~DiscFlip(r, StructuralSwaps(r.state)) /\ ~ContFlip(r, eps) /\ SafeAt(r.state, r.x)

-----------------------------------------------------------------------------
(* The gaps of the policy's two tables, and the length of C they predict.  *)

Gaps(f) == {f[a] - f[b] : a, b \in DOMAIN f} \cap (1..100)

ThresholdGaps == Gaps(Base) \cup Gaps(Adj)

PredictedLength(gap, eps) == Min({gap, eps})

-----------------------------------------------------------------------------
(* A learned gate g adds g[label] to the policy's threshold, and its two   *)
(* certificates: the smoothed lower bound and the least Lipschitz margin.  *)

Cut(d) == Max({-Reach, Min({Reach, d})})

Distance(g, s, x) == Threshold(s) + g[s.label] - x

\* Mutant: only the record's own state is bounded.
CertifiedStates_Identity(s) == {s}

CertifiedStates(s) == {s} \cup StructuralSwaps(s)

Least(g, r) == Min({Distance(g, s, r.x) : s \in CertifiedStates(r.state)})

MinEll(g, r, eps) == Prob[Cut(Least(g, r) - Slack - eps)]

Certify(g, r, eps, tau) == MinEll(g, r, eps) >= tau

\* lower_bound_probability, as certify returns it: rounded to four decimals.
LowerBoundProbability(g, r, eps) == 10 * ((MinEll(g, r, eps) + 5) \div 10)

CertifyLip(g, r, eps) == Least(g, r) > eps

AllowPoint(g, r) == Distance(g, r.state, r.x) >= 0

-----------------------------------------------------------------------------
(* A rate is a pair of counts; nan is the rate over no record.             *)

Count(n, P(_)) == Cardinality({k \in 1..n : P(k)})

IsNaN(rate) == rate[2] = 0

AtMost(p, q) == IsNaN(p) \/ IsNaN(q) \/ p[1] * q[2] <= q[1] * p[2]

Zero(rate) == ~IsNaN(rate) /\ rate[1] = 0

\* nanmean of the seeds' rates: whether it is nan, 0 or above.
MeanIsNaN(rates) == \A k \in DOMAIN rates : IsNaN(rates[k])

MeanIsZero(rates) == ~MeanIsNaN(rates) /\ \A k \in DOMAIN rates : IsNaN(rates[k]) \/ Zero(rates[k])

MeanPositive(rates) == ~MeanIsNaN(rates) /\ ~MeanIsZero(rates)

-----------------------------------------------------------------------------
(* run_opa_gate.py.                                                        *)

Schemes == <<"natural", "boundary">>

\* The cells of a run in order: domain, scheme and seed.
Cells ==
  IF mode = "single"
  THEN << >> \o [k \in 1..(2 * Len(DomainSeq)) |->
         LET i == (k - 1) \div 2 IN
         [domain |-> DomainSeq[i + 1], scheme |-> Schemes[1 + ((k - 1) % 2)], seed |-> Seed + i]]
  ELSE << >> \o [k \in 1..(Len(Seeds) * Len(DomainSeq)) |->
         LET i == (k - 1) % Len(DomainSeq) IN
         [domain |-> DomainSeq[i + 1], scheme |-> "natural",
          seed |-> 100 * Seeds[1 + ((k - 1) \div Len(DomainSeq))] + i]]

\* The same generator seed draws the same records for every domain.
Records(scheme, seed) == draw[scheme][1 + (seed % Len(draw[scheme]))]

-----------------------------------------------------------------------------
(* One cell.                                                               *)

Rate(recs, P(_), Q(_)) ==
  <<Count(Len(recs), LAMBDA k : Q(recs[k]) /\ P(recs[k])), Count(Len(recs), LAMBDA k : Q(recs[k]))>>

\* The records of a category at radius ball, certified at radius eps.
AllowRate(recs, g, eps, ball, cat) ==
  Rate(recs, LAMBDA r : Certify(g, r, eps, Tau), LAMBDA r : Categorize(r, ball) = cat)

\* The R records of the operating point, certified at every radius of the grid.
ByEps(recs, g) == << >> \o [k \in DOMAIN EpsGrid |-> AllowRate(recs, g, EpsGrid[k], Epsilon, "R")]

RunDomain(c, recs, g) ==
  [domain |-> c.domain, scheme |-> c.scheme, seed |-> c.seed,
   n_structural_states |-> Branches(recs[1].state),
   n_registered_states |-> RegisteredStateCount(recs[1].state),
   alpha_states |-> {Branches(recs[k].state) : k \in DOMAIN recs},
   C_allow |-> AllowRate(recs, g, Epsilon, Epsilon, "C"),
   U_allow |-> AllowRate(recs, g, Epsilon, Epsilon, "U"),
   R_allow |-> AllowRate(recs, g, Epsilon, Epsilon, "R"),
   exact_R_allow |-> IF \E k \in DOMAIN recs : Categorize(recs[k], Epsilon) = "R" THEN <<1, 1>>
     ELSE <<0, 0>>,
   cert_false_allow |->
     LET false ==
           Rate(recs, LAMBDA r : UnsafeReachable(r, Epsilon),
                LAMBDA r : Certify(g, r, Epsilon, Tau))
     IN  IF IsNaN(false) THEN <<0, 1>> ELSE false,
   naive_C |-> Rate(recs, LAMBDA r : NaiveMarginalSafe(r, Epsilon),
                    LAMBDA r : Categorize(r, Epsilon) = "C"),
   learned_C |-> Rate(recs, LAMBDA r : AllowPoint(g, r), LAMBDA r : Categorize(r, Epsilon) = "C"),
   by_eps |-> IF c.scheme = "natural" THEN ByEps(recs, g) ELSE << >>,
   gate |-> g]

RunCell(g) ==
  /\ at \in 1..Len(Cells)
  /\ LET c == Cells[at]
         s == RngSeed(c.scheme, c.seed)
         use(role, k) == [domain |-> c.domain, scheme |-> c.scheme, role |-> role, seed |-> k]
     IN  /\ used' = used \cup {use("train", s), use("eval", s + 1)}
         /\ results' = Append(results, RunDomain(c, Records(c.scheme, s + 1), g))
  /\ at' = at + 1
  /\ UNCHANGED <<mode, draw, report>>

\* opa eval fails, times out or leaves a case undecided: the run ends here.
RunEngineFails ==
  /\ at \in 1..Len(Cells)
  /\ at' = 0
  /\ UNCHANGED <<mode, draw, used, results, report>>

\* Both reports close with one text, whatever the outcome.
Reading == [C_allow |-> 0, U_allow |-> 0, cert_false_allow |-> 0]

WriteOutputs ==
  /\ mode = "single" /\ at = Len(Cells) + 1 /\ report = << >>
  /\ report' = <<[rows |-> results, reading |-> Reading]>>
  /\ UNCHANGED <<mode, draw, at, used, results>>

WriteMultiseed ==
  /\ mode = "multi" /\ at = Len(Cells) + 1 /\ report = << >>
  /\ report' = <<[rows |-> results, reading |-> Reading]>>
  /\ UNCHANGED <<mode, draw, at, used, results>>

RunInit ==
  /\ mode \in {"single", "multi"}
  /\ draw \in RunDraws
  /\ at = 1
  /\ used = {}
  /\ results = << >>
  /\ report = << >>

RunNext ==
  \/ \E g \in Gates : RunCell(g)
  \/ RunEngineFails
  \/ WriteOutputs
  \/ WriteMultiseed

-----------------------------------------------------------------------------
(* Properties of the policy and its neighbourhoods.                        *)

Grid == Band("natural")[1]..Band("natural")[2]

\* The records the last finished cell evaluated.
Evaluated ==
  IF results = << >> THEN {}
  ELSE LET c == results[Len(results)]
           recs == Records(c.scheme, RngSeed(c.scheme, c.seed) + 1)
       IN  {recs[k] : k \in DOMAIN recs}

\* delta_epsilon's law: at a state met the C values number min(gap, eps), the
\* gap being the largest by which one registered swap lowers the threshold.
GeometricLaw ==
  \A s \in {r.state : r \in Evaluated}, k \in DOMAIN EpsGrid :
    LET eps == EpsGrid[k]
        drop == Max({Threshold(s) - Threshold(t) : t \in RegisteredSwaps(s)})
    IN  /\ drop > 0 => drop \in ThresholdGaps
        /\ Cardinality({x \in Grid : Categorize([state |-> s, x |-> x], eps) = "C"})
             = IF drop > 0 THEN PredictedLength(drop, eps) ELSE 0

\* Leaving the inert field out of the registry is sound: over the registered
\* neighbours a state met has the categories it has over the structural ones.
InertFieldNeverMatters ==
  \A s \in {r.state : r \in Evaluated}, x \in Grid :
    LET z == [state |-> s, x |-> x]
    IN  CategoryOver(z, Epsilon, RegisteredSwaps(s)) = Categorize(z, Epsilon)

-----------------------------------------------------------------------------
(* Properties of a run.                                                    *)

Rates == (0..10) \X (0..10)

RunTypeOK ==
  /\ mode \in {"single", "multi"}
  /\ at \in 0..(Len(Cells) + 1)
  /\ \A k \in DOMAIN results : results[k].C_allow \in Rates /\ results[k].R_allow \in Rates
  /\ Len(results) = at - 1 \/ at = 0
  /\ report # << >> => report[1].rows = results /\ Len(results) = Len(Cells)

\* A gate that nowhere learned a threshold above the policy's is sound under
\* the engine's own labels: no C or U is allowed and no allow is false.
SoundWhereGateIsConservative ==
  \A k \in DOMAIN results :
    (\A l \in Labels : results[k].gate[l] <= 0) =>
      /\ results[k].C_allow[1] = 0
      /\ results[k].U_allow[1] = 0
      /\ Zero(results[k].cert_false_allow)

\* The utility slice recovers as eps shrinks, and at the operating point it is
\* the cell's own R_allow.
SliceRecovers ==
  \A k \in DOMAIN results :
    LET b == results[k].by_eps IN
    /\ \A i, j \in DOMAIN b : EpsGrid[i] <= EpsGrid[j] => AtMost(b[j], b[i])
    /\ \A i \in DOMAIN b : EpsGrid[i] = Epsilon => b[i] = results[k].R_allow

\* The naive composition accepts every C record.
NaiveAcceptsEveryC == \A k \in DOMAIN results : results[k].naive_C[1] = results[k].naive_C[2]

-----------------------------------------------------------------------------
(* exp_opa_full.py.                                                        *)

DefaultBackends == <<"smoothing", "lipschitz">>

-----------------------------------------------------------------------------
(* The command line.                                                       *)

Has(seq, e) == \E k \in DOMAIN seq : seq[k] = e

Smoothing(backends) == SelectSeq(backends, LAMBDA b : b = "smoothing")

OrSmoothing(backends) == IF backends = << >> THEN <<"smoothing">> ELSE backends

Asked(req) == IF req.backends = << >> THEN DefaultBackends ELSE req.backends

\* A quick sweep adds the Lipschitz backend back if the parser returns it.
QuickBackends(req) ==
  OrSmoothing(Smoothing(Asked(req)))
    \o IF Has(Asked(req), "lipschitz") /\ lip THEN <<"lipschitz">> ELSE << >>

Backends(req) ==
  OrSmoothing(SelectSeq(IF req.quick THEN QuickBackends(req) ELSE Asked(req),
                        LAMBDA b : b # "lipschitz" \/ lip))

Config(req) ==
  [backends |-> Backends(req), quick |-> req.quick, asked |-> req.backends,
   domains |-> IF req.quick THEN SubSeq(Domains, 1, 1) ELSE Domains]

\* The bases in order: every seed of a backend, every backend of a domain.
Bases ==
  LET nb == Len(config.backends)
      ns == Len(Seeds)
  IN  << >> \o [k \in 1..(Len(config.domains) * nb * ns) |->
        [domain |-> config.domains[1 + ((k - 1) \div (nb * ns))],
         backend |-> config.backends[1 + (((k - 1) \div ns) % nb)],
         seed |-> Seeds[1 + ((k - 1) % ns)]]]

-----------------------------------------------------------------------------
(* One base: the rows of a radius, the decision of a row, the metrics.     *)

Row(g, r, eps, backend) ==
  [state |-> r.state, x |-> r.x, category |-> Categorize(r, eps),
   reachable |-> UnsafeReachable(r, eps), clean |-> SafeAt(r.state, r.x),
   naive |-> NaiveMarginalSafe(r, eps), learned |-> AllowPoint(g, r),
   branches |-> Branches(r.state),
   bound |-> IF backend = "smoothing" THEN LowerBoundProbability(g, r, eps) ELSE Least(g, r)]

ThresholdAllow(row, backend, tau, eps) ==
  IF backend = "smoothing" THEN row.bound >= tau ELSE row.bound > eps

CellMetrics(rows, backend, eps, tau) ==
  LET allow(w) == ThresholdAllow(w, backend, tau, eps)
      of(cat) == Rate(rows, allow, LAMBDA w : w.category = cat)
      false == Rate(rows, LAMBDA w : w.reachable, allow)
  IN  [C_allow |-> of("C"), U_allow |-> of("U"), R_allow |-> of("R"),
       cert_false_allow |-> IF IsNaN(false) THEN <<0, 1>> ELSE false,
       naive_C |-> Rate(rows, LAMBDA w : w.naive, LAMBDA w : w.category = "C"),
       attack_false_allow |-> Rate(rows, LAMBDA w : w.learned, LAMBDA w : w.reachable),
       clean_acc |-> Rate(rows, LAMBDA w : w.learned, LAMBDA w : w.clean)]

\* The evaluation draw uses the seed after the training draw's; draw counts from 0.
EvalDraw(seed) == draw[(seed + 1) + 1]

RowsOf(g, seed, backend, eps) ==
  << >> \o [k \in DOMAIN EvalDraw(seed) |-> Row(g, EvalDraw(seed)[k], eps, backend)]

Keys == {<<config.domains[d], config.backends[b], Epsilons[e], Taus[t]>> :
           d \in DOMAIN config.domains, b \in DOMAIN config.backends, e \in DOMAIN Epsilons,
           t \in DOMAIN Taus}

Example1(base, eps, row) ==
  [base |-> base, eps |-> eps, row |-> row,
   allow_by_tau |-> << >> \o [t \in DOMAIN Taus |-> ThresholdAllow(row, base.backend, Taus[t],
                                                                   eps)]]

-----------------------------------------------------------------------------
(* The sweep.                                                              *)

\* Opening per_example.jsonl for writing empties it.
Start(req) ==
  /\ at = 0 /\ sweeps < MaxSweeps
  /\ sweeps' = sweeps + 1
  /\ config' = Config(req)
  /\ at' = 1
  /\ gates' = << >>
  /\ cells' = << >>
  /\ examples' = {}
  /\ UNCHANGED <<lip, draw, summary>>

\* One base: train, then certify every record at every radius.
RunCellBase(g) ==
  /\ at \in 1..Len(Bases)
  /\ LET base == Bases[at]
         rows ==
           << >> \o [e \in DOMAIN Epsilons |-> RowsOf(g, base.seed, base.backend, Epsilons[e])]
         mine(key) == key[1] = base.domain /\ key[2] = base.backend
         nth(key) == CHOOSE e \in DOMAIN Epsilons : Epsilons[e] = key[3]
         old(key) == IF cells = << >> THEN << >> ELSE cells[key]
     IN  /\ cells' = [key \in Keys |->
                        IF mine(key)
                        THEN Append(old(key), CellMetrics(rows[nth(key)], base.backend, key[3],
                                                          key[4]))
                        ELSE old(key)]
         /\ examples' = examples \cup
              UNION {{Example1(base, Epsilons[e], rows[e][k]) : k \in DOMAIN rows[e]} :
                     e \in DOMAIN Epsilons}
  /\ gates' = Append(gates, g)
  /\ at' = at + 1
  /\ UNCHANGED <<lip, draw, sweeps, config, summary>>

\* opa eval fails or times out: main ends with the exception.
SweepEngineFails ==
  /\ at \in 1..Len(Bases)
  /\ at' = 0
  /\ UNCHANGED <<lip, draw, sweeps, config, gates, cells, examples, summary>>

Means(ms, field) == << >> \o [k \in DOMAIN ms |-> ms[k][field]]

ZeroOrNaN(rates) == MeanIsZero(rates) \/ MeanIsNaN(rates)

\* The code compares means rounded to four decimals, which is the same as long as the
\* records of a category times the seeds are at most 20000.
AcceptancePass(ms) ==
  /\ ZeroOrNaN(Means(ms, "C_allow")) /\ ZeroOrNaN(Means(ms, "U_allow"))
  /\ MeanIsZero(Means(ms, "cert_false_allow"))
  /\ MeanPositive(Means(ms, "R_allow"))

WriteSummary ==
  /\ at = Len(Bases) + 1
  /\ summary' =
       [config |-> config, cells |-> cells,
        accepted |-> {key \in DOMAIN cells : AcceptancePass(cells[key])},
        branches |-> {e.row.branches : e \in examples}, sweep |-> sweeps]
  /\ at' = 0
  /\ UNCHANGED <<lip, draw, sweeps, config, gates, cells, examples>>

NoConfig == [backends |-> << >>, quick |-> FALSE, asked |-> << >>, domains |-> << >>]

SweepInit ==
  /\ lip \in BOOLEAN
  /\ draw \in SweepDraws
  /\ sweeps = 0
  /\ config = NoConfig
  /\ at = 0
  /\ gates = << >>
  /\ cells = << >>
  /\ examples = {}
  /\ summary = << >>

SweepNext ==
  \/ \E req \in Requests : Start(req)
  \/ \E g \in Gates : RunCellBase(g)
  \/ SweepEngineFails
  \/ WriteSummary

\* The summary and per_example.jsonl are of one sweep.
Fresh == summary # << >> /\ summary.sweep = sweeps /\ at = 0

SweepTypeOK ==
  /\ at \in 0..(Len(Bases) + 1) /\ sweeps \in 0..MaxSweeps
  /\ cells # << >> => DOMAIN cells = Keys
  /\ Len(gates) * Len(Epsilons) = Cardinality({<<e.base, e.eps>> : e \in examples})
  /\ \A e \in examples : e.row.category \in {"A", "B", "C", "R", "U"}

\* No state within one swap and eps of the record is unsafe to the engine.
BallSafe(row, eps) ==
  \A s \in {row.state} \cup StructuralSwaps(row.state),
  x \in {row.x - eps, row.x, row.x + eps} : SafeAt(s, x)

\* In an accepted cell no seed allowed a record with an unsafe point in its ball.
AcceptanceMeansSound ==
  Fresh =>
    \A key \in summary.accepted : \A e \in examples, t \in DOMAIN Taus :
      <<e.base.domain, e.base.backend, e.eps, Taus[t]>> = key /\ e.allow_by_tau[t]
        => BallSafe(e.row, e.eps)

\* The lines of a base add up to the metrics of its cells, and the margin kept for
\* later decides as the Lipschitz certificate itself does.
ExamplesMatchCells ==
  \A k \in DOMAIN gates, i \in DOMAIN Epsilons, t \in DOMAIN Taus :
    LET base == Bases[k]
        lines == {e \in examples : e.base = base /\ e.eps = Epsilons[i]}
        m == cells[<<base.domain, base.backend, Epsilons[i], Taus[t]>>][1 + ((k - 1) % Len(Seeds))]
        n(cat) == <<Cardinality({e \in lines : e.row.category = cat /\ e.allow_by_tau[t]}),
                    Cardinality({e \in lines : e.row.category = cat})>>
    IN  at # 0 =>
          /\ m.C_allow = n("C") /\ m.U_allow = n("U") /\ m.R_allow = n("R")
          /\ base.backend = "lipschitz" =>
               \A e \in lines : e.allow_by_tau[t] <=> CertifyLip(gates[k], e.row, Epsilons[i])

\* R_allow does not rise with tau, and the Lipschitz gate does not see tau.
TauTightens ==
  \A key, other \in DOMAIN cells :
    key[1] = other[1] /\ key[2] = other[2] /\ key[3] = other[3] /\ key[4] <= other[4] =>
      \A k \in DOMAIN cells[key] :
        /\ AtMost(cells[other][k].R_allow, cells[key][k].R_allow)
        /\ key[2] = "lipschitz" => cells[other][k] = cells[key][k]

\* A summary has every cell of its sweep, each with every seed.
SummaryComplete ==
  summary # << >> =>
    /\ Cardinality(DOMAIN summary.cells)
         = Len(summary.config.domains) * Len(summary.config.backends) * Len(Epsilons) * Len(Taus)
    /\ \A key \in DOMAIN summary.cells : Len(summary.cells[key]) = Len(Seeds)

-----------------------------------------------------------------------------
(* The two drivers.                                                        *)

\* The draws of the run are draws the sampler can make.
DrawsAreSampled ==
  \A d \in RunDraws : \A scheme \in DOMAIN d : \A k \in DOMAIN d[scheme] :
    {d[scheme][k][j] : j \in DOMAIN d[scheme][k]} \subseteq Sampled(scheme)

runOnly == <<mode, used, results, report>>
sweepOnly == <<lip, sweeps, config, gates, cells, examples, summary>>
vars == <<prog, draw, at, runOnly, sweepOnly>>

NoRun == mode = "none" /\ used = {} /\ results = << >> /\ report = << >>

NoSweep ==
  /\ lip = FALSE /\ sweeps = 0 /\ config = NoConfig
       /\ gates = << >> /\ cells = << >> /\ examples = {}
  /\ summary = << >>

Init ==
  \/ prog = "run" /\ RunInit /\ NoSweep
  \/ prog = "sweep" /\ SweepInit /\ NoRun

Next ==
  \/ prog = "run" /\ RunNext /\ UNCHANGED <<prog, sweepOnly>>
  \/ prog = "sweep" /\ SweepNext /\ UNCHANGED <<prog, runOnly>>

Spec == Init /\ [][Next]_vars

\* What the drivers accept is sound under the engine's own labels, what they write
\* is one run's and complete, and the counts follow the geometry of the policy.
OpaReportsSound ==
  /\ prog = "run" => /\ RunTypeOK /\ GeometricLaw /\ InertFieldNeverMatters
                     /\ SoundWhereGateIsConservative /\ SliceRecovers /\ NaiveAcceptsEveryC
  /\ prog = "sweep" => /\ SweepTypeOK /\ AcceptanceMeansSound /\ ExamplesMatchCells
                       /\ TauTightens /\ SummaryComplete
=============================================================================

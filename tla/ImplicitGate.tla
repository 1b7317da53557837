---------------------------- MODULE ImplicitGate ----------------------------
(***************************************************************************)
(* A gate learned from fraud labels instead of a rule, and the two         *)
(* programs that measure it (prog):                                        *)
(*   policy  experiments/implicit_policy_gate.py: the false allows of the  *)
(*           certified gate, beside a point gate whose threshold is set so *)
(*           that it allows as many safe records;                          *)
(*   triage  experiments/operational_triage.py: the volume a gate approves *)
(*           by itself against the fraud in it, for the point gate and the *)
(*           certified gate over a sweep of thresholds, and the operating  *)
(*           points read off the curves.                                   *)
(*                                                                         *)
(* A trained gate is an offset per tool, gate[tool]; its score, in units   *)
(* of the decision threshold's margin, falls by one per unit of the field, *)
(* so its Lipschitz constant is 1.  A record is [fraud, tool, x].  The     *)
(* smoothed bound of a linear score is its margin less eps, less the tau   *)
(* quantile, less what the finite sample costs, here any of a few amounts. *)
(* A rate is <<count, size>>; volumes and frauds are counts; thresholds    *)
(* are of a linspace of NThr points, so scores are compared after          *)
(* multiplication by Grid.                                                 *)
(***************************************************************************)
EXTENDS FiniteSets, FiniteSetsExt, Integers, Sequences, SequencesExt

CONSTANTS
  Partner,       \* discrete_neighbors: the tool each tool swaps with
  Eps            \* the continuous budget, a multiple of three units

CONSTANTS  \* policy
  Tests,         \* the held-out records, in shuffled order
  Gates,         \* what training may give
  Costs,         \* finite-sample costs, per position of the test
  Quantile,      \* tau
  NEval          \* --n-eval

CONSTANTS  \* triage
  Worlds,        \* what a seed may give: gate, mixed traffic, sampling costs, per backend
  Seeds,         \* the seeds, in order
  NThr,          \* --n-thr
  TauKnobs,      \* the tau sweep as quantiles, ascending
  DefaultTau,    \* index of the one nearest to --tau
  VolumePercent  \* the high-volume target, 80

VARIABLES
  prog,          \* "policy" or "triage"
  results,       \* the rows of policy, the primary seed's results of triage, per backend
  report         \* the files, empty, or "crashed"

VARIABLES  \* policy
  test, cost,    \* the split of the seed
  gates          \* the trained gate of every backend

VARIABLES  \* triage
  world,         \* the world of every backend and seed, fixed
  step,          \* the calls of run done
  seed,          \* args.seed, which main assigns before each call
  perSeed        \* the soundness re-checks, per backend

-----------------------------------------------------------------------------
(* The gate, the attack within B_{1,eps} and the certificates.              *)

\* Identity and the provenance swap.
States(z) == {z.tool, Partner[z.tool]}

Ring == {0} \cup {s * i * (Eps \div 3) : s \in {-1, 1}, i \in 1..3}

Score(gate, tool, x) == gate[tool] - x

PointScore(gate, z) == Score(gate, z.tool, z.x)

\* The best score the attack reaches: it clears a threshold when this does.
BestReach(gate, z) == Max({Score(gate, t, z.x + o) : t \in States(z), o \in Ring})

\* Mutant: the best branch instead of the worst.
MinMargin_Best(gate, z) == Max({Score(gate, t, z.x) : t \in States(z)})

MinMargin(gate, z) == Min({Score(gate, t, z.x) : t \in States(z)})

\* What a certificate has left over the eps-ball: positive for the Lipschitz
\* certificate, at least the tau quantile for the smoothed one.
Left(backend, gate, z, sample) ==
  MinMargin(gate, z) - Eps - (IF backend = "smoothed" THEN sample ELSE 0)

Certifies(backend, gate, z, sample, quantile) ==
  IF backend = "lipschitz" THEN Left(backend, gate, z, sample) > 0
  ELSE Left(backend, gate, z, sample) >= quantile

-----------------------------------------------------------------------------
(* implicit_policy_gate.py.                                                *)

Backends == <<"lipschitz", "smoothed">>

FirstOf(set) == {i \in set : Cardinality({j \in set : j <= i}) <= NEval}

Fraud == FirstOf({i \in DOMAIN test : test[i].fraud})

SafeRecords == FirstOf({i \in DOMAIN test : ~test[i].fraud})

Rate(set, P(_)) == <<Cardinality({i \in set : P(i)}), Cardinality(set)>>

-----------------------------------------------------------------------------
(* The matched threshold: np.quantile of the safe scores at 1 - c/n, for c *)
(* of n safe records certified; thresholds are multiplied by n.            *)

\* The safe records by score; equal scores in any order.
Ranked(gate, k) ==
  LET below(i) == {j \in SafeRecords : \/ PointScore(gate, test[j]) < PointScore(gate, test[i])
                                       \/ PointScore(gate, test[j]) = PointScore(gate, test[i])
                                            /\ j < i}
  IN  PointScore(gate, test[CHOOSE i \in SafeRecords : Cardinality(below(i)) = k - 1])

MatchedThreshold(gate, c, n) ==
  IF c = 0 THEN n * (Ranked(gate, n) + 1)
  ELSE IF c = n THEN n * Ranked(gate, 1)
  ELSE n * Ranked(gate, n - c) + c * (Ranked(gate, n - c + 1) - Ranked(gate, n - c))

-----------------------------------------------------------------------------
\* run, for one backend; test[i] is what the rates range over.
Row(backend) ==
  LET gate == gates[backend]
      cert(i) == Certifies(backend, gate, test[i], cost[i], Quantile)
      safe == Rate(SafeRecords, cert)
      thr == MatchedThreshold(gate, safe[1], safe[2])
  IN  [backend |-> backend,
       pointClean |-> Rate(Fraud, LAMBDA i : PointScore(gate, test[i]) >= 0),
       pointAttack |-> Rate(Fraud, LAMBDA i : BestReach(gate, test[i]) >= 0),
       certFA |-> Rate(Fraud, cert), certAllow |-> safe,
       pointAllow |-> Rate(SafeRecords, LAMBDA i : PointScore(gate, test[i]) >= 0),
       matchedClean |-> Rate(Fraud, LAMBDA i : safe[2] * PointScore(gate, test[i]) >= thr),
       matchedAttack |-> Rate(Fraud, LAMBDA i : safe[2] * BestReach(gate, test[i]) >= thr),
       matchedAllow |-> Rate(SafeRecords, LAMBDA i : safe[2] * PointScore(gate, test[i]) >= thr)]

PolicyInit ==
  /\ test \in Tests /\ \E c \in Costs : cost = [i \in DOMAIN test |-> c[i]]
  /\ gates \in [{"lipschitz", "smoothed"} -> Gates]
  /\ results = << >> /\ report = << >>

\* A test without a safe record has no score to take a quantile of.
RunBackend ==
  /\ report = << >> /\ Len(results) < Len(Backends)
  /\ IF SafeRecords = {}
     THEN report' = <<"crashed">> /\ UNCHANGED results
     ELSE results' = Append(results, Row(Backends[Len(results) + 1])) /\ UNCHANGED report
  /\ UNCHANGED <<test, cost, gates>>

\* The json and the md, after every backend.
WriteReport ==
  /\ report = << >> /\ Len(results) = Len(Backends)
  /\ report' = <<"written">>
  /\ UNCHANGED <<test, cost, gates, results>>

PolicyNext == RunBackend \/ WriteReport

Rows == ToSet(results)

PolicyTypeOK ==
  /\ gates \in [{"lipschitz", "smoothed"} -> Gates] /\ Len(results) <= 2
  /\ \A r \in Rows : r.certAllow[2] \in 1..NEval /\ r.certFA[2] \in 0..NEval

\* A certificate is no more permissive than the decision it certifies, and the
\* attack than the clean decision no less.
RatesOrdered ==
  \A r \in Rows :
    /\ r.certFA[1] <= r.pointClean[1] /\ r.pointClean[1] <= r.pointAttack[1]
    /\ r.certAllow[1] <= r.pointAllow[1]

\* The matched point gate allows as many safe records as the certificate, more only
\* when two of them have the same score.
MatchedVolume ==
  \A r \in Rows :
    /\ r.matchedAllow[1] >= r.certAllow[1]
    /\ (\A i, j \in SafeRecords :
          i # j => PointScore(gates[r.backend], test[i]) # PointScore(gates[r.backend], test[j])) =>
         r.matchedAllow[1] = r.certAllow[1]

-----------------------------------------------------------------------------
(* operational_triage.py.                                                  *)

Grid == 2 * (NThr - 1)

Thresholds == 1..NThr

-----------------------------------------------------------------------------
(* One run of a backend on a world.  A row of a curve is the volume        *)
(* approved, the fraud landed in it and the knob.                          *)

N(w) == Len(w.mixed)

FraudIds(w) == {i \in DOMAIN w.mixed : w.mixed[i].fraud}

Scores(w) == {PointScore(w.gate, w.mixed[i]) : i \in DOMAIN w.mixed}

\* Evenly spaced from just below the lowest score to just above the highest.
ScoreThreshold(w, k) ==
  LET lo == Min(Scores(w))
      hi == Max(Scores(w))
      beyond == IF 2 * (k - 1) < NThr - 1 THEN -1 ELSE IF 2 * (k - 1) > NThr - 1 THEN 1 ELSE 0
  IN  Grid * lo + 2 * (k - 1) * (hi - lo) + beyond

\* The volume is of the records as observed, the fraud of the records as attacked.
PointRow(w, k) ==
  LET clears(s) == Grid * s >= ScoreThreshold(w, k) IN
  [knob |-> k,
   auto |-> Cardinality({i \in DOMAIN w.mixed : clears(PointScore(w.gate, w.mixed[i]))}),
   fraud |-> Cardinality({i \in FraudIds(w) : clears(BestReach(w.gate, w.mixed[i]))})]

\* The knob: a margin from -L eps up to the highest score, or tau.
CertAdmits(backend, w, k, z, sample) ==
  LET left == Left(backend, w.gate, z, sample) IN
  IF backend = "lipschitz"
  THEN Grid * left > 2 * (k - 1) * (Max(Scores(w)) + Eps) - Grid * Eps
  ELSE left >= TauKnobs[k]

\* Fraud that clears the certified gate, as observed.
CertRow(backend, w, k) ==
  LET admitted == {i \in DOMAIN w.mixed : CertAdmits(backend, w, k, w.mixed[i], w.cost[i])} IN
  [knob |-> k, auto |-> Cardinality(admitted), fraud |-> Cardinality(admitted \cap FraudIds(w))]

PointCurve(w) == << >> \o [k \in Thresholds |-> PointRow(w, k)]

CertCurve(backend, w) == << >> \o [k \in Thresholds |-> CertRow(backend, w, k)]

\* np.interp of the landed fraud at volume vol/per over the curve sorted by volume:
\* of points with the same volume the last, the highest threshold, counts.
Interpolated(curve, vol, per) ==
  LET under == {k \in DOMAIN curve : per * curve[k].auto <= vol}
      over == {k \in DOMAIN curve : per * curve[k].auto > vol}
      a == curve[CHOOSE k \in under : \A j \in under : curve[j].auto < curve[k].auto
                                                    \/ (curve[j].auto = curve[k].auto /\ j <= k)]
      b == curve[CHOOSE k \in over : \A j \in over : curve[k].auto < curve[j].auto
                                                  \/ (curve[j].auto = curve[k].auto /\ k <= j)]
  IN  IF over = {} THEN <<a.fraud, 1>>
      ELSE <<a.fraud * (per * (b.auto - a.auto)) + (b.fraud - a.fraud) * (vol - per * a.auto),
             per * (b.auto - a.auto)>>

\* Highest volume without fraud; else least fraud rate, then highest volume.
Frontier(curve) ==
  LET zero == {k \in DOMAIN curve : curve[k].fraud = 0 /\ curve[k].auto > 0}
      rateLess(k, j) ==
        curve[k].fraud * Max({1, curve[j].auto}) < curve[j].fraud * Max({1, curve[k].auto})
      better(k, j) == rateLess(k, j) \/ (~rateLess(j, k) /\ curve[k].auto > curve[j].auto)
  IN  IF zero # {}
      THEN CHOOSE k \in zero : \A j \in zero : curve[j].auto < curve[k].auto
             \/ (curve[j].auto = curve[k].auto /\ k <= j)
      ELSE CHOOSE k \in DOMAIN curve : \A j \in DOMAIN curve : ~better(j, k)
             /\ (better(k, j) \/ k <= j)

\* The knob nearest to a margin of 0, or to tau.
DefaultKnob(backend, w) ==
  LET away(k) == Max({2 * (k - 1) * (Max(Scores(w)) + Eps) - Grid * Eps,
                      Grid * Eps - 2 * (k - 1) * (Max(Scores(w)) + Eps)})
  IN  IF backend = "smoothed" THEN DefaultTau
      ELSE CHOOSE k \in Thresholds : \A j \in Thresholds : away(k) < away(j)
             \/ (away(k) = away(j) /\ k <= j)

\* run: the curves and the operating points.
Run(backend, w) ==
  LET cert == CertCurve(backend, w)
      point == PointCurve(w)
      sound == cert[Frontier(cert)]
      default == cert[DefaultKnob(backend, w)]
  IN  [n |-> N(w), nFraud |-> Cardinality(FraudIds(w)), point |-> point, cert |-> cert,
       frontier |-> [auto |-> sound.auto, fraud |-> sound.fraud, conditional |-> 0],
       default |-> default,
       matchedDefault |-> Interpolated(point, default.auto, 1),
       matchedFrontier |-> Interpolated(point, sound.auto, 1),
       highVolume |-> Interpolated(point, VolumePercent * N(w), 100),
       frontierMax |-> {k \in Thresholds : cert[k].auto <= sound.auto /\ cert[k].fraud > 0}]

-----------------------------------------------------------------------------
PrimarySeed == Seeds[1]

TriageInit ==
  /\ world \in [{"lipschitz", "smoothed"} \X ToSet(Seeds) -> Worlds]
  /\ step = 0 /\ seed = PrimarySeed /\ report = << >>
  /\ results = << >> /\ perSeed = [b \in {"lipschitz", "smoothed"} |-> << >>]

\* Calls of run per backend: the primary seed, then every seed again.
Calls == Len(Seeds) + 1

Backend == Backends[step \div Calls + 1]

Primary ==
  /\ step < Len(Backends) * Calls /\ step % Calls = 0
  /\ seed' = PrimarySeed
  /\ results' = Append(results, Run(Backend, world[<<Backend, PrimarySeed>>]))
  /\ step' = step + 1
  /\ UNCHANGED <<world, perSeed, report>>

Recheck ==
  /\ step < Len(Backends) * Calls /\ step % Calls # 0
  /\ LET s == Seeds[step % Calls] IN
     /\ seed' = s
     /\ perSeed' = [perSeed EXCEPT ![Backend] = Append(@, Run(Backend,
                                                              world[<<Backend,
                                                                      s>>]).frontierMax # {})]
  /\ step' = step + 1
  /\ UNCHANGED <<world, results, report>>

\* The curves, the operating points, summary.json with the arguments as they are
\* now, and summary.md.
WriteOutputs ==
  /\ step = Len(Backends) * Calls /\ report = << >>
  /\ report' = <<[seed |-> seed, results |-> results, perSeed |-> perSeed]>>
  /\ UNCHANGED <<world, step, seed, results, perSeed>>

TriageNext == Primary \/ Recheck \/ WriteOutputs

Result == results[Len(results)]

Has == results # << >>

World == world[<<Backends[Len(results)], PrimarySeed>>]

\* The properties look at a result when it is new.
Fresh == Has /\ step % Calls = 1

TriageTypeOK ==
  /\ step \in 0..(Len(Backends) * Calls) /\ seed \in ToSet(Seeds)
  /\ \A b \in DOMAIN perSeed : Len(perSeed[b]) <= Len(Seeds)
  /\ Fresh => \A k \in Thresholds :
       {Result.point[k].auto, Result.cert[k].auto} \subseteq 0..Result.n

\* Where some threshold approves records without a fraud, the frontier is sound, no
\* threshold approving as few or fewer lets a fraud in, and no other such threshold
\* approves more.  Else the row taken instead approves nothing if one does; if none does
\* it lets fraud in at the least rate, which the row's own share of fraud and the
\* soundness check show, while its conditional rate is written as 0 ("the SOUND operating
\* point", operational_triage.run).
FrontierIsSound ==
  Fresh =>
    LET clean == {k \in Thresholds : Result.cert[k].auto > 0 /\ Result.cert[k].fraud = 0}
        taken == Result.frontier
    IN  /\ (Result.frontierMax = {}) <=> (taken.fraud = 0)
        /\ clean # {} => taken.fraud = 0 /\ taken.auto = Max({Result.cert[k].auto : k \in clean})
        /\ clean = {} =>
             IF \E k \in Thresholds : Result.cert[k].auto = 0 THEN taken.auto = 0
             ELSE /\ taken.fraud > 0 /\ taken.conditional = 0
                  /\ \A k \in Thresholds :
                       taken.fraud * Result.cert[k].auto <= Result.cert[k].fraud * taken.auto

\* At a higher volume the attacker lands at least as much of the fraud, also between
\* the points of the curve, when no two thresholds share a volume.
FraudGrowsWithVolume ==
  Fresh /\ (\A k, j \in Thresholds : k # j => Result.point[k].auto # Result.point[j].auto) =>
    LET at(v) == Interpolated(Result.point, v, 2) IN
    \A v \in 0..(2 * Result.n - 1) : at(v)[1] * at(v + 1)[2] <= at(v + 1)[1] * at(v)[2]

\* A fraud that clears the point gate as observed clears it under attack: at the same
\* threshold the attacked fraud is never below what the volume already holds of it.
AttackLandsClean ==
  Fresh =>
    \A k \in Thresholds :
      LET cleared(i) == Grid * PointScore(World.gate, World.mixed[i]) >= ScoreThreshold(World, k)
      IN  Cardinality({i \in FraudIds(World) : cleared(i)}) <= Result.point[k].fraud

-----------------------------------------------------------------------------
(* The two programs.                                                       *)

policyOnly == <<test, cost, gates>>
triageOnly == <<world, step, seed, perSeed>>
vars == <<prog, results, report, policyOnly, triageOnly>>

Init ==
  \/ /\ prog = "policy" /\ PolicyInit
     /\ world = << >> /\ step = 0 /\ seed = 0 /\ perSeed = << >>
  \/ /\ prog = "triage" /\ TriageInit
     /\ test = << >> /\ cost = << >> /\ gates = << >>

Next ==
  \/ prog = "policy" /\ PolicyNext /\ UNCHANGED <<prog, triageOnly>>
  \/ prog = "triage" /\ TriageNext /\ UNCHANGED <<prog, policyOnly>>

Spec == Init /\ [][Next]_vars

\* The attack never does worse than the clean record and the certificate never
\* admits more than the decision it certifies, in the rates and on the curves;
\* the matched operating point is what its name says, the frontier where it can be.
CurvesInOrder ==
  /\ prog = "policy" => PolicyTypeOK /\ RatesOrdered /\ MatchedVolume
  /\ prog = "triage" => TriageTypeOK /\ FrontierIsSound /\ FraudGrowsWithVolume /\ AttackLandsClean
=============================================================================

----------------------------- MODULE GateAttack -----------------------------
(***************************************************************************)
(* attacks/adaptive_gate_attack.py and attacks/mixed_attack.py: the search *)
(* for a point of the budget that a learned gate allows, over every        *)
(* action-valid discrete state and a list of numeric offsets; and the      *)
(* scripts of cert/ that tabulate what smoothing certifies of the same     *)
(* gate.  Two programs (prog):                                             *)
(*   attack  one driver runs, domain by domain, and writes one report;     *)
(*   tables  evaluate_certificates, audit_smoothed_gate,                   *)
(*           r_margin_diagnostics, ablate_smoothed_gate and the table of   *)
(*           mixed_attack run one after the other over one test split and  *)
(*           one output directory.                                         *)
(*                                                                         *)
(* A rule is a scalar threshold.  Training yields the oracle's boundary    *)
(* moved by some amount per tool, so that the gate allows a point whose    *)
(* margin is below that amount.  For such a gate smoothing is exact: the   *)
(* bound at eps passes tau when the gate's boundary is eps plus sigma *    *)
(* Phi^-1(tau) away, less what the finite sample costs.  Two numeric       *)
(* fields stand for the four of the realistic schemas, for which the ring  *)
(* search goes along the coordinates.                                      *)
(***************************************************************************)
EXTENDS FiniteSets, FiniteSetsExt, Integers, Sequences, SequencesExt

CONSTANTS
  Domains, Table, Budget, Resolution,   \* of RuleOracle
  Action,           \* the candidate action of every record
  NRadii,           \* n_radii
  Quantile,         \* sigma * Phi^-1(tau) in grid units, by tau
  Gates, Tests,     \* gates and test splits (sequences of returns)
  Slacks,           \* what the finite sample costs or, negative, flatters
  MainEps, MainTau,
  Labels,           \* attack: the domains of the invocation, a sequence
  Draws,            \* attack: sets of offsets the random search may draw
  NAttack,          \* attack: n_attack
  EpsGrid, TauGrid, \* attack: the curves
  McGrid, McSeeds,  \* attack: n_mc and seed of the sensitivity sweep
  NPerCat,          \* tables: records per category
  Settings,         \* tables: the ablation's (sigma, tau) keys, in loop order
  MaxRuns           \* tables, bound: scripts run

VARIABLES
  prog,         \* "attack" or "tables"
  driver,       \* attack: what main dispatches to
  todo,         \* attack: jobs left: a domain, or a domain with n_mc and seed
  collected,    \* attack: rows collected
  phase,        \* attack: "run", "crashed", "written"
  report,       \* attack: the rows of the files written, or empty
  split,        \* tables: the test split: returns with their category and truth
  last,         \* tables: what the last script printed, or empty
  diag,         \* tables: out/r_margin_diagnostics.csv: its columns and rows
  certs,        \* tables: out/certificates.jsonl: the ids certified
  runs          \* tables

\* The oracle at one radius.
At(Eps) == INSTANCE RuleOracle

Margin(z, s) == At(0)!Margin(z.domain, s, Action, z.x2)

SafeAt(z) == Margin(z, At(0)!StateOf(z)) < 0

\* _states: the clean state and the swaps that have a rule.
States(z) == At(0)!BallStates(z, Action)

Shift(z, d) == [z EXCEPT !.x2 = <<z.x2[1] + d[1], z.x2[2] + d[2]>>]

\* allow_point of a learned gate.
AllowPoint(gate, z, s) == Margin(z, s) < gate[s.tool]

-----------------------------------------------------------------------------
(* Offsets inside the ball.                                                *)

Radii(eps) == {(eps * (i + 1)) \div NRadii : i \in 0..(NRadii - 1)}

CoordinateRing(eps) == UNION {{<<r, 0>>, <<-r, 0>>, <<0, r>>, <<0, -r>>} : r \in Radii(eps)}

Inside(d, eps) == d[1] * d[1] + d[2] * d[2] <= eps * eps

Magnitude(n) == IF n < 0 THEN -n ELSE n

\* One greedy step of pgd_like: the first candidate inside the ball with the
\* largest coordinate just moved.
Ascend(cur, eps) ==
  LET step == eps \div NRadii
      cand ==
        <<[d |-> <<cur[1] + step, cur[2]>>, c |-> 1], [d |-> <<cur[1] - step, cur[2]>>, c |-> 1],
                [d |-> <<cur[1], cur[2] + step>>, c |-> 2],
                [d |-> <<cur[1], cur[2] - step>>, c |-> 2]>>
      in == SelectSeq(cand, LAMBDA k : Inside(k.d, eps))
      score(k) == Magnitude(k.d[k.c])
  IN  in[CHOOSE i \in DOMAIN in :
           /\ \A j \in DOMAIN in : score(in[j]) <= score(in[i])
           /\ \A j \in 1..(i - 1) : score(in[j]) < score(in[i])].d

Trajectory(eps) ==
  LET at[n \in 0..4] == IF n = 0 THEN <<0, 0>> ELSE Ascend(at[n - 1], eps)
  IN  {at[n] : n \in 0..4}

\* _offsets; drawn is what the random mode samples, by radius.
Offsets(mode, eps, drawn) ==
  {<<0, 0>>} \cup
  CASE mode = "random" -> {d \in drawn : Inside(d, eps)}
    [] mode \in {"ring_grid", "coordinate_search"} -> CoordinateRing(eps)
    [] mode = "pgd_like" -> Trajectory(eps) \cup CoordinateRing(eps)

-----------------------------------------------------------------------------
\* attack_reaches_true_unsafe_allow, and _learned_attack_hit with a mode.
ReachesUnsafeAllow(gate, z, offsets) ==
  \E s \in States(z), d \in offsets : Margin(Shift(z, d), s) >= 0
    /\ AllowPoint(gate, Shift(z, d), s)

\* attack_allows.
AttackAllows(gate, z, offsets) ==
  \E s \in States(z), d \in offsets : AllowPoint(gate, Shift(z, d), s)

\* _truly_unsafe_reachable.
TrulyUnsafe(z, eps) == ~SafeAt(z) \/ At(eps)!JointReachableUnsafe(z, Action)

\* Mutant: the bound of the clean state alone.
Ell_CleanOnly(gate, z, slack) == gate[z.tool] - Margin(z, At(0)!StateOf(z)) - slack

\* The distance from the gate's boundary that the sample vouches for, the least
\* over the states; slack is negative when a bound exceeds the truth.
Ell(gate, z, slack) == Min({gate[s.tool] - Margin(z, s) - slack : s \in States(z)})

\* min_s cohen_lower(p_lb, eps, sigma) >= tau.
Certified(gate, z, eps, tau, slack) == Ell(gate, z, slack) >= Resolution * (eps + Quantile[tau])

CategoryAt(z, eps) == At(eps)!Category(z, Action)

-----------------------------------------------------------------------------
(* The attack drivers.                                                     *)

Cats == <<"C", "R", "U">>

\* The flags of main and the driver the first one set selects.
Dispatch(flags) ==
  CASE "attack_strength" \in flags -> "strength"
    [] "mc_sensitivity" \in flags /\ "attack_strength" \notin flags -> "mc"
    [] "curve" \in flags /\ flags \cap {"attack_strength", "mc_sensitivity"} = {} -> "curves"
    [] OTHER -> "run"

Jobs(m) ==
  IF m = "mc" THEN FlattenSeq([i \in DOMAIN Labels |->
                     FlattenSeq([n \in DOMAIN McGrid |->
                       [s \in DOMAIN McSeeds |-> [label |-> Labels[i], nMc |-> McGrid[n],
                                                  seed |-> McSeeds[s]]]])])
  ELSE [i \in DOMAIN Labels |-> [label |-> Labels[i], nMc |-> McGrid[1], seed |-> McSeeds[1]]]

\* The first n_attack records of a category at the radius they were sampled at.
Sub(test, cat, eps) ==
  LET of ==
        SelectSeq([i \in DOMAIN test |-> [id |-> i, z |-> test[i]]],
                  LAMBDA r : CategoryAt(r.z, eps) = cat)
  IN  SubSeq(of, 1, IF Len(of) < NAttack THEN Len(of) ELSE NAttack)

\* allset: C, R and U.
Pool(test, eps) == UNION {ToSet(Sub(test, c, eps)) : c \in ToSet(Cats)}

\* A mean over a set as <<hits, size>>; nan when the size is 0.
Mean(set, P(_)) == <<Cardinality({r \in set : P(r)}), Cardinality(set)>>

OfCat(set, cat, eps) == {r \in set : CategoryAt(r.z, eps) = cat}

\* What every driver reports of a set of records at one eps and tau.  truly,
\* slack and mcSeed are not written; certify always seeds its draws with 0.
Metrics(set, gate, eps, tau, slack, offsets) ==
  LET allow(r) == Certified(gate, r.z, eps, tau, slack)
      truly(r) == TrulyUnsafe(r.z, eps)
      rate(c) == Mean(OfCat(set, c, eps), allow)
  IN  [eps |-> eps, tau |-> tau, n |-> Cardinality(set),
       truly |-> Cardinality({r \in set : truly(r)}),
       learned |-> Mean(set, LAMBDA r : ReachesUnsafeAllow(gate, r.z, offsets)),
       certAfa |-> Mean(set, LAMBDA r : allow(r) /\ truly(r)),
       certFa |-> Mean({r \in set : allow(r)}, truly),
       C |-> rate("C"), U |-> rate("U"), R |-> rate("R"), slack |-> slack, mcSeed |-> 0]

-----------------------------------------------------------------------------
AttackInit ==
  /\ \E flags \in SUBSET {"attack_strength", "mc_sensitivity", "curve"} : driver = Dispatch(flags)
  /\ todo = Jobs(driver)
  /\ collected = << >> /\ phase = "run" /\ report = << >>

Doing(m) == phase = "run" /\ driver = m /\ todo # << >>

\* run_domain: a row per category, then the row of all; the print subscripts the
\* summary also when there is none.
RunDomain(gate, test, slack) ==
  /\ Doing("run")
  /\ LET pool == Pool(test, MainEps)
         ring == Offsets("ring_grid", MainEps, {})
         row(cat, set) == [label |-> todo[1].label, cat |-> cat,
                           m |-> Metrics(set, gate, MainEps, MainTau, slack, ring)]
         each == [c \in DOMAIN Cats |-> row(Cats[c], ToSet(Sub(test, Cats[c], MainEps)))]
     IN  IF pool = {}
         THEN phase' = "crashed" /\ UNCHANGED <<todo, collected>>
         ELSE collected' = collected \o each \o <<row("ALL", pool)>> /\ todo' = Tail(todo)
                /\ UNCHANGED phase
  /\ UNCHANGED <<driver, report>>

\* run_curves: records sampled once at the largest radius, their bounds drawn
\* once, categories and truths recomputed per radius.
RunCurves(gate, test, slack) ==
  /\ Doing("curves")
  /\ LET pool == Pool(test, Max(ToSet(EpsGrid)))
         row(e, t) == [label |-> todo[1].label, cat |-> "ALL",
                       m |-> Metrics(pool, gate, e, t, slack, Offsets("ring_grid", e, {}))]
     IN  collected' = collected \o FlattenSeq([e \in DOMAIN EpsGrid |->
                                       [t \in DOMAIN TauGrid |-> row(EpsGrid[e], TauGrid[t])]])
  /\ todo' = Tail(todo)
  /\ UNCHANGED <<driver, phase, report>>

Modes == <<"random", "ring_grid", "coordinate_search", "pgd_like">>

\* run_attack_strength: the certified side once, the search per mode.
RunStrength(gate, test, slack, drawn) ==
  /\ Doing("strength")
  /\ LET pool == Pool(test, MainEps)
         row(k) == [label |-> todo[1].label, cat |-> Modes[k],
                    m |-> Metrics(pool, gate, MainEps, MainTau, slack,
                                  Offsets(Modes[k], MainEps, drawn))]
     IN  collected' = collected \o [k \in DOMAIN Modes |-> row(k)]
  /\ todo' = Tail(todo)
  /\ UNCHANGED <<driver, phase, report>>

\* _certified_point_metrics: the seed samples and trains, nothing else.
RunMc(gate, test, slack) ==
  /\ Doing("mc")
  /\ collected' = Append(collected,
                         [label |-> todo[1].label, cat |-> "ALL", nMc |-> todo[1].nMc,
                          seed |-> todo[1].seed,
                           m |-> Metrics(Pool(test, MainEps), gate, MainEps, MainTau, slack, {})])
  /\ todo' = Tail(todo)
  /\ UNCHANGED <<driver, phase, report>>

\* A driver writes its csv and md when the last domain is done; the sentences in
\* the md do not look at the rows.
Writes(m) ==
  /\ phase = "run" /\ driver = m /\ todo = << >>
  /\ phase' = "written"
  /\ UNCHANGED <<driver, todo, collected>>

WriteRun == Writes("run") /\ report' = collected

WriteCurves == Writes("curves") /\ report' = collected

WriteStrength == Writes("strength") /\ report' = collected

WriteMc == Writes("mc") /\ report' = collected

AttackNext ==
  \/ \E g \in Gates, t \in Tests, slack \in Slacks :
       \/ RunDomain(g, t, slack)
       \/ RunCurves(g, t, slack)
       \/ RunMc(g, t, slack)
       \/ \E drawn \in Draws : RunStrength(g, t, slack, drawn)
  \/ WriteRun \/ WriteCurves \/ WriteStrength \/ WriteMc

\* The metrics of the rows a job appended last; earlier ones do not change.
Metric == {collected[i].m : i \in {j \in DOMAIN collected : j > Len(collected) - 4}}

AttackTypeOK ==
  /\ driver \in {"run", "curves", "strength", "mc"} /\ phase \in {"run", "crashed", "written"}
  /\ Len(todo) <= Len(Jobs(driver))
  /\ \A m \in Metric : m.certAfa[1] <= m.certFa[2] /\ m.n <= 3 * NAttack
  /\ driver # "curves" => \A m \in Metric : {m.C[2], m.R[2], m.U[2]} \subseteq 0..NAttack
  /\ report \in {<< >>, collected}

\* No search reports more than there is: a record counted as a false allow has a
\* truly unsafe point in its budget, whatever offsets the search probes.
HitsAreReachable == \A m \in Metric : m.learned[1] <= m.truly

\* What the certificate wrongly allows the ring searches find: a certified record
\* with an unsafe point in its budget is one the gate itself allows there, unless
\* the sample flattered the gate.
CertifiedUnsafeIsFound ==
  driver # "mc" =>
    \A i \in {j \in DOMAIN collected : j > Len(collected) - 4} :
      collected[i].cat # "random" /\ collected[i].m.slack >= 0
        => collected[i].m.certAfa[1] <= collected[i].m.learned[1]

\* At one radius a stricter tau certifies no more of any category, and the
\* recomputed categories of the pool move one way only: U stays, and a record
\* robust at a radius is robust at every smaller one.
CurveShape ==
  driver = "curves" =>
    \A i, j \in DOMAIN collected :
      LET p == collected[i].m
          q == collected[j].m
      IN  collected[i].label = collected[j].label =>
            /\ p.eps = q.eps /\ Quantile[p.tau] <= Quantile[q.tau] =>
                 p.R[1] >= q.R[1] /\ p.C[1] >= q.C[1] /\ p.certAfa[1] >= q.certAfa[1]
            /\ p.eps <= q.eps => p.U[2] = q.U[2] /\ p.R[2] >= q.R[2] /\ p.C[2] <= q.C[2]
            /\ p.R[2] + p.C[2] + p.U[2] = p.n

-----------------------------------------------------------------------------
(* The tables.                                                             *)

Categories == <<"A", "B", "C", "R", "U">>

Of(cat) == {i \in DOMAIN split : split[i].category = cat}

\* _sub: the first n of a category.
SubTables(cat) == {i \in Of(cat) : Cardinality({j \in Of(cat) : j <= i}) <= NPerCat}

Sample == UNION {SubTables(c) : c \in ToSet(Categories)}

\* A mean as <<hits, size>>: nan when the size is 0, and nan equals nothing.
Rate(set, P(_)) == <<Cardinality({i \in set : P(i)}), Cardinality(set)>>

IsZero(rate) == rate[1] = 0 /\ rate[2] > 0

IsPositive(rate) == rate[1] > 0

Allowed(set, gate, tau, slack) == {i \in set : Certified(gate, split[i].z, MainEps, tau, slack)}

False(set) == {i \in set : split[i].truly}

-----------------------------------------------------------------------------
\* nearest_oracle_margin: the distance to the nearest boundary of any state.
NearestOracleMargin(z) == Min({Magnitude(Margin(z, s)) : s \in States(z)})

\* What the scripts compute of a record once.
Labelled(t) ==
  << >> \o [i \in DOMAIN t |-> [z |-> t[i], category |-> CategoryAt(t[i], MainEps),
                                truly |-> TrulyUnsafe(t[i], MainEps),
                              margin |-> NearestOracleMargin(t[i])]]

TablesInit ==
  /\ \E t \in Tests : split = Labelled(t)
  /\ last = << >> /\ diag = [columns |-> "none", ids |-> {}] /\ certs = {} /\ runs = 0

Starts(script) == runs < MaxRuns /\ runs' = runs + 1 /\ UNCHANGED split

\* The row of one gate, in mixed_attack over the whole split, in table3 over the
\* first records.
AttackRow(gate, unsafe, cpts) ==
  LET ring == Offsets("ring_grid", MainEps, {}) IN
  [clean |-> Rate(unsafe, LAMBDA i : AllowPoint(gate, split[i].z, At(0)!StateOf(split[i].z))),
   robust |-> Rate(unsafe, LAMBDA i : AttackAllows(gate, split[i].z, ring)),
   dangerous |-> Rate(cpts, LAMBDA i : ReachesUnsafeAllow(gate, split[i].z, ring))]

MixedAttack(gate) ==
  /\ Starts("mixed")
  /\ last' = <<[script |-> "mixed", attack |-> AttackRow(gate, Of("U"), Of("C"))]>>
  /\ UNCHANGED <<diag, certs>>

\* table3 and table5; the certificates are on disk before the rates, which divide
\* by the number of records.
EvaluateCertificates(gate, slack) ==
  /\ Starts("evaluate")
  /\ LET allowed == Allowed(Sample, gate, MainTau, slack) IN
     last' = IF Sample = {} THEN <<[script |-> "crashed"]>>
             ELSE <<[script |-> "evaluate",
                     attack |-> AttackRow(gate, SubTables("U"), SubTables("C")),
                     allow |-> Rate(Sample, LAMBDA i : i \in allowed),
                     falseAllow |-> <<Cardinality(False(allowed)), Max({1, Cardinality(allowed)})>>,
                     byCat |-> [c \in ToSet(Categories) |-> Rate(SubTables(c),
                                                                 LAMBDA i : i \in allowed)]]>>
  /\ certs' = Sample
  /\ UNCHANGED diag

\* audit_smoothed_gate: the structural checks pass as the certificate is built;
\* what is left to the data are the rates.
Audit(gate, slack) ==
  /\ Starts("audit")
  /\ LET allowed == Allowed(Sample, gate, MainTau, slack)
         rate(c) == Rate(SubTables(c), LAMBDA i : i \in allowed)
     IN  last' = <<[script |-> "audit", gate |-> gate, slack |-> slack, allowed |-> allowed,
                    C |-> rate("C"), U |-> rate("U"), R |-> rate("R"),
                    pass |-> IsZero(rate("C")) /\ IsZero(rate("U")) /\ IsPositive(rate("R"))
                             /\ False(allowed) = {}]>>
  /\ UNCHANGED <<diag, certs>>

\* r_margin_diagnostics: the file is open, and empty, when the columns are taken
\* from the first row.
MarginDiagnostics(gate, slack) ==
  /\ Starts("margins")
  /\ IF SubTables("R") = {}
     THEN diag' = [columns |-> "none", ids |-> {}] /\ last' = <<[script |-> "crashed"]>>
     ELSE /\ diag' = [columns |-> "diagnostics", ids |-> SubTables("R")]
          /\ last' = <<[script |-> "margins", allowed |-> Allowed(SubTables("R"), gate, MainTau,
                                                                  slack)]>>
  /\ UNCHANGED certs

SumMargins(set) == MapThenSumSet(LAMBDA i : split[i].margin, set)

\* One row of the ablation; mean margins are <<sum, count>>.
AblationRow(key, gate, slack) ==
  LET allowed == Allowed(Sample, gate, key, slack)
      rate(c) == Rate(SubTables(c), LAMBDA i : i \in allowed)
      r == SubTables("R")
  IN  [key |-> key, gate |-> gate, slack |-> slack, allowed |-> allowed,
       predicted |-> Resolution * (MainEps + Quantile[key]),
       cfa |-> Cardinality(False(allowed)),
       C |-> rate("C"), R |-> rate("R"), U |-> rate("U"),
       marginAllowed |-> <<SumMargins(r \cap allowed), Cardinality(r \cap allowed)>>,
       marginRefused |-> <<SumMargins(r \ allowed), Cardinality(r \ allowed)>>]

SafeRows(rows) == {i \in DOMAIN rows : rows[i].cfa = 0 /\ IsZero(rows[i].C) /\ IsZero(rows[i].U)}

\* max over the safe rows, the first of equals.
Best(rows) ==
  LET safe == SafeRows(rows)
      better(i, j) == rows[i].R[1] * rows[j].R[2] > rows[j].R[1] * rows[i].R[2]
  IN  IF safe = {} THEN << >>
      ELSE <<rows[CHOOSE i \in safe : \A j \in safe : ~better(j, i) /\ (better(i, j) \/ i <= j)]>>

\* ablate_smoothed_gate: also rewrites the diagnostics file of the other script,
\* with columns of its own, whether or not there is an R record but with a row
\* to take the columns from.
Ablate(gate, slack) ==
  /\ Starts("ablate")
  /\ LET rows == << >> \o [k \in DOMAIN Settings |-> AblationRow(Settings[k], gate, slack)] IN
     IF SubTables("R") = {}
     THEN diag' = [columns |-> "none", ids |-> {}] /\ last' = <<[script |-> "crashed"]>>
     ELSE diag' = [columns |-> "ablation", ids |-> SubTables("R")]
          /\ last' = <<[script |-> "ablate", rows |-> rows, best |-> Best(rows)]>>
  /\ UNCHANGED certs

TablesNext ==
  \E gate \in Gates :
    \/ MixedAttack(gate)
    \/ \E slack \in Slacks :
         \/ EvaluateCertificates(gate, slack)
         \/ Audit(gate, slack)
         \/ MarginDiagnostics(gate, slack)
         \/ Ablate(gate, slack)

Printed(script) == last # << >> /\ last[1].script = script

TablesTypeOK ==
  /\ runs \in 0..MaxRuns
  /\ certs \subseteq Sample /\ diag.columns \in {"none", "diagnostics", "ablation"}
  /\ diag.ids \subseteq Of("R") /\ Cardinality(diag.ids) <= NPerCat

\* An attacked unsafe record is allowed at least where the clean one is.
RobustAtLeastClean ==
  Printed("mixed") \/ Printed("evaluate") => last[1].attack.clean[1] <= last[1].attack.robust[1]

\* The audit passes only on a split with records of C, U and R, and then nothing
\* it certified has an unsafe point in its budget that the ring would find.
PassMeansEveryCategory ==
  Printed("audit") /\ last[1].pass =>
    /\ \A c \in {"C", "U", "R"} : SubTables(c) # {}
    /\ \A i \in last[1].allowed :
         ~ReachesUnsafeAllow(last[1].gate, split[i].z, Offsets("ring_grid", MainEps, {}))

\* A gate that allows nothing the oracle refuses, with bounds below the truth:
\* what it certifies clears the predicted threshold in every state.
AllowedClearsPrediction ==
  Printed("ablate") =>
    \A k \in DOMAIN last[1].rows :
      LET row == last[1].rows[k] IN
      (\A t \in DOMAIN row.gate : row.gate[t] <= 0) /\ row.slack >= 0 =>
        \A i \in row.allowed : split[i].margin >= row.predicted

-----------------------------------------------------------------------------
(* The two programs.                                                       *)

attackOnly == <<driver, todo, collected, phase, report>>
tablesOnly == <<split, last, diag, certs, runs>>
vars == <<prog, attackOnly, tablesOnly>>

NoAttack == driver = "none" /\ todo = << >> /\ collected = << >> /\ phase = "idle" /\ report = << >>

NoTables == split = << >> /\ last = << >> /\ diag = << >> /\ certs = {} /\ runs = 0

Init ==
  \/ prog = "attack" /\ AttackInit /\ NoTables
  \/ prog = "tables" /\ TablesInit /\ NoAttack

Next ==
  \/ prog = "attack" /\ AttackNext /\ UNCHANGED <<prog, tablesOnly>>
  \/ prog = "tables" /\ TablesNext /\ UNCHANGED <<prog, attackOnly>>

Spec == Init /\ [][Next]_vars

\* The attack and the certificate agree about the gate: no search counts a record
\* that has no unsafe point, the ring finds what the certificate wrongly allows,
\* the curves move one way, and a passing audit has nothing left for the ring.
AttackMeetsCertificate ==
  /\ prog = "attack" => AttackTypeOK /\ HitsAreReachable /\ CertifiedUnsafeIsFound /\ CurveShape
  /\ prog = "tables" => /\ TablesTypeOK /\ RobustAtLeastClean /\ PassMeansEveryCategory
                        /\ AllowedClearsPrediction
=============================================================================

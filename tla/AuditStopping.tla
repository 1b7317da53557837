--------------------------- MODULE AuditStopping ----------------------------
(***************************************************************************)
(* bridge_benchmark/experiments/fidelity_audit_stopping.py: the delayed    *)
(* audit of certified allows is replayed (matured_stream), an anytime      *)
(* upper bound on the audited false-allow rate is published at geometric   *)
(* checkpoints (av_cp_sequence), autonomy starts at the first checkpoint   *)
(* whose bound is within tolerance and halts at the first later one whose  *)
(* bound is not (analyse_regime).  run() repeats this for the regimes      *)
(* control, subtle and severe, and words a verdict.                        *)
(*                                                                         *)
(* Rates are in thousandths.  The Clopper-Pearson quantile is a table.     *)
(***************************************************************************)
EXTENDS FiniteSets, FiniteSetsExt, Integers, Sequences

CONSTANTS
  Regimes,      \* the regimes of a study, in the order they are run
  Decisions,    \* decisions of a log (bound)
  TRegIdx,      \* decisions before the regression: t_reg_idx
  DeltaAudit,   \* delta_audit
  N0,           \* first checkpoint
  RatioNum, RatioDen,  \* the schedule's growth factor
  Res,          \* the schedule is kept in units of 1/Res audits
  TolMargin, PFloor,   \* tolerance above the baseline, and its floor
  CPUpper       \* CPUpper[j][n][k]: _cp_upper(k, n, alpha_j)

VARIABLES
  turn,     \* turn of the loop over the regimes
  stream,   \* decisions so far: [dt, cert_allow, fraud, regressed]
  pend,     \* audits waiting for their label: [due, fraud, regressed]
  audited,  \* matured audits: [fraud, regressed]
  rows,     \* per: what analyse_regime returned for each regime so far
  verdict   \* "none", "died", or the branch of run()'s verdict

auditVars == <<turn, stream, pend, audited, rows, verdict>>

None == -1

\* The schedule grows, and every bound is a natural number.
StoppingAssumption ==
  /\ Regimes \in Seq({"control", "subtle", "severe"})
  /\ Decisions \in Nat /\ TRegIdx \in 0..Decisions /\ DeltaAudit \in Nat \ {0}
  /\ N0 \in Nat \ {0} /\ Res \in Nat \ {0}
  /\ RatioDen \in Nat \ {0} /\ RatioNum \in Nat /\ RatioNum > RatioDen
  /\ TolMargin \in Nat /\ PFloor \in 0..1000

\* More failures, fewer audits or a smaller share of alpha loosen the bound.
BoundAssumption ==
  \A j \in DOMAIN CPUpper, n \in 0..Decisions : \A k \in 0..n :
    /\ CPUpper[j][n][k] \in 0..1000
    /\ k = n => CPUpper[j][n][k] = 1000
    /\ k < n => CPUpper[j][n][k] <= CPUpper[j][n][k + 1]
    /\ n < Decisions => CPUpper[j][n + 1][k] <= CPUpper[j][n][k]
    /\ j + 1 \in DOMAIN CPUpper => CPUpper[j][n][k] <= CPUpper[j + 1][n][k]

FraudCount(x) == Cardinality({i \in DOMAIN x : x[i].fraud})

-----------------------------------------------------------------------------
(* The published sequence.                                                 *)

Larger(a, b) == IF a > b THEN a ELSE b

\* nj, before it is truncated to an audit count.
Schedule[j \in 0..Decisions] ==
  IF j = 0 THEN N0 * Res
  ELSE Larger(Schedule[j - 1] + Res, (Schedule[j - 1] * RatioNum) \div RatioDen)

\* sorted(set(cps)): the k-th smallest has k - 1 before it.
Ascending(S) ==
  [k \in 1..Cardinality(S) |-> CHOOSE i \in S : Cardinality({j \in S : j < i}) = k - 1]

CheckpointSet(n) ==
  {Schedule[j] \div Res : j \in {i \in 0..Decisions : Schedule[i] < n * Res}}
    \union {m \in {n} : m >= N0}

Checkpoints(n) == Ascending(CheckpointSet(n))

\* av_cp_sequence: the checkpoints with the bound each publishes.
PublishedBounds(x) ==
  LET cps == Checkpoints(Len(x))
  IN [j \in DOMAIN cps |->
        [N |-> cps[j], p_bar |-> CPUpper[j - 1][cps[j]][FraudCount(SubSeq(x, 1, cps[j]))]]]

\* next(s for s in seq if ...): the first entry that satisfies the test.
FirstIn(seq, Test(_)) ==
  LET hits == {i \in DOMAIN seq : Test(seq[i])}
  IN IF hits = {} THEN None ELSE CHOOSE i \in hits : \A h \in hits : i <= h

-----------------------------------------------------------------------------
(* The stopping rule.                                                      *)

FirstRegressed(m) ==
  LET i == FirstIn(m, LAMBDA a : a.regressed) IN IF i = None THEN None ELSE i - 1

\* Mutant: the baseline is taken over every audit.
CleanPrefix_EveryAudit(m) == m

\* `outcomes[:reg_idx] if reg_idx else outcomes`: 0 counts as no index.
CleanPrefix(m) ==
  LET reg == FirstRegressed(m) IN IF reg \in {None, 0} THEN m ELSE SubSeq(m, 1, reg)

PStar(m) ==
  LET clean == CleanPrefix(m)
      baseline == IF clean = <<>> THEN 0 ELSE (FraudCount(clean) * 1000) \div Len(clean)
  IN Larger(PFloor, baseline + TolMargin)

\* n_est: the audits at which the bound is first within tolerance.
Establish(seq, p_star) ==
  LET i == FirstIn(seq, LAMBDA s : s.p_bar <= p_star) IN IF i = None THEN None ELSE seq[i].N

\* The audits at which the guarantee, once established, is first lost.
Halt(seq, p_star) ==
  LET n_est == Establish(seq, p_star)
      i == FirstIn(seq, LAMBDA s : n_est # None /\ s.N > n_est /\ s.p_bar > p_star)
  IN IF i = None THEN None ELSE seq[i].N

\* What the row of a regime keeps of its analysis.
analyse_regime(m) ==
  LET seq == PublishedBounds(m)
      n_est == Establish(seq, PStar(m))
      halt_N == Halt(seq, PStar(m))
      reg == FirstRegressed(m)
  IN [established |-> n_est # None,
      halted  |-> halt_N # None,
      latency |-> IF halt_N # None /\ reg # None THEN halt_N - reg ELSE 0,
      clean_p_bar |-> PublishedBounds(CleanPrefix(m)) # <<>>]

-----------------------------------------------------------------------------
AuditInit ==
  /\ turn = 1
  /\ stream = <<>> /\ pend = <<>> /\ audited = <<>>
  /\ rows = <<>> /\ verdict = "none"

Now == IF stream = <<>> THEN 0 ELSE stream[Len(stream)].dt

\* The inner loop pops the head while it is due.
DueHeads(now) == Max({k \in 0..Len(pend) : \A i \in 1..k : pend[i].due <= now})

OutcomesOf(audits) ==
  [i \in DOMAIN audits |-> [fraud |-> audits[i].fraud, regressed |-> audits[i].regressed]]

\* The labels still out are drained at the end of the stream.
Drained == audited \o OutcomesOf(pend)

\* One turn of matured_stream's loop, for the next decision of the log.
MaturedTurn(wait, cert_allow, fraud) ==
  LET now == Now + wait
      k == DueHeads(now)
      dec == [dt |-> now, cert_allow |-> cert_allow, fraud |-> fraud,
              regressed |-> Len(stream) >= TRegIdx]
      rest == SubSeq(pend, k + 1, Len(pend))
  IN
  /\ turn <= Len(Regimes) /\ Len(stream) < Decisions
  /\ stream' = Append(stream, dec)
  /\ audited' = audited \o OutcomesOf(SubSeq(pend, 1, k))
  /\ pend' = IF cert_allow
             THEN Append(rest, [due |-> now + DeltaAudit, fraud |-> fraud,
                                regressed |-> dec.regressed])
             ELSE rest
  /\ UNCHANGED <<turn, rows, verdict>>

\* The whole stream is analysed and the next one begins.
Analyse ==
  /\ turn <= Len(Regimes) /\ Len(stream) = Decisions
  /\ rows' = Append(rows, analyse_regime(Drained))
  /\ turn' = turn + 1
  /\ stream' = <<>> /\ pend' = <<>> /\ audited' = <<>>
  /\ UNCHANGED verdict

Halted(name) == \E i \in DOMAIN rows : Regimes[i] = name /\ rows[i].halted

\* agg() averages clean_guarantee_p_bar: a row without one raises.
Report ==
  /\ turn > Len(Regimes) /\ verdict = "none"
  /\ verdict' = IF \E i \in DOMAIN rows : ~rows[i].clean_p_bar THEN "died"
                ELSE IF Halted("control") THEN "kill"
                ELSE IF Halted("severe") THEN "caught" ELSE "guarantee"
  /\ UNCHANGED <<turn, stream, pend, audited, rows>>

AuditNext ==
  \/ \E wait \in {0, 1}, cert_allow, fraud \in BOOLEAN :
        (fraud => cert_allow) /\ MaturedTurn(wait, cert_allow, fraud)
  \/ Analyse
  \/ Report

AuditSpec == AuditInit /\ [][AuditNext]_auditVars

-----------------------------------------------------------------------------
\* The certified allows among the decisions made so far, and those whose label is known.
Allows == {i \in DOMAIN stream : stream[i].cert_allow}
Labelled == {i \in Allows : stream[i].dt + DeltaAudit <= Now}

AuditTypeOK ==
  /\ turn \in 1..(Len(Regimes) + 1)
  /\ stream \in Seq([dt : Nat, cert_allow : BOOLEAN, fraud : BOOLEAN, regressed : BOOLEAN])
  /\ pend \in Seq([due : Nat, fraud : BOOLEAN, regressed : BOOLEAN])
  /\ audited \in Seq([fraud : BOOLEAN, regressed : BOOLEAN])
  /\ Len(stream) <= Decisions
  /\ rows \in Seq([established : BOOLEAN, halted : BOOLEAN,
                   latency : (-Decisions)..Decisions, clean_p_bar : BOOLEAN])
  /\ Len(rows) = turn - 1
  /\ verdict \in {"none", "died", "kill", "caught", "guarantee"}

\* No certified allow is lost or reordered on its way to the audit, and one is
\* audited exactly when its label has arrived (matured_stream's two queues).
AuditsInOrder ==
  /\ Drained = OutcomesOf([k \in 1..Cardinality(Allows) |-> stream[Ascending(Allows)[k]]])
  /\ Len(audited) = Cardinality(Labelled)

\* The rule as an online automaton that sees one published bound at a time.
Modes(seq, p_star) ==
  LET mode[k \in 0..Len(seq)] ==
        IF k = 0 THEN "waiting"
        ELSE IF mode[k - 1] = "waiting" THEN IF seq[k].p_bar <= p_star THEN "on" ELSE "waiting"
        ELSE IF mode[k - 1] = "on" /\ seq[k].p_bar > p_star THEN "halted" ELSE mode[k - 1]
  IN mode

\* The two searches over the whole sequence do what an online automaton does:
\* autonomy begins only under the bound and ends the first time it is lost.
HaltsAsAutomaton ==
  \A p_star \in {PStar(Drained), PFloor} :
    LET seq == PublishedBounds(Drained)
        mode == Modes(seq, p_star)[Len(seq)]
    IN /\ (Establish(seq, p_star) # None) <=> mode \in {"on", "halted"}
       /\ (Halt(seq, p_star) # None) <=> mode = "halted"

\* The tolerance of a log is in hindsight: the mean of its whole clean prefix.  It is
\* settled once an audit of a regressed decision has arrived behind a clean one.
Settled(x) == FirstRegressed(x) \notin {None, 0}

ToleranceSettles ==
  \A m \in 0..Len(Drained) :
    LET known == SubSeq(Drained, 1, m) IN Settled(known) => PStar(known) = PStar(Drained)

HaltOf(x) == Halt(PublishedBounds(x), PStar(x))

\* The analysis of the first m audits and that of the whole log report the same halt,
\* if either halts before the m-th audit, unless the later audits moved the tolerance.
HaltMovesWithTolerance ==
  \A m \in 0..Len(Drained) :
    LET known == SubSeq(Drained, 1, m)
    IN PStar(known) = PStar(Drained) =>
         /\ HaltOf(known) # None /\ HaltOf(known) < m => HaltOf(Drained) = HaltOf(known)
         /\ HaltOf(Drained) # None /\ HaltOf(Drained) < m => HaltOf(known) = HaltOf(Drained)

\* A reported halt is final once the first regressed audit is known: later audits
\* neither revoke nor move it, nor bring an earlier one to light.  Before that they may,
\* through analyse_regime's p_star, and in no other way.
HaltSettles ==
  /\ AuditTypeOK /\ AuditsInOrder /\ HaltsAsAutomaton
  /\ ToleranceSettles /\ HaltMovesWithTolerance
=============================================================================

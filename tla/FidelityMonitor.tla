-------------------------- MODULE FidelityMonitor --------------------------
(***************************************************************************)
(* bridge_benchmark/experiments/fidelity_monitor.py: run_monitor() slides  *)
(* over a decision log in wall-clock order, audits every certified allow   *)
(* when its fraud label arrives delta later, and alarms when the recent    *)
(* window of audits is worse than the trailing reference window by more    *)
(* than theta; run() then scores the alarm against the injected regression.*)
(*                                                                         *)
(* One step is one turn of the loop.  Rates are compared as counts:        *)
(* recent/n > ref/n + theta iff recent - ref > Theta, the floor of theta*n.*)
(* The gates and the stream are data: a log is any sequence of decisions   *)
(* in time order.                                                          *)
(***************************************************************************)
EXTENDS Integers, Sequences, FiniteSets, FiniteSetsExt

CONSTANTS
  Logs,     \* the decision logs a monitor may be run on
  Deltas,   \* label delays
  NWindow,  \* n_window
  Theta,    \* floor of theta_alarm * n_window
  TReg      \* t_reg_idx: decisions of the log before the regression

VARIABLES
  log,      \* the decisions, records [dt, cert_allow, fraud]
  delta,    \* delta_audit
  idx,      \* decisions already looped over
  matured,  \* outcomes of the audits whose label has arrived
  pending,  \* audits waiting for their label: records [due, fraud]
  cum,      \* cum_cert_fraud
  calib,    \* calib_done_idx, or -1
  alarm     \* the alarm dict, NoAlarm before

vars == <<log, delta, idx, matured, pending, cum, calib, alarm>>

NoAlarm == [raised |-> FALSE]

ASSUME MonitorAssumption ==
  /\ NWindow \in Nat \ {0} /\ Theta \in Nat /\ TReg \in Nat
  /\ Deltas \subseteq Nat \ {0}

ASSUME LogAssumption ==
  \A l \in Logs :
    /\ l \in Seq([dt : Nat, cert_allow : BOOLEAN, fraud : {0, 1}])
    /\ \A i, j \in DOMAIN l : i <= j => l[i].dt <= l[j].dt

\* Sum of a sequence of outcomes: outcomes are 0 or 1.
Frauds(outcomes) == Cardinality({i \in DOMAIN outcomes : outcomes[i] = 1})

\* Mutant: a baseline that never forgets.
Reference_AllHistory(m) == SubSeq(m, 1, Len(m) - NWindow)

\* matured[-n:] and matured[-2n:-n].
Recent(m) == SubSeq(m, Len(m) - NWindow + 1, Len(m))
Reference(m) == SubSeq(m, Len(m) - 2 * NWindow + 1, Len(m) - NWindow)

\* Mutant: one audit late.
Full_OneLate(m) == Len(m) > 2 * NWindow

Full(m) == Len(m) >= 2 * NWindow

Crossed(m) == Frauds(Recent(m)) > Frauds(Reference(m)) + Theta

\* Mutant: a label is not yet usable at its arrival time.
DuePrefix_Strict(p, now) ==
  Max({k \in 0..Len(p) : \A i \in 1..k : p[i].due < now})

\* The inner loop pops while the head is due.
DuePrefix(p, now) ==
  Max({k \in 0..Len(p) : \A i \in 1..k : p[i].due <= now})

\* Mutant: the due dates are popped into the outcomes.
Outcomes_DueDates(audits) == [i \in DOMAIN audits |-> audits[i].due]

Outcomes(audits) == [i \in DOMAIN audits |-> audits[i].fraud]

\* Mutant: denied decisions are audited too.
Enqueue_Denied(p, dec) == Append(p, [due |-> dec.dt + delta, fraud |-> dec.fraud])

\* Only certified allows are audited.
Enqueue(p, dec) ==
  IF dec.cert_allow THEN Append(p, [due |-> dec.dt + delta, fraud |-> dec.fraud]) ELSE p

total_cert_allowed_frauds(l, from, to) ==
  Cardinality({i \in (from + 1)..to : l[i].cert_allow /\ l[i].fraud = 1})

-----------------------------------------------------------------------------
Init ==
  /\ log \in Logs
  /\ delta \in Deltas
  /\ idx = 0
  /\ matured = <<>>
  /\ pending = <<>>
  /\ cum = 0
  /\ calib = -1
  /\ alarm = NoAlarm

Decide ==
  LET dec  == log[idx + 1]
      k    == DuePrefix(pending, dec.dt)
      m    == matured \o Outcomes(SubSeq(pending, 1, k))
      rest == SubSeq(pending, k + 1, Len(pending))
  IN
  /\ ~alarm.raised /\ idx < Len(log)
  /\ matured' = m
  /\ calib' = IF Full(m) /\ calib = -1 THEN idx ELSE calib
  /\ IF Full(m) /\ Crossed(m)
     THEN /\ alarm' = [raised |-> TRUE, alarm_decision_idx |-> idx,
                       cum_at_alarm |-> cum, calib_done_idx |-> calib']
          /\ pending' = rest
          /\ UNCHANGED <<cum, idx>>
     ELSE /\ alarm' = alarm
          /\ pending' = Enqueue(rest, dec)
          /\ cum' = IF dec.cert_allow THEN cum + dec.fraud ELSE cum
          /\ idx' = idx + 1
  /\ UNCHANGED <<log, delta>>

Next == Decide

Spec == Init /\ [][Next]_vars

-----------------------------------------------------------------------------
(* run(): the row written for one regime.                                  *)

Returned == alarm.raised \/ idx = Len(log)

no_monitor_exposure == total_cert_allowed_frauds(log, TReg, Len(log))

true_detection(regime) ==
  alarm.raised /\ alarm.alarm_decision_idx >= TReg /\ regime # "control"

false_alarm(regime) ==
  alarm.raised /\ (regime = "control" \/ alarm.alarm_decision_idx < TReg)

\* Mutant: the decision the alarm stopped is counted.
exposure_AlarmIncluded(regime) ==
  IF true_detection(regime)
  THEN total_cert_allowed_frauds(log, TReg, alarm.alarm_decision_idx + 1)
  ELSE no_monitor_exposure

exposure(regime) ==
  IF true_detection(regime)
  THEN total_cert_allowed_frauds(log, TReg, alarm.alarm_decision_idx)
  ELSE no_monitor_exposure

-----------------------------------------------------------------------------
(* Properties.                                                             *)

\* Types of run_monitor's locals.
TypeOK ==
  /\ log \in Logs /\ delta \in Deltas
  /\ idx \in 0..Len(log)
  /\ matured \in Seq({0, 1})
  /\ pending \in Seq([due : Nat, fraud : {0, 1}])
  /\ cum \in Nat
  /\ calib \in -1..Len(log)

\* What the docstring promises declaratively: at decision j the auditor knows
\* the outcomes of the certified allows before j whose label arrived by then,
\* in decision order.
AllowedBefore(j) == {i \in 1..(j - 1) : log[i].cert_allow}
KnownAt(j) == {i \in AllowedBefore(j) : log[i].dt + delta <= log[j].dt}

InOrder(S) == [n \in 1..Cardinality(S) |->
  CHOOSE i \in S : Cardinality({j \in S : j < i}) = n - 1]

KnownOutcomes(j) == [n \in 1..Cardinality(KnownAt(j)) |-> log[InOrder(KnownAt(j))[n]].fraud]

WarmedUp(j) == Cardinality(KnownAt(j)) >= 2 * NWindow

\* Frauds among the known audits with as many younger known audits.
KnownFrauds(j, younger) ==
  Cardinality({i \in KnownAt(j) :
    log[i].fraud = 1 /\ Cardinality({k \in KnownAt(j) : k > i}) \in younger})

Fires(j) ==
  /\ WarmedUp(j)
  /\ KnownFrauds(j, 0..(NWindow - 1)) > KnownFrauds(j, NWindow..(2 * NWindow - 1)) + Theta

\* No certified allow is audited twice, dropped or reordered while the label is
\* outstanding: matured followed by pending is the outcome of every certified
\* allow looped over, in decision order.
AuditFIFO ==
  LET allowed == AllowedBefore(idx + 1)
  IN  matured \o Outcomes(pending)
        = [n \in 1..Cardinality(allowed) |-> log[InOrder(allowed)[n]].fraud]

\* A label is used neither before it arrives nor later than the first decision
\* at or after its arrival.
LabelsOnTime ==
  LET seen == IF alarm.raised THEN idx + 1 ELSE idx
  IN  seen > 0 => /\ matured = KnownOutcomes(seen)
                  /\ \A i \in DOMAIN pending : pending[i].due > log[seen].dt

\* The incremental loop alarms at the first decision at which the declarative
\* two-window rule fires, and passes no such decision by.
AlarmsAtFirstCrossing ==
  /\ \A j \in 1..idx : ~Fires(j)
  /\ alarm.raised => Fires(idx + 1)

\* Warm-up is over at the first decision with two full windows, never after the alarm.
CalibrationMarksWarmUp ==
  LET seen == IF alarm.raised THEN idx + 1 ELSE idx
  IN  IF calib = -1
      THEN \A j \in 1..seen : ~WarmedUp(j)
      ELSE /\ calib < seen
           /\ WarmedUp(calib + 1)
           /\ \A j \in 1..calib : ~WarmedUp(j)

\* The exposure row of a true detection and the counter in the alarm dict agree
\* on what was certified between the injection and the alarm, and a monitor is
\* never reported to expose more than no monitor.
ExposureAccounts ==
  Returned =>
    \A regime \in {"control", "underfit", "label_shift"} :
      /\ exposure(regime) <= no_monitor_exposure
      /\ true_detection(regime) =>
           alarm.cum_at_alarm = exposure(regime) + total_cert_allowed_frauds(log, 0, TReg)
      /\ alarm.raised => (true_detection(regime) <=> ~false_alarm(regime))

\* The audit queue is exact: every certified allow is audited once, in order, and
\* its label is used from the first decision at or after its arrival on.
AuditQueueExact == AuditFIFO /\ LabelsOnTime

\* run_monitor's online verdict is the declarative one: warm-up ends and the
\* alarm is raised at exactly the first decision that calls for it.
AlarmExact == AlarmsAtFirstCrossing /\ CalibrationMarksWarmUp
=============================================================================

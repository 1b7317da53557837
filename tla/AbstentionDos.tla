--------------------------- MODULE AbstentionDos ----------------------------
(***************************************************************************)
(* experiments/abstention_dos.py: how far the selection of inputs raises   *)
(* the abstention of the exact certificate, and two mitigations.           *)
(*                                                                         *)
(* A draw is any multiset of pool indices, as every weight is positive;    *)
(* rates are counts over N.  The radius of the attack is --eps, that of    *)
(* the second mitigation the constant EPS of the file.  The rows of the    *)
(* attack are of one seed.                                                 *)
(***************************************************************************)
EXTENDS FiniteSetsExt, Integers, Sequences, SequencesExt

CONSTANTS
  Delta, One, Lo, Hi, BandOff, ClassOff,   \* the policy, as in RealDataPolicy
  Theta,         \* THETA_BASE
  EPS,           \* the constant of the file
  EpsArgs,       \* the values --eps may be given
  EpsGrid,       \* the radii of the second mitigation
  Budgets,       \* budget fractions, as hundredths
  Strengths,     \* selection strengths, as hundredths, in order
  N,             \* records per batch
  Seeds,         \* the number of seeds
  Pool           \* the record pool: tool, x1, risk

VARIABLES
  category,    \* the analytic category of every pool record at every radius, fixed
  pc, eps,
  done,        \* the seeds of the strong batches done
  attack,      \* one row per strength
  strong,      \* the strong batches: benign abstentions and the attack's records
  mitigations, \* the mitigation rows
  report       \* what the output files say, or empty

vars == <<category, pc, eps, done, attack, strong, mitigations, report>>

Policy(e) == INSTANCE RealDataPolicy WITH Eps <- e, Adjust <- FALSE

Category(r, e) == Policy(e)!AnalyticCategory(r.risk, r.tool, r.x1, Theta)

Categories ==
  [e \in EpsArgs \cup ToSet(EpsGrid)
   \cup {EPS} |-> << >> \o [i \in DOMAIN Pool |-> Category(Pool[i], e)]]

CertifiedAllow(r, e) == category[e][r] = "R"

ReachableUnsafe(r, e) == category[e][r] # "R"

\* int(round(part * n)), to even at the half.
Rounded(part, n) ==
  LET low == (part * n) \div 100
      rest == (part * n) % 100
  IN  IF rest > 50 \/ (rest = 50 /\ low % 2 = 1) THEN low + 1 ELSE low

\* The draws of n records: their order changes no count.
Draws(n) == {s \in [1..n -> DOMAIN Pool] : \A i \in 1..(n - 1) : s[i] <= s[i + 1]}

\* The steered records come first, the benign cover traffic after them.
Selections(strength) ==
  LET steered == Rounded(strength, N) IN
  {[records |-> a \o b, steered |-> steered] : a \in Draws(steered), b \in Draws(N - steered)}

Rec(batch, i) == batch.records[i]

Benign == {[records |-> s, steered |-> 0] : s \in Draws(N)}

Count(batch, P(_)) == Cardinality({i \in DOMAIN batch.records : P(Rec(batch, i))})

BatchMetrics(batch, e) ==
  [abstain |-> Count(batch, LAMBDA r : ~CertifiedAllow(r, e)),
   falseAllow |-> Count(batch, LAMBDA r : CertifiedAllow(r, e) /\ ReachableUnsafe(r, e))]

-----------------------------------------------------------------------------
(* The two mitigations.                                                    *)

\* mitigate_rate_limit: the records in batch order, each abstention served while the
\* budget lasts and dropped afterwards.
RateLimit(batch, e, part) ==
  LET budget == Rounded(part, Len(batch.records))
      turn(acc, i) ==
        IF CertifiedAllow(Rec(batch, i), e) THEN acc
        ELSE IF Cardinality(acc.served) < budget THEN [acc EXCEPT !.served = @ \cup {i}]
        ELSE [acc EXCEPT !.dropped = @ \cup {i}]
  IN FoldLeftDomain(turn, [served |-> {}, dropped |-> {}], batch.records)

\* Mutant: the exposure is judged at the shrunk radius.
AdaptiveEps_Advertised(batch, full, shrunk) ==
  [abstain |-> Count(batch, LAMBDA r : ~CertifiedAllow(r, shrunk)),
   exposure |-> Count(batch, LAMBDA r : /\ CertifiedAllow(r, shrunk) /\ ~CertifiedAllow(r, full)
                                        /\ ReachableUnsafe(r, shrunk))]

AdaptiveEps(batch, full, shrunk) ==
  [abstain |-> Count(batch, LAMBDA r : ~CertifiedAllow(r, shrunk)),
   exposure |-> Count(batch, LAMBDA r : /\ CertifiedAllow(r, shrunk) /\ ~CertifiedAllow(r, full)
                                        /\ ReachableUnsafe(r, full))]

-----------------------------------------------------------------------------
Sum(f(_)) == FoldSeq(LAMBDA b, acc : f(b) + acc, 0, strong)

Init ==
  /\ category = Categories
  /\ pc = "attack" /\ eps \in EpsArgs /\ done = 0
  /\ attack = << >> /\ strong = << >> /\ mitigations = << >> /\ report = << >>

\* One strength, of one seed; both batches come from one generator.
Attack ==
  /\ pc = "attack"
  /\ \E ben \in Benign, adv \in Selections(Strengths[Len(attack) + 1]) :
       LET b == BatchMetrics(ben, eps)
           a == BatchMetrics(adv, eps)
       IN  attack' = Append(attack, [benign |-> b.abstain, adv |-> a.abstain,
                                     falseAllow |-> b.falseAllow + a.falseAllow])
  /\ IF Len(attack) + 1 = Len(Strengths) THEN pc' = "strong" ELSE UNCHANGED pc
  /\ UNCHANGED <<category, eps, done, strong, mitigations, report>>

StrongStrength == Max(ToSet(Strengths))

\* The batches the mitigations are measured on, with seeds of their own.
StrongBatch ==
  /\ pc = "strong" /\ done < Seeds
  /\ \E ben \in Benign, adv \in Selections(StrongStrength) :
       strong' = Append(strong, [benign |-> BatchMetrics(ben, eps).abstain,
                                 adv |-> BatchMetrics(adv, eps).abstain, batch |-> adv])
  /\ done' = done + 1
  /\ UNCHANGED <<category, pc, eps, attack, mitigations, report>>

\* Mitigation 1 at every budget.
RateLimits ==
  /\ pc = "strong" /\ done = Seeds
  /\ mitigations' = << >> \o [k \in DOMAIN Budgets |->
       [kind |-> "rate_limit", param |-> Budgets[k],
        after |-> Sum(LAMBDA b : Cardinality(RateLimit(b.batch, eps, Budgets[k]).served)),
        cost |-> Sum(LAMBDA b : Cardinality(RateLimit(b.batch, eps, Budgets[k]).dropped))]]
  /\ pc' = "adaptive"
  /\ UNCHANGED <<category, eps, done, attack, strong, report>>

\* Mitigation 2 at every radius.
AdaptiveSweep ==
  /\ pc = "adaptive"
  /\ mitigations' = mitigations \o [k \in DOMAIN EpsGrid |->
       [kind |-> "adaptive_eps", param |-> EpsGrid[k],
        after |-> Sum(LAMBDA b : AdaptiveEps(b.batch, EPS, EpsGrid[k]).abstain),
        cost |-> Sum(LAMBDA b : AdaptiveEps(b.batch, EPS, EpsGrid[k]).exposure)]]
  /\ pc' = "write"
  /\ UNCHANGED <<category, eps, done, attack, strong, report>>

\* inflation.csv, mitigation.csv, summary.json and summary.md; a factor without a
\* benign abstention is nan, here empty.
WriteOutputs ==
  /\ pc = "write"
  /\ report' = <<[benign |-> Sum(LAMBDA b : b.benign), adv |-> Sum(LAMBDA b : b.adv),
                  inflation |-> [k \in DOMAIN attack |->
                     IF attack[k].benign > 0 THEN <<attack[k].adv, attack[k].benign>> ELSE << >>],
                  rows |-> mitigations,
                  falseAllow |-> Max({attack[k].falseAllow : k \in DOMAIN attack})]>>
  /\ pc' = "done"
  /\ UNCHANGED <<category, eps, done, attack, strong, mitigations>>

Next == Attack \/ StrongBatch \/ RateLimits \/ AdaptiveSweep \/ WriteOutputs

-----------------------------------------------------------------------------
(* Properties.                                                             *)

Reported == report # << >>

Rows(kind) == {k \in DOMAIN mitigations : mitigations[k].kind = kind}

TypeOK ==
  /\ pc \in {"attack", "strong", "adaptive", "write", "done"} /\ eps \in EpsArgs
  /\ \A k \in DOMAIN attack : {attack[k].benign, attack[k].adv} \subseteq 0..N
  /\ \A k \in DOMAIN strong : strong[k].batch.steered = Rounded(Max(ToSet(Strengths)), N)

\* A throttled source hands the human no more than its budget, and every abstention
\* is either handed over or dropped, none allowed.
RateLimitCaps ==
  Reported =>
    \A k \in Rows("rate_limit") :
      /\ mitigations[k].after <= Seeds * Rounded(mitigations[k].param, N)
      /\ mitigations[k].after + mitigations[k].cost = report[1].adv

\* The budget is spent in batch order and the steered records come first: the cover
\* traffic is served only what they leave of it, and is all dropped before one of them
\* is, though the docstring calls the cost "dropped adversarial request volume".
CoverIsDroppedFirst ==
  \A k \in DOMAIN strong, part \in ToSet(Budgets) :
    LET batch == strong[k].batch
        abstained == {i \in DOMAIN batch.records : ~CertifiedAllow(Rec(batch, i), eps)}
        steered == {i \in abstained : i <= batch.steered}
        cover == abstained \ steered
        left == Rounded(part, N) - Cardinality(steered)
        limit == RateLimit(batch, eps, part)
    IN  /\ limit.dropped \cap steered # {} => cover \subseteq limit.dropped
        /\ Cardinality(limit.served \cap cover) = Max({0, Min({left, Cardinality(cover)})})

\* What a smaller radius wins in availability, it loses in exposure: every record
\* it no longer abstains on is unsafe within the full radius.
ExposureIsAvailability ==
  Reported =>
    \A k, l \in Rows("adaptive_eps") :
      mitigations[l].param = EPS
        => mitigations[k].after + mitigations[k].cost = mitigations[l].after

\* Shrinking is monotone: a smaller radius abstains no more and exposes no less.
SmallerRadiusAbstainsLess ==
  Reported =>
    \A k, l \in Rows("adaptive_eps") :
      mitigations[k].param < mitigations[l].param =>
        mitigations[k].after <= mitigations[l].after /\ mitigations[l].cost <= mitigations[k].cost

Spec == Init /\ [][Next]_vars

\* Neither mitigation is free: what it takes off the human's desk it drops, the cover
\* traffic before the attacker's, or lets through, and every reported row says how much.
AvailabilityIsPaidFor ==
  /\ TypeOK /\ RateLimitCaps /\ CoverIsDroppedFirst
  /\ ExposureIsAvailability /\ SmallerRadiusAbstainsLess
=============================================================================

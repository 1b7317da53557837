------------------------------- MODULE DSweep -------------------------------
(***************************************************************************)
(* experiments/d_sweep.py: the discrete budget d swept over 1..MaxD.  Two  *)
(* backends certify the same records at every d: a deterministic one whose *)
(* gate is Lipschitz in the numeric block, and randomized smoothing with   *)
(* its confidence split over the branches.  The study then states where    *)
(* the enumeration stops paying, and that every certificate was sound.     *)
(*                                                                         *)
(* A trained gate is any member of LipGates: per discrete state an affine  *)
(* margin <<bias, w1, w2>> whose slope is within the Lipschitz constant.   *)
(* Of a smoothing run only the count k per branch matters.  The swaps are  *)
(* enumerated by size, so N_d begins like N_(d-1) and one record's stream  *)
(* of draws gives a branch the same count at every d: counts are by state. *)
(***************************************************************************)
EXTENDS RuleOracle

CONSTANTS
  SweepDom, SweepAction,
  Tracks,      \* the tracks in order, a sequence over {"synthetic", "opa"}
  CertRecs,    \* eval_track_seed's cert_recs: returns with their category
  MaxD,
  LipGates,    \* candidate Lipschitz gates
  LipBound,    \* L * fscale
  CountMaps,   \* candidate outcomes of a smoothing run: state -> count
  CountBound,  \* CountBound[n][k]: the bound of count k when alpha is split n ways
  RsTau,
  CostBlowup, CollapseNum, CollapseDen   \* COST_BLOWUP and R_COLLAPSE

VARIABLES
  sweepTrack, sweepD, sweepBackend,   \* positions: track, budget, backend
  sweepLipOk,     \* _LIP_OK, the Lipschitz backend could be imported
  sweepGate,      \* the Lipschitz gate of the track
  sweepDraws,     \* record -> state -> count, the smoothing run of the track
  sweepRows,      \* the rows written so far
  sweepSkipped,   \* a track raised an exception
  sweepSummary    \* the written summary, or empty

SweepBackends == <<"lipschitz", "rs_ablation">>

sweepVars == <<sweepTrack, sweepD, sweepBackend, sweepLipOk, sweepGate, sweepDraws, sweepRows,
               sweepSkipped, sweepSummary>>

Numbered(s) == {s[i] : i \in DOMAIN s}

TrackNames == Numbered(Tracks)

\* The records are ruled returns of one domain, a gate's slope is within the Lipschitz
\* constant, and a count gives a looser bound the more ways alpha is split.
SweepAssumption ==
  /\ SweepDom \in Domains /\ IsFiniteSet(DiscreteStates(SweepDom))
  /\ Tracks \in Seq({"synthetic", "opa"})
  /\ \A i, j \in DOMAIN Tracks : Tracks[i] = Tracks[j] => i = j
  /\ CertRecs \in Seq([z : Returns, category : {"R", "A", "B", "C", "U"}])
  /\ \A i \in DOMAIN CertRecs :
       /\ CertRecs[i].z.domain = SweepDom
       /\ HasRule(SweepDom, StateOf(CertRecs[i].z), SweepAction)
  /\ MaxD \in Nat \ {0} /\ LipBound \in Nat /\ RsTau \in Int
  /\ CostBlowup \in Nat /\ CollapseNum \in Nat /\ CollapseDen \in Nat
  /\ \A h \in LipGates, s \in DiscreteStates(SweepDom) :
       /\ h[s] \in Int \X Int \X Int
       /\ h[s][2] * h[s][2] + h[s][3] * h[s][3] <= LipBound * LipBound
  /\ \A c \in CountMaps, s \in DiscreteStates(SweepDom) :
       \A n \in 1..Cardinality(DiscreteStates(SweepDom)) : \A m \in 1..n :
         /\ CountBound[n][c[s]] \in Int /\ CountBound[m][c[s]] \in Int
         /\ CountBound[n][c[s]] <= CountBound[m][c[s]]

\* Scalar rules, and for the engine one rule per tool, on the first field and from
\* below: opa_gate/schema.py.
PolicyAssumption ==
  \A s \in DiscreteStates(SweepDom) :
    /\ HasRule(SweepDom, s, SweepAction) =>
         GetRule(SweepDom, s, SweepAction).family = "scalar_threshold"
    /\ "opa" \in TrackNames =>
         /\ HasRule(SweepDom, s, SweepAction)
         /\ GetRule(SweepDom, s, SweepAction).field = 1
         /\ GetRule(SweepDom, s, SweepAction).direction = ">="

-----------------------------------------------------------------------------
(* The certificates.                                                       *)

CertRec(i) == CertRecs[i].z

CertIds == DOMAIN CertRecs

\* The identity, and the swaps that have a rule for the action.
ValidStates(z, dd) ==
  {StateOf(z)}
    \cup {s \in DiscreteSwaps(SweepDom, StateOf(z), dd) : HasRule(SweepDom, s, SweepAction)}

GateMargin(h, s, x) == h[s][1] + h[s][2] * x[1] + h[s][3] * x[2]

\* Mutant: the threshold forgets the scaling of the numeric block.
CertifyLip_Unscaled(h, z, dd) == \A s \in ValidStates(z, dd) : GateMargin(h, s, z.x2) > Eps

CertifyLip(h, z, dd) == \A s \in ValidStates(z, dd) : GateMargin(h, s, z.x2) > LipBound * Eps

CertifyRs(k, z, dd) ==
  \A s \in ValidStates(z, dd) : CountBound[Cardinality(ValidStates(z, dd))][k[s]] >= RsTau

-----------------------------------------------------------------------------
(* Ground truth: the analytic oracle, or one batched call of the engine.   *)

PlusEps(x) == <<x[1] + Eps, x[2]>>

AnalyticUnsafe(z, dd) ==
  \/ ~Safe(z, SweepAction)
  \/ \E s \in ValidStates(z, dd) \ {StateOf(z)} : After(z, s, SweepAction) >= 0

EngineSafe(s, x) == HasRule(SweepDom, s, SweepAction) /\ Margin(SweepDom, s, SweepAction, x) < 0

OpaUnsafe(z, dd) ==
  \/ ~EngineSafe(StateOf(z), z.x2)
  \/ \E s \in DiscreteSwaps(SweepDom, StateOf(z), dd) \cup {StateOf(z)} :
       ~EngineSafe(s, PlusEps(z.x2))

JointUnsafe(track, z, dd) == IF track = "opa" THEN OpaUnsafe(z, dd) ELSE AnalyticUnsafe(z, dd)

-----------------------------------------------------------------------------
(* The sweep.                                                              *)

TrainGates == sweepGate' \in LipGates /\ sweepDraws' \in [CertIds -> CountMaps]

SweepInit ==
  /\ sweepTrack = 1 /\ sweepD = 1 /\ sweepBackend = 1
  /\ sweepLipOk \in BOOLEAN
  /\ sweepGate \in LipGates /\ sweepDraws \in [CertIds -> CountMaps]
  /\ sweepRows = {} /\ sweepSkipped = FALSE /\ sweepSummary = << >>

Sweeping == sweepTrack <= Len(Tracks)

BackendAllows(backend, i, dd) ==
  IF backend = "lipschitz" THEN CertifyLip(sweepGate, CertRec(i), dd)
  ELSE CertifyRs(sweepDraws[i], CertRec(i), dd)

AllowedAt(backend, dd) == {i \in CertIds : BackendAllows(backend, i, dd)}

BackendRow ==
  LET allowed == AllowedAt(SweepBackends[sweepBackend], sweepD)
  IN  [track |-> Tracks[sweepTrack], d |-> sweepD, backend |-> SweepBackends[sweepBackend],
       allowed |-> allowed,
       falseAllow |-> {i \in allowed : JointUnsafe(Tracks[sweepTrack], CertRec(i), sweepD)}]

\* The next backend, budget or track, in this order of preference.
NextCell ==
  \/ /\ sweepBackend < Len(SweepBackends)
     /\ sweepBackend' = sweepBackend + 1
     /\ UNCHANGED <<sweepTrack, sweepD, sweepGate, sweepDraws>>
  \/ /\ sweepBackend = Len(SweepBackends) /\ sweepD < MaxD
     /\ sweepBackend' = 1 /\ sweepD' = sweepD + 1
     /\ UNCHANGED <<sweepTrack, sweepGate, sweepDraws>>
  \/ /\ sweepBackend = Len(SweepBackends) /\ sweepD = MaxD
     /\ sweepBackend' = 1 /\ sweepD' = 1 /\ sweepTrack' = sweepTrack + 1
     /\ IF sweepTrack < Len(Tracks) THEN TrainGates ELSE UNCHANGED <<sweepGate, sweepDraws>>

\* One backend over all records at one d; without a Lipschitz gate no row.
EvalBackend ==
  /\ Sweeping
  /\ sweepRows' = IF SweepBackends[sweepBackend] = "lipschitz" /\ ~sweepLipOk THEN sweepRows
                  ELSE sweepRows \cup {BackendRow}
  /\ NextCell
  /\ UNCHANGED <<sweepLipOk, sweepSkipped, sweepSummary>>

\* The engine or its corpora are missing: the rest of the track is given up, the rows
\* of the seed under way with it.  The track is one seed of one domain here; with more
\* the rows of those that were over would stay.
SkipOpa ==
  /\ Sweeping /\ Tracks[sweepTrack] = "opa"
  /\ sweepRows' = {r \in sweepRows : r.track # "opa"}
  /\ sweepTrack' = Len(Tracks) + 1 /\ sweepD' = 1 /\ sweepBackend' = 1
  /\ sweepSkipped' = TRUE
  /\ UNCHANGED <<sweepLipOk, sweepGate, sweepDraws, sweepSummary>>

-----------------------------------------------------------------------------
(* crossover_analysis and the summary.                                     *)

RobustIds == {i \in CertIds : CertRecs[i].category = "R"}

RowsAt(backend, tracks, dd) ==
  {r \in sweepRows : r.backend = backend /\ r.track \in tracks /\ r.d = dd}

\* A track has one row for a backend and a budget.
SettingsAt(backend, tracks, dd) == {r.track : r \in RowsAt(backend, tracks, dd)}

\* The robust records each setting allows.
Kept(backend, tracks, dd) ==
  UNION {{r.track} \X (r.allowed \cap RobustIds) : r \in RowsAt(backend, tracks, dd)}

\* R_allow is the mean over the robust records, the same ones in every row.
Collapsed(backend, tracks, dd) ==
  /\ RowsAt(backend, tracks, dd) # {} /\ RobustIds # {}
  /\ CollapseDen * Cardinality(Kept(backend, tracks, dd))
       <= CollapseNum * (Cardinality(SettingsAt(backend, tracks, dd)) * Cardinality(RobustIds))

\* What is enumerated for all records at a budget.
Enumerated(n) == UNION {{i} \X ValidStates(CertRec(i), n) : i \in CertIds}

BlownUp(backend, tracks, dd) ==
  /\ RowsAt(backend, tracks, dd) # {}
  /\ Cardinality(Enumerated(dd)) >= CostBlowup * Cardinality(Enumerated(1))

\* The earliest d at which a setting, or all together, blows up or collapses.
Cliffs(backend) ==
  {dd \in 1..MaxD :
     \E tracks \in {{x} : x \in TrackNames} \cup {TrackNames} :
       Collapsed(backend, tracks, dd) \/ BlownUp(backend, tracks, dd)}

PrimaryBackend ==
  IF \E r \in sweepRows : r.backend = "lipschitz" THEN "lipschitz" ELSE "rs_ablation"

OperationalCliff == IF Cliffs(PrimaryBackend) = {} THEN 0 ELSE Min(Cliffs(PrimaryBackend))

\* cert_false_allow's maximum is 0, also over no rows.
NoFalseAllow(rs) == \A r \in rs : r.falseAllow = {}

Summarise ==
  /\ ~Sweeping /\ sweepSummary = << >>
  /\ sweepSummary' =
       <<[cliff |-> OperationalCliff, primary |-> PrimaryBackend,
          soundAllD |-> NoFalseAllow(sweepRows),
          lipSoundOnOpa |-> NoFalseAllow({r \in sweepRows : r.backend = "lipschitz"
                                          /\ r.track = "opa"})]>>
  /\ UNCHANGED <<sweepTrack, sweepD, sweepBackend, sweepLipOk, sweepGate, sweepDraws, sweepRows,
                 sweepSkipped>>

SweepNext == EvalBackend \/ SkipOpa \/ Summarise

SweepSpec == SweepInit /\ [][SweepNext]_sweepVars

-----------------------------------------------------------------------------
(* Properties.                                                             *)

SweepTypeOK ==
  /\ sweepTrack \in 1..(Len(Tracks) + 1) /\ sweepD \in 1..MaxD /\ sweepBackend \in 1..2
  /\ sweepLipOk \in BOOLEAN /\ sweepSkipped \in BOOLEAN
  /\ sweepGate \in LipGates /\ sweepDraws \in [CertIds -> CountMaps]
  /\ \A r \in sweepRows : /\ r.track \in TrackNames /\ r.d \in 1..MaxD
                          /\ r.falseAllow \subseteq r.allowed /\ r.allowed \subseteq CertIds
  /\ sweepSkipped => \A r \in sweepRows : r.track # "opa"

\* A record the deterministic certificate allows has a positive gate margin at
\* every state within d and every point within eps.
LipschitzSoundForGate ==
  Sweeping /\ sweepBackend = 1 =>
    \A i \in CertIds : CertifyLip(sweepGate, CertRec(i), sweepD) =>
      \A s \in ValidStates(CertRec(i), sweepD), y \in NumericBall(CertRec(i).x2) :
        GateMargin(sweepGate, s, y) > 0

\* A larger budget allows no record a smaller one refused, with either backend:
\* more branches, and for smoothing a looser bound on each.
AllowanceShrinks ==
  \A r, q \in sweepRows :
    r.track = q.track /\ r.backend = q.backend /\ r.d < q.d => q.allowed \subseteq r.allowed

\* A deterministic false allow is the gate's error: the gate is positive at a
\* point of the budget where the rules are not safe.
FalseAllowIsGateError ==
  Sweeping /\ SweepBackends[sweepBackend] = "lipschitz" =>
    \A i \in BackendRow.falseAllow :
      \E s \in ValidStates(CertRec(i), sweepD), y \in NumericBall(CertRec(i).x2) :
        ~EngineSafe(s, y) /\ GateMargin(sweepGate, s, y) > 0

\* One probe per branch, eps further along the policy's field, finds whatever
\* point of the budget the engine would refuse.
OpaProbeComplete ==
  Sweeping /\ sweepBackend = 1 /\ Tracks[sweepTrack] = "opa" =>
    \A i \in CertIds :
      OpaUnsafe(CertRec(i), sweepD) <=>
        \E s \in DiscreteSwaps(SweepDom, StateOf(CertRec(i)), sweepD) \cup {StateOf(CertRec(i))},
           y \in NumericBall(CertRec(i).x2) : ~EngineSafe(s, y)

\* The reported cliff is a cliff: from there on a setting stays collapsed or
\* blown up.
CliffHolds ==
  sweepSummary # << >> /\ sweepSummary[1].cliff # 0 =>
    Cliffs(sweepSummary[1].primary) = sweepSummary[1].cliff..MaxD

\* What a backend allows at a budget is sound for its gate, no budget brings back
\* what a smaller one refused, and the cliff reported is one.
SweepIsSound ==
  /\ SweepTypeOK /\ LipschitzSoundForGate /\ AllowanceShrinks /\ FalseAllowIsGateError
  /\ OpaProbeComplete /\ CliffHolds
=============================================================================

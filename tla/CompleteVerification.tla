------------------------ MODULE CompleteVerification ------------------------
(***************************************************************************)
(* experiments/complete_verification.py: a ReLU gate is certified exactly, *)
(* per discrete branch, by minimising its logit over the eps-ball as a     *)
(* mixed integer program with a big-M encoding.  The ball is replaced by a *)
(* polytope around it.  The verifier is first validated on a linear gate   *)
(* whose logit is minus the oracle's margin, then run over the records of  *)
(* a domain beside smoothing and a Lipschitz gate.                         *)
(*                                                                         *)
(* Weights and numeric values are integers and the encoder does not scale. *)
(* A feasible point of the program is an integer displacement with one     *)
(* activation vector per hidden layer; the solver returns the least        *)
(* objective or fails.  Smoothing answers either way.                      *)
(***************************************************************************)
EXTENDS RuleOracle, SequencesExt

CONSTANTS
  Dom, Action,
  FieldOrder,       \* the categorical fields in the encoder's order
  SampledDirs,      \* the sampled facet directions, integer vectors
  Nets,             \* gates training may yield
  LipGate,          \* the Lipschitz gate, trained apart
  Recs,             \* the evaluated records, a sequence of returns
  Samples,          \* validation samples, sets of returns
  CertL,            \* CLAIMED_L
  Infinity          \* above every margin

VARIABLES
  phase,            \* "validate", "failed", "branches", "done"
  gate,             \* the ported gate
  i, todo,          \* the record under way and its branches left
  least, solved,    \* min_margin and solved_all
  rows, table       \* per_record and the aggregated row, or empty

vars == <<phase, gate, i, todo, least, solved, rows, table>>

-----------------------------------------------------------------------------
(* The encoder and the gate: hidden layers and one output, each a list of  *)
(* neurons with a weight vector w and a bias b.                            *)

OneHot(list, v) == [k \in DOMAIN list |-> IF list[k] = v THEN 1 ELSE 0]

Categories(s) ==
  FlattenSeq([k \in DOMAIN FieldOrder |->
    OneHot(Table[Dom].categories[FieldOrder[k]], s.x1[FieldOrder[k]])])

Encode(s, x) == OneHot(Table[Dom].tools, s.tool) \o Categories(s) \o x

NumericStart(s) == Len(OneHot(Table[Dom].tools, s.tool) \o Categories(s))

Weighted(n, v) == MapThenSumSet(LAMBDA k : n.w[k] * v[k], DOMAIN n.w) + n.b

Hidden(net) == Len(net) - 1

Logit(net, v) ==
  LET act[l \in 0..Hidden(net)] ==
        IF l = 0 THEN v
        ELSE [p \in DOMAIN net[l] |-> Max({0, Weighted(net[l][p], act[l - 1])})]
  IN  Weighted(net[Len(net)][1], act[Hidden(net)])

-----------------------------------------------------------------------------
(* The polytope: the axes, then the sampled directions.                    *)

FloorRoot(n) == CHOOSE r \in 0..n : r * r <= n /\ n < (r + 1) * (r + 1)

Axes == {<<1, 0>>, <<-1, 0>>, <<0, 1>>, <<0, -1>>}

\* u.d <= eps for unit vectors u: Dot(u, d) <= eps |u|.
Polytope ==
  {d \in (-Eps..Eps) \X (-Eps..Eps) :
     \A u \in Axes \cup SampledDirs : Dot(u, d) <= FloorRoot(Eps * Eps * Dot(u, u))}

-----------------------------------------------------------------------------
(* Interval bounds of the pre-activations over the box, for the big-M      *)
(* constants.                                                              *)

Radius(s, k) == IF k > NumericStart(s) THEN Eps ELSE 0

Low(n, lo, hi) ==
  MapThenSumSet(LAMBDA k : n.w[k] * (IF n.w[k] > 0 THEN lo[k] ELSE hi[k]), DOMAIN n.w) + n.b

\* Mutant: negative weights take the same end of the interval as positive ones.
High_OneEnd(n, lo, hi) == MapThenSumSet(LAMBDA k : n.w[k] * hi[k], DOMAIN n.w) + n.b

High(n, lo, hi) ==
  MapThenSumSet(LAMBDA k : n.w[k] * (IF n.w[k] > 0 THEN hi[k] ELSE lo[k]), DOMAIN n.w) + n.b

\* Per hidden layer l, the lower and upper bound of every neuron.
Bounds(net, s, x) ==
  LET v == Encode(s, x)
      pre(l, lo, hi) ==
        << >> \o [p \in DOMAIN net[l] |-> <<Low(net[l][p], lo, hi), High(net[l][p], lo, hi)>>]
      bound[l \in 0..Hidden(net)] ==
        IF l = 0 THEN << >> \o [k \in DOMAIN v |-> <<v[k] - Radius(s, k), v[k] + Radius(s, k)>>]
        ELSE LET q == bound[l - 1]
                 end(k, e) == IF l = 1 THEN q[k][e] ELSE Max({q[k][e], 0})
             IN  pre(l, << >> \o [k \in DOMAIN q |-> end(k, 1)],
                     << >> \o [k \in DOMAIN q |-> end(k, 2)])
  IN  << >> \o [l \in 1..Hidden(net) |-> bound[l]]

\* The activations the big-M rows leave a neuron with pre-activation z.
Activations(z, lo, hi) ==
  CASE lo >= 0 -> {z}
    [] lo < 0 /\ hi <= 0 -> {0}
    [] OTHER -> {a \in 0..Max({hi, 0}) :
                   a >= z /\ \E beta \in {0, 1} : a - z - lo * beta <= -lo /\ a <= hi * beta}

\* The objective at every feasible point of the program.
Objectives(net, s, x) ==
  LET bounds == Bounds(net, s, x)
      in(l, p, z) == Min({bounds[l][p][1], 0}) <= z /\ z <= Max({bounds[l][p][2], 0})
      choices(l, h) ==
        LET z == << >> \o [p \in DOMAIN net[l] |-> Weighted(net[l][p], h)]
            allowed == [p \in DOMAIN net[l] |->
                          IF in(l, p, z[p])
                            THEN Activations(z[p], bounds[l][p][1], bounds[l][p][2]) ELSE {}]
        IN  {a \in [DOMAIN net[l] -> UNION {allowed[p] : p \in DOMAIN net[l]}] :
               \A p \in DOMAIN net[l] : a[p] \in allowed[p]}
      layer(d) ==
        LET act[l \in 0..Hidden(net)] ==
              IF l = 0 THEN {Encode(s, <<x[1] + d[1], x[2] + d[2]>>)}
              ELSE UNION {choices(l, h) : h \in act[l - 1]}
        IN  act[Hidden(net)]
  IN  UNION {{Weighted(net[Len(net)][1], h) : h \in layer(d)} : d \in Polytope}

MilpMinMargin(net, s, x) == Min(Objectives(net, s, x))

-----------------------------------------------------------------------------
(* Branches, and the validation gate: one linear layer, weight -+1 on the  *)
(* policy's field and the threshold of each tool on its one-hot.           *)

States(z) == {StateOf(z)} \cup {s \in DiscreteSwaps(Dom, StateOf(z), 1) : HasRule(Dom, s, Action)}

LinearGate ==
  LET rule(tool) ==
        CHOOSE r \in {Table[Dom].rules[k] : k \in RuleIds(Dom)} : r.tool = tool /\ r.action = Action
      any == Table[Dom].rules[1]
      sign == IF any.direction = ">=" THEN 1 ELSE -1
      tools == Table[Dom].tools
      zero == [k \in 1..Len(Categories(StateOf(Recs[1]))) |-> 0]
  IN  <<<<[w |-> [k \in DOMAIN tools |-> sign * rule(tools[k]).threshold] \o zero
                 \o [k \in 1..2 |-> IF k = any.field THEN -sign ELSE 0], b |-> 0]>>>>

\* cv_certify when every solve succeeds.
CvAllow(net, z) == \A s \in States(z) : MilpMinMargin(net, s, z.x2) >= 0

RobustSafe(z) == Safe(z, Action) /\ ~JointReachableUnsafe(z, Action)

-----------------------------------------------------------------------------
Init ==
  /\ phase = "validate"
  /\ gate \in Nets
  /\ i = 1 /\ todo = {} /\ least = Infinity /\ solved = TRUE
  /\ rows = << >> /\ table = << >>

\* main asserts an agreement of 1.0 before anything else.
Validate ==
  /\ phase = "validate"
  /\ \E sample \in Samples :
       IF \A z \in sample : CvAllow(LinearGate, z) = RobustSafe(z)
       THEN phase' = "branches" /\ todo' = States(Recs[1])
       ELSE phase' = "failed" /\ UNCHANGED todo
  /\ UNCHANGED <<gate, i, least, solved, rows, table>>

SolveBranch(s) ==
  /\ phase = "branches" /\ s \in todo
  /\ least' = Min({least, MilpMinMargin(gate, s, Recs[i].x2)})
  /\ todo' = todo \ {s}
  /\ UNCHANGED <<phase, gate, i, solved, rows, table>>

\* The solver gives no result: the loop is left with the margin at -inf.
SolverFails(s) ==
  /\ phase = "branches" /\ s \in todo
  /\ least' = -Infinity /\ solved' = FALSE /\ todo' = {}
  /\ UNCHANGED <<phase, gate, i, rows, table>>

\* certify_lip: the smallest margin over the branches exceeds L eps.
LipAllow(z) == \A s \in States(z) : Logit(LipGate, Encode(s, z.x2)) > CertL * Eps

\* n_branches is the number of branches, plus one where it is recorded.
FinishRecord ==
  /\ phase = "branches" /\ todo = {}
  /\ \E rs \in BOOLEAN :
       rows' = Append(rows, [z |-> Recs[i], category |-> Category(Recs[i], Action),
                             cv |-> least >= 0, minMargin |-> least, solvedAll |-> solved,
                             rs |-> rs, lip |-> LipAllow(Recs[i]),
                             gates |-> {gate, LipGate},
                             nBranches |-> (1 + Cardinality(States(Recs[i])) - 1) + 1])
  /\ IF i < Len(Recs)
     THEN i' = i + 1 /\ todo' = States(Recs[i + 1]) /\ UNCHANGED phase
     ELSE phase' = "done" /\ UNCHANGED <<i, todo>>
  /\ least' = Infinity /\ solved' = TRUE
  /\ UNCHANGED <<gate, table>>

\* Rates as <<numerator, denominator>>; no robust record, no rate, but no
\* allowed record, no false allow.
Rate(k, n) == <<Cardinality(k), Cardinality(n)>>

Aggregate ==
  /\ phase = "done" /\ table = << >>
  /\ LET ids == DOMAIN rows
         robust == {k \in ids : rows[k].category = "R"}
         row(allowed) == [rAllow |-> Rate(allowed \cap robust, robust),
                          falseAllow |-> Rate(allowed \ robust, allowed)]
     IN  table' = <<[cv |-> row({k \in ids : rows[k].cv}), rs |-> row({k \in ids : rows[k].rs}),
                     lip |-> row({k \in ids : rows[k].lip}),
                     branches |-> MapThenSumSet(LAMBDA k : rows[k].nBranches, ids)]>>
  /\ UNCHANGED <<phase, gate, i, todo, least, solved, rows>>

Next ==
  \/ Validate
  \/ \E s \in DiscreteStates(Dom) : SolveBranch(s) \/ SolverFails(s)
  \/ FinishRecord
  \/ Aggregate

Spec == Init /\ [][Next]_vars

-----------------------------------------------------------------------------
(* Properties.                                                             *)

TypeOK ==
  /\ phase \in {"validate", "failed", "branches", "done"}
  /\ gate \in Nets /\ i \in DOMAIN Recs
  /\ todo \subseteq States(Recs[i]) /\ solved \in BOOLEAN /\ least \in (-Infinity)..Infinity
  /\ Len(rows) <= Len(Recs)
  /\ table # << >> => table[1].cv.falseAllow[1] <= table[1].cv.falseAllow[2]

PolytopePoints(z) == {<<z.x2[1] + d[1], z.x2[2] + d[2]>> : d \in Polytope}

\* The program is exact: a record of which every branch was solved carries the
\* least logit of the gate over its branches and the polytope (read off the row
\* appended last).
MilpExact ==
  rows # << >> /\ Last(rows).solvedAll =>
    Last(rows).minMargin =
      Min({Logit(gate, Encode(q[1], q[2])) :
           q \in States(Last(rows).z) \X PolytopePoints(Last(rows).z)})

\* A record the verifier allows is admitted by the gate at every branch and
\* everywhere in the true ball, whatever solves failed on the way.
CvSound ==
  rows # << >> /\ Last(rows).cv =>
    \A s \in States(Last(rows).z), y \in NumericBall(Last(rows).z.x2) :
      Logit(gate, Encode(s, y)) >= 0

\* On the linear gate the verdict is the oracle's for every sampled return whose
\* worst margin is not exactly zero.
ValidationAgreesOffBoundary ==
  phase = "validate" =>
    \A z \in UNION Samples :
      (\A s \in States(z) : After(z, s, Action) # 0) => CvAllow(LinearGate, z) = RobustSafe(z)

\* The verifier decides exactly what the gate does on the polytope, and what it
\* allows the gate admits everywhere in the ball.
VerifierIsExact ==
  /\ TypeOK /\ MilpExact /\ CvSound /\ ValidationAgreesOffBoundary
=============================================================================

----------------------------- MODULE RuleOracle -----------------------------
(***************************************************************************)
(* The analytic, action-indexed safety oracle of                           *)
(* bridge_benchmark/generators/oracle.py: rule lookup, signed unsafe       *)
(* margins, discrete and continuous reachability over the hybrid budget    *)
(* B_{d,eps}, and the interaction category of a typed tool return.         *)
(*                                                                         *)
(* Numbers are fixed point.  A numeric field is an integer number of grid  *)
(* units and a margin an integer number of units 1/Resolution as large.    *)
(* eps * ||w|| may be irrational: a rule carries its floor, which decides  *)
(* m + eps * ||w|| >= 0 for an integer m exactly as the real number does.  *)
(* Both domains of the rule table have two numeric fields, so a numeric    *)
(* point is a pair.                                                        *)
(***************************************************************************)
EXTENDS Integers, Sequences, FiniteSets, FiniteSetsExt

CONSTANTS
  Domains,        \* names of the rule table's domains
  Table,          \* the parsed rule_tables.json, by domain
  Eps,            \* radius of the continuous budget, in grid units
  Budget,         \* d, the number of atomic substitutions
  Resolution      \* margin units per grid unit

-----------------------------------------------------------------------------
(* The rule table and the typed returns it speaks of.                      *)

Tools(dom) == {Table[dom].tools[i] : i \in DOMAIN Table[dom].tools}
Actions(dom) == {Table[dom].actions[i] : i \in DOMAIN Table[dom].actions}
Fields(dom) == DOMAIN Table[dom].categories
Allowed(dom, f) == {Table[dom].categories[f][i] : i \in DOMAIN Table[dom].categories[f]}
RuleIds(dom) == DOMAIN Table[dom].rules

\* Every present categorical field holds one of its allowed values.
Contexts(dom) ==
  {x1 \in [Fields(dom) -> UNION {Allowed(dom, f) : f \in Fields(dom)}] :
     \A f \in Fields(dom) : x1[f] \in Allowed(dom, f)}

DiscreteStates(dom) == [tool : Tools(dom), x1 : Contexts(dom)]

StateOf(z) == [tool |-> z.tool, x1 |-> z.x1]

\* Well-typed returns; a numeric value may lie outside its valid range.
Returns ==
  {z \in [domain : Domains, tool : UNION {Tools(d) : d \in Domains},
          x1 : UNION {Contexts(d) : d \in Domains}, x2 : Int \X Int] :
     StateOf(z) \in DiscreteStates(z.domain)}

\* get_rule: the first of the most specific rules whose context x1 matches.
Matching(dom, s, a) ==
  {i \in RuleIds(dom) :
     LET r == Table[dom].rules[i] IN
     /\ r.tool = s.tool
     /\ r.action = a
     /\ \A f \in DOMAIN r.context : f \in DOMAIN s.x1 /\ s.x1[f] = r.context[f]}

Specificity(dom, i) == Cardinality(DOMAIN Table[dom].rules[i].context)

HasRule(dom, s, a) == Matching(dom, s, a) # {}

GetRule(dom, s, a) ==
  Table[dom].rules[CHOOSE i \in Matching(dom, s, a) :
    \A j \in Matching(dom, s, a) :
      \/ Specificity(dom, i) > Specificity(dom, j)
      \/ Specificity(dom, i) = Specificity(dom, j) /\ i <= j]

-----------------------------------------------------------------------------
(* Signed margin and boundary scale: unsafe iff the margin is >= 0.        *)

\* The threshold or bias correction of the present categorical values.
Offset(r, x1) ==
  MapThenSumSet(LAMBDA f : r.offsets[f][x1[f]],
                {f \in DOMAIN r.offsets : f \in DOMAIN x1 /\ x1[f] \in DOMAIN r.offsets[f]})

Dot(w, x) == w[1] * x[1] + w[2] * x[2]

MarginWith(r, offset, x) ==
  IF r.family = "affine"
  THEN Dot(r.weights, x) + (r.bias + offset)
  ELSE LET above == Resolution * x[r.field] - (r.threshold + offset)
       IN  IF r.direction = ">=" THEN above ELSE -above

RuleMargin(r, x1, x) == MarginWith(r, Offset(r, x1), x)

\* Mutant: the sign of the rule's direction is returned as its scale.
RuleGain_Signed(r) ==
  IF r.family = "affine" THEN r.gain
  ELSE IF r.direction = ">=" THEN Resolution * Eps ELSE -(Resolution * Eps)

\* eps * scale: the exact gain of the worst continuous move.
RuleGain(r) == IF r.family = "affine" THEN r.gain ELSE Resolution * Eps

Margin(dom, s, a, x) == RuleMargin(GetRule(dom, s, a), s.x1, x)
Gain(dom, s, a) == RuleGain(GetRule(dom, s, a))

Safe(z, a) == Margin(z.domain, StateOf(z), a, z.x2) < 0

-----------------------------------------------------------------------------
(* Discrete budget: 1 to d atomic substitutions, each of the tool or of    *)
(* one present categorical field.  The clean state itself is not a swap.   *)

Alternatives(dom, s, slot) ==
  IF slot = "tool" THEN Tools(dom) \ {s.tool} ELSE Allowed(dom, slot) \ {s.x1[slot]}

Slots(dom, s) ==
  {slot \in {"tool"} \cup DOMAIN s.x1 : Alternatives(dom, s, slot) # {}}

Substitute(s, choice) ==
  [tool |-> IF "tool" \in DOMAIN choice THEN choice["tool"] ELSE s.tool,
   x1   |-> [f \in DOMAIN s.x1 |-> IF f \in DOMAIN choice THEN choice[f] ELSE s.x1[f]]]

Picks(dom, s, combo) ==
  {c \in [combo -> UNION {Alternatives(dom, s, slot) : slot \in combo}] :
     \A slot \in combo : c[slot] \in Alternatives(dom, s, slot)}

\* Mutant: one substitution too many.
DiscreteSwaps_OneMore(dom, s, d) ==
  UNION {{Substitute(s, c) : c \in Picks(dom, s, combo)} :
           combo \in {k \in SUBSET Slots(dom, s) : Cardinality(k) \in 1..(d + 1)}}

DiscreteSwaps(dom, s, d) ==
  UNION {{Substitute(s, c) : c \in Picks(dom, s, combo)} :
           combo \in {k \in SUBSET Slots(dom, s) : Cardinality(k) \in 1..d}}

\* The swaps the reachability loops do not skip for want of a rule.
BackedSwaps(z, a) ==
  {s \in DiscreteSwaps(z.domain, StateOf(z), Budget) : HasRule(z.domain, s, a)}

-----------------------------------------------------------------------------
(* Reachability.  The code keeps the best margin of the loop and compares  *)
(* it with 0: some swap is >= 0 exactly when the best one is.              *)

\* Mutant: the gain of the clean state's rule for every swap.
After_CleanGain(z, s, a) == Margin(z.domain, s, a, z.x2) + Gain(z.domain, StateOf(z), a)

\* The margin of state s after the worst move within eps.
After(z, s, a) == Margin(z.domain, s, a, z.x2) + Gain(z.domain, s, a)

DiscreteReachableUnsafe(z, a) ==
  \E s \in BackedSwaps(z, a) : Margin(z.domain, s, a, z.x2) >= 0

\* Mutant: the clean margin without the move.
ContinuousReachableUnsafe_NoMove(z, a) == Margin(z.domain, StateOf(z), a, z.x2) >= 0

ContinuousReachableUnsafe(z, a) == After(z, StateOf(z), a) >= 0

\* Mutant: swaps without the numeric move.
JointReachableUnsafe_NoMove(z, a) ==
  \E s \in BackedSwaps(z, a) : Margin(z.domain, s, a, z.x2) >= 0

JointReachableUnsafe(z, a) == \E s \in BackedSwaps(z, a) : After(z, s, a) >= 0

\* The state joint_reachable_unsafe reports; ties go to the iteration order,
\* which is left open here.
JointWitnesses(z, a) ==
  {s \in BackedSwaps(z, a) : \A t \in BackedSwaps(z, a) : After(z, t, a) <= After(z, s, a)}

\* Mutant: joint reachability is asked before the marginal ones.
Category_JointFirst(z, a) ==
  IF ~Safe(z, a) THEN "U"
  ELSE IF JointReachableUnsafe(z, a) THEN "C"
  ELSE IF DiscreteReachableUnsafe(z, a) THEN "A"
  ELSE IF ContinuousReachableUnsafe(z, a) THEN "B"
  ELSE "R"

Category(z, a) ==
  LET clean_safe == Safe(z, a)
      dru == DiscreteReachableUnsafe(z, a)
      cru == ContinuousReachableUnsafe(z, a)
      jru == JointReachableUnsafe(z, a)
  IN  IF ~clean_safe THEN "U"
      ELSE IF dru THEN "A"
      ELSE IF cru THEN "B"
      ELSE IF jru THEN "C"
      ELSE "R"

-----------------------------------------------------------------------------
(* Reference definitions: what the documentation means by the budget, by   *)
(* enumeration rather than by closed form.                                 *)

Near(x, y) ==
  (y[1] - x[1]) * (y[1] - x[1]) + (y[2] - x[2]) * (y[2] - x[2]) <= Eps * Eps

\* B_{0,eps} around x, never clipped to the valid range.
NumericBall(x) ==
  {y \in ((x[1] - Eps)..(x[1] + Eps)) \X ((x[2] - Eps)..(x[2] + Eps)) : Near(x, y)}

\* Whole hybrid budget B_{d,eps}(z): the clean state and every backed swap,
\* each with every point of the numeric ball.
BallStates(z, a) == {StateOf(z)} \cup BackedSwaps(z, a)

\* Every numeric point of the set is safe at state s.
AllSafe(dom, s, a, points) ==
  LET r == GetRule(dom, s, a)
      c == Offset(r, s.x1)
  IN  \A y \in points : MarginWith(r, c, y) < 0

BallSafe(z, a) ==
  \A s \in BallStates(z, a) : AllSafe(z.domain, s, a, NumericBall(z.x2))

-----------------------------------------------------------------------------
(* Assumptions on the table.                                               *)

ASSUME BudgetAssumption == Eps \in Nat /\ Budget \in Nat /\ Resolution \in Nat \ {0}

\* A domain has finitely many fields, none of them called tool, its rules form
\* a list, and a rule's context speaks of the domain's fields.
ASSUME TableAssumption ==
  \A dom \in Domains :
    /\ IsFiniteSet(Fields(dom)) /\ "tool" \notin Fields(dom)
    /\ RuleIds(dom) \subseteq Nat
    /\ \A i \in RuleIds(dom) : DOMAIN Table[dom].rules[i].context \subseteq Fields(dom)

\* gain is floor(eps * ||w||_2).
ASSUME RuleAssumption ==
  \A dom \in Domains : \A i \in RuleIds(dom) :
    LET r == Table[dom].rules[i] IN
    \/ /\ r.family = "scalar_threshold"
       /\ r.field \in {1, 2}
       /\ r.threshold \in Int
    \/ /\ r.family = "affine"
       /\ r.weights \in Int \X Int
       /\ r.bias \in Int
       /\ r.gain \in Nat
       /\ r.gain * r.gain <= Eps * Eps * Dot(r.weights, r.weights)
       /\ Eps * Eps * Dot(r.weights, r.weights) < (r.gain + 1) * (r.gain + 1)

ASSUME OffsetAssumption ==
  \A dom \in Domains : \A i \in RuleIds(dom) : \A x1 \in Contexts(dom) :
    Offset(Table[dom].rules[i], x1) \in Int
=============================================================================

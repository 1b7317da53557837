---------------------------- MODULE ZoneCeilings ----------------------------
(***************************************************************************)
(* experiments/cx5_openfisca.py: a housing rule written by a third party,  *)
(* whose income ceiling depends on the zone.  The ceilings in force are    *)
(* loaded from dated parameter files, households are drawn, each is put in *)
(* a category over the zone swaps and the budget, and the report sets the  *)
(* point decision against the neighbourhood certificate on the witnesses.  *)
(*                                                                         *)
(* Money is in thousands of euros.  The code divides every amount by the   *)
(* cap; here eps is in hundredths of the cap and amounts are compared      *)
(* after multiplying out.                                                  *)
(***************************************************************************)
EXTENDS FiniteSets, FiniteSetsExt, Integers, Sequences

CONSTANTS
  Bundles,          \* parameter files that may be there: zone, size -> date -> ceiling
  Zones, Sizes,
  Year,             \* the date of the study
  Caps,             \* --cap: an amount, or 0 for max_ceiling
  Incomes,          \* resources a household may draw
  N,                \* --n
  EpsList           \* budgets, hundredths of the cap

VARIABLES
  bundle,           \* the parameter files
  theta,            \* zone, size -> ceiling, or empty before loading
  cap,
  households,       \* drawn so far
  at,               \* the next eps
  results,          \* one per eps done
  report            \* deltas, boundary and verdict, or empty

vars == <<bundle, theta, cap, households, at, results, report>>

-----------------------------------------------------------------------------
(* The parameters in force.                                                *)

InForce(values) ==
  IF Year \in DOMAIN values THEN values[Year] ELSE values[Max({d \in DOMAIN values : d <= Year})]

LoadCeilings(files) == [z \in Zones |-> [n \in Sizes |-> InForce(files[z][n])]]

CapOf(mode, t) == IF mode = 0 THEN Max({t[z][n] : z \in Zones, n \in Sizes}) ELSE mode

-----------------------------------------------------------------------------
(* The category of a household over the ball.                              *)

\* Over the ceiling of the zone once eps hundredths of the cap are added.  The ceiling
\* itself counts as over it; the docstring has a household at it eligible.
Over(h, zone, eps) == 100 * h.income + eps * cap >= 100 * theta[zone][h.size]

\* Mutant: the two moves are only tried one at a time.
Category_SwapOnly(h, eps) ==
  IF Over(h, h.zone, 0) THEN "U"
  ELSE IF \E z \in Zones \ {h.zone} : Over(h, z, 0) THEN "A"
  ELSE IF Over(h, h.zone, eps) THEN "B"
  ELSE "R"

Category(h, eps) ==
  IF Over(h, h.zone, 0) THEN "U"
  ELSE IF \E z \in Zones \ {h.zone} : Over(h, z, 0) THEN "A"
  ELSE IF Over(h, h.zone, eps) THEN "B"
  ELSE IF \E z \in Zones : Over(h, z, eps) THEN "C"
  ELSE "R"

\* The strictest zones; the code takes the first of them.
WitnessZones(h) == {z \in Zones : \A y \in Zones : theta[z][h.size] <= theta[y][h.size]}

PointGrant(h) == ~Over(h, h.zone, 0)

NeighborhoodGrant(h, eps) == Category(h, eps) = "R"

-----------------------------------------------------------------------------
(* Gaps between the ceilings.                                              *)

Levels(n) == {theta[z][n] : z \in Zones}

RawGap(n) == Max(Levels(n)) - Min(Levels(n))

Gaps(n) == {g \in {b - a : a, b \in Levels(n)} : g > 0}

AdjacentGaps ==
  UNION {{g \in Gaps(n) : \E a \in Levels(n) : a + g \in Levels(n) /\ ~\E l \in Levels(n) :
          a < l /\ l < a + g}
           : n \in Sizes}

\* min_delta_eps_per_gap, in hundredths of the cap times a thousand euros: of the gaps
\* between neighbouring ceilings, wherever they lie.
MinDeltaEps(eps) == {Min({100 * g, eps * cap}) : g \in AdjacentGaps}

-----------------------------------------------------------------------------
(* The run.                                                                *)

Load ==
  /\ theta = << >>
  /\ theta' = LoadCeilings(bundle)
  /\ \E mode \in Caps : cap' = CapOf(mode, theta')
  /\ UNCHANGED <<bundle, households, at, results, report>>

\* Resources from half the least to 1.3 times the greatest ceiling.
Draw ==
  /\ theta # << >> /\ Len(households) < N
  /\ \E z \in Zones, n \in Sizes, x \in Incomes :
       /\ 2 * x >= Min(Levels(n)) /\ 10 * x <= 13 * Max(Levels(n))
       /\ households' = Append(households, [zone |-> z, size |-> n, income |-> x])
  /\ UNCHANGED <<bundle, theta, cap, at, results, report>>

Count(P(_)) == Cardinality({k \in DOMAIN households : P(households[k])})

Evaluate ==
  /\ Len(households) = N /\ at <= Len(EpsList)
  /\ LET eps == EpsList[at]
         isC(h) == Category(h, eps) = "C"
     IN  results' = Append(results,
           [eps |-> eps,
            counts |-> [c \in {"A", "B", "C", "R", "U"} |-> Count(LAMBDA h : Category(h, eps) = c)],
            witnesses |-> {[h |-> households[k], zones |-> WitnessZones(households[k])] :
                             k \in {j \in DOMAIN households : isC(households[j])}},
            pointGrants |-> Count(LAMBDA h : isC(h) /\ PointGrant(h)),
            neighborhoodGrants |-> Count(LAMBDA h : isC(h) /\ NeighborhoodGrant(h, eps)),
            unsafeUnderSwap |-> Count(LAMBDA h : isC(h) /\ PointGrant(h)
                                      /\ \E z \in WitnessZones(h) : Over(h, z, eps)),
            minDeltaEps |-> MinDeltaEps(eps)])
  /\ at' = at + 1
  /\ UNCHANGED <<bundle, theta, cap, households, report>>

\* The verdict says that the boundary exists and that witnesses arise.
WriteReport ==
  /\ at = Len(EpsList) + 1 /\ report = << >>
  /\ report' = <<[boundaryExists |-> \E n \in Sizes : Cardinality(Levels(n)) > 1,
                  maxGap |-> Max({RawGap(n) : n \in Sizes}),
                  verdict |-> "positive"]>>
  /\ UNCHANGED <<bundle, theta, cap, households, at, results>>

Init ==
  /\ bundle \in Bundles
  /\ theta = << >> /\ cap = 0
  /\ households = << >> /\ at = 1
  /\ results = << >> /\ report = << >>

Next == Load \/ Draw \/ Evaluate \/ WriteReport

Spec == Init /\ [][Next]_vars

-----------------------------------------------------------------------------
(* Properties.                                                             *)

TypeOK ==
  /\ bundle \in Bundles
  /\ theta # << >> => cap > 0 /\ \A z \in Zones, n \in Sizes : theta[z][n] \in Nat \ {0}
  /\ Len(households) <= N
  /\ at = Len(results) + 1
  /\ \A k \in DOMAIN results : \A c \in DOMAIN results[k].counts : results[k].counts[c] \in 0..N
  /\ Len(report) <= 1

\* The ceiling used is the one in force at the study's date: that of the last
\* change not after it, also where the file already holds a later one.
CeilingsInForce ==
  theta # << >> => \A z \in Zones, n \in Sizes :
    \A d \in DOMAIN bundle[z][n] :
      d <= Year /\ (\A e \in DOMAIN bundle[z][n] : e <= d \/ Year < e)
        => theta[z][n] = bundle[z][n][d]

\* The certificate grants exactly the households that stay under the ceiling
\* of every zone at every income up to eps above the one reported.
GrantIffBallEligible ==
  \A k \in DOMAIN results : \A i \in DOMAIN households :
    LET h == households[i] IN
      NeighborhoodGrant(h, results[k].eps)
        <=> \A z \in Zones : \A e \in 0..results[k].eps : ~Over(h, z, e)

\* A reported witness needs both moves: the named zone alone and eps alone
\* leave it eligible, together they do not, and the point decision grants it.
WitnessNeedsBothMoves ==
  \A k \in DOMAIN results :
    LET r == results[k] IN
    /\ \A w \in r.witnesses : \A z \in w.zones :
         z # w.h.zone /\ Over(w.h, z, r.eps) /\ ~Over(w.h, z, 0) /\ ~Over(w.h, w.h.zone, r.eps)
    /\ r.pointGrants = r.counts["C"] /\ r.unsafeUnderSwap = r.counts["C"]
         /\ r.neighborhoodGrants = 0

Strictest(n) == Min(Levels(n))

\* How many incomes of a zone are of category C, where eps is a whole number
\* of thousands.
CLength(z, n, eps) ==
  Cardinality({x \in 1..Max(Levels(n)) : Category([zone |-> z, size |-> n, income |-> x],
                                                  eps) = "C"})

\* The witnesses of a zone fill an interval as long as the smaller of eps and
\* the gap from the zone's ceiling down to the strictest one.
LengthIsMinOfGapAndEps ==
  \A k \in DOMAIN results : k = Len(results) /\ (results[k].eps * cap) % 100 = 0 =>
    \A z \in Zones, n \in Sizes :
      CLength(z, n, results[k].eps)
        = Min({theta[z][n] - Strictest(n), (results[k].eps * cap) \div 100})

\* The report lists min(gap, eps) for every gap between neighbouring ceilings as the
\* "C-interval length per witness".  The list is that of the intervals with two ceilings
\* per size, or with eps below every gap.  Otherwise a listed length no interval has is a
\* gap above the strictest ceiling, and an interval not listed spans more than one gap.
ListedLengths ==
  \A k \in DOMAIN results : k = Len(results) /\ (results[k].eps * cap) % 100 = 0 =>
    LET eps == results[k].eps
        listed == results[k].minDeltaEps
        lengths == {100 * CLength(z, n, eps) : z \in Zones, n \in Sizes} \ {0}
        noThird == \A n \in Sizes : Cardinality(Levels(n)) <= 2
        epsIsLeast == \A g \in AdjacentGaps : eps * cap <= 100 * g
    IN  /\ noThird \/ epsIsLeast => listed = lengths
        /\ \A l \in listed \ lengths :
             \E n \in Sizes : \E a, b \in Levels(n) \ {Strictest(n)} : l = 100 * (b - a)
        /\ \A l \in lengths \ listed :
             \E n \in Sizes, z \in Zones :
               /\ l = 100 * (theta[z][n] - Strictest(n))
               /\ \E a \in Levels(n) : Strictest(n) < a /\ a < theta[z][n]

\* Every ceiling has a value that is in force at the study's date.
ZoneAssumption ==
  /\ N \in Nat \ {0}
  /\ \A b \in Bundles : \A z \in Zones, n \in Sizes : \E d \in DOMAIN b[z][n] : d <= Year

\* The ceilings of the year decide, the certificate and the witnesses over them are
\* exact, and the lengths reported of their intervals are right up to two ceilings.
CeilingsJudged ==
  /\ TypeOK /\ CeilingsInForce /\ GrantIffBallEligible /\ WitnessNeedsBothMoves
  /\ LengthIsMinOfGapAndEps /\ ListedLengths
=============================================================================

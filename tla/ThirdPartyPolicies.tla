------------------------- MODULE ThirdPartyPolicies -------------------------
(***************************************************************************)
(* The two programs that look for joint witnesses under admission policies *)
(* written by others (prog):                                               *)
(*   track_a      experiments/opa_gate/run_track_a.py samples a natural    *)
(*                and a boundary set of deployment manifests and           *)
(*                categorises them under the vendored policies;            *)
(*   third_party  exp_policy_third_party.py names the level of every       *)
(*                scanned policy, categorises manifests with the engine,   *)
(*                and searches an authored policy as the positive control. *)
(*                                                                         *)
(* A policy file is what the detector reports of it (parses, idiom,        *)
(* numeric) and the names left of a comparison anywhere in it.  A category *)
(* is over one registered discrete edge and one continuous step.  Numbers  *)
(* of the authored search are in hundredths.                               *)
(***************************************************************************)
EXTENDS Integers, SequencesExt

CONSTANTS
  DiagStep,      \* the radius split evenly over both limits: [cpu, mem]
  AxisStep,      \* the whole radius spent on one limit: [cpu, mem]
  Corpora,       \* third-party corpora: sequence of [name, language]
  Controls,      \* authored controls: sequence of [name, file]
  Worlds,        \* [dirs, opa, eps]: what is checked out, where OPA is, the radius
  MaxFiles,      \* the cap per corpus
  ManifestDraws, \* draws: [natural, boundary], sequences of manifests
  AuthoredDraws  \* sequences of [tool, risk]

VARIABLES
  prog,          \* "track_a" or "third_party"
  world, stage,
  k,             \* the corpus or control that is next
  rows,          \* one row per classified file
  skipped,       \* names of corpora without a directory
  partB,         \* [status, split]: the vendored set, by the engine
  authored,      \* part C: empty or << witnesses >>
  searched,      \* names whose policy was put to the engine for witnesses
  splits,        \* track A's results so far
  report         \* what was written, or empty

-----------------------------------------------------------------------------
(* The vendored policies and the category of a manifest.                   *)

\* The diagonal spends less on each limit than an axis does.
StepAssumption == DiagStep.cpu < AxisStep.cpu /\ DiagStep.mem < AxisStep.mem

CpuLimit == 1000

MemLimit == 2048

\* Fields with a mechanism in the frozen registry; env has none.
Edges ==
  [registry |-> {"company", "docker", "gcr"}, owner |-> {"team-a", "platform", "team-b", "none"},
   privileged |-> {FALSE, TRUE}, hostport |-> {0, 8080}]

Envs == {"prod", "staging", "dev"}

Violations(z) ==
  {p \in {"allowedrepos", "requiredlabels", "containerlimits", "privileged", "hostnetworkports"} :
     CASE p = "allowedrepos" -> z.s.registry # "company"
       [] p = "requiredlabels" -> z.s.owner \notin {"team-a", "platform"}
       [] p = "containerlimits" -> z.cpu > CpuLimit \/ z.mem > MemLimit
       [] p = "privileged" -> z.s.privileged
       [] p = "hostnetworkports" -> z.s.hostport > 0}

SafeUnderSet(z) == Violations(z) = {}

\* Mutant: only the edges the registry marks as moving a threshold are taken.
DiscNeighbors_ThresholdEdges(z) == {}

DiscNeighbors(z) ==
  UNION {{[z EXCEPT !.s[f] = v] : v \in Edges[f] \ {z.s[f]}} : f \in DOMAIN Edges}

Pushed(z, step) == [z EXCEPT !.cpu = @ + step.cpu, !.mem = @ + step.mem]

ContWorst(z) == Pushed(z, DiagStep)

DiscFlips(z) == \E n \in DiscNeighbors(z) : SafeUnderSet(n) # SafeUnderSet(z)

ContFlips(z) == SafeUnderSet(ContWorst(z)) # SafeUnderSet(z)

JointFlips(z) == \E n \in DiscNeighbors(z) : SafeUnderSet(ContWorst(n)) # SafeUnderSet(z)

Category(z) ==
  CASE ~SafeUnderSet(z) -> "U"
    [] SafeUnderSet(z) /\ DiscFlips(z) -> "A"
    [] SafeUnderSet(z) /\ ~DiscFlips(z) /\ ContFlips(z) -> "B"
    [] SafeUnderSet(z) /\ ~DiscFlips(z) /\ ~ContFlips(z) /\ JointFlips(z) -> "C"
    [] OTHER -> "R"

\* A boundary draw may take every value of every field; a natural one is
\* within the limits and may hold any value of any field too.
CanBeDrawn(z, boundary) ==
  /\ z.s.env \in Envs /\ \A f \in DOMAIN Edges : z.s[f] \in Edges[f]
  /\ IF boundary THEN z.cpu \in 850 .. 1150 /\ z.mem \in 1800 .. 2300
     ELSE z.cpu \in 200 .. 900 /\ z.mem \in 256 .. 1800

DrawsAreDrawn ==
  \A d \in ManifestDraws : /\ \A z \in ToSet(d.natural) : CanBeDrawn(z, FALSE)
                          /\ \A z \in ToSet(d.boundary) : CanBeDrawn(z, TRUE)

-----------------------------------------------------------------------------
(* Counting a draw.                                                        *)

CountOf(categories, cat) == Cardinality({j \in DOMAIN categories : categories[j] = cat})

RunSplit(zs) ==
  LET cats == [j \in DOMAIN zs |-> Category(zs[j])]
  IN  [zs |-> zs, cats |-> cats, n |-> Len(zs),
       count |-> [cat \in {"R", "C", "U", "A", "B"} |-> CountOf(cats, cat)]]

vars == <<world, prog, stage, k, rows, skipped, partB, authored, searched, splits, report>>

-----------------------------------------------------------------------------
(* The levels.                                                             *)

\* Rego is parsed by the engine's own parser, found in the checkout or on the path.
Parses(file, language) == file.parses /\ (language = "rego" => world.opa # "missing")

ClassifyTaxonomy(file, language) ==
  CASE ~Parses(file, language) -> "unknown"
    [] Parses(file, language) /\ file.idiom /\ Cardinality(file.lhs) >= 2 -> "affine"
    [] Parses(file, language) /\ file.idiom /\ Cardinality(file.lhs) < 2 -> "conditioned"
    [] Parses(file, language) /\ ~file.idiom /\ file.numeric -> "fixed"
    [] OTHER -> "discrete"

Levels == {"discrete", "fixed", "conditioned", "affine", "unknown"}

Eligible == {"conditioned", "affine"}

ClassifyOne(file, language, name, source) ==
  [corpus |-> name, source |-> source, file |-> file, level |-> ClassifyTaxonomy(file, language)]

Dir == world.dirs[Corpora[k].name]

NextOf(list, after) ==
  IF k < Len(list) THEN stage' = stage /\ k' = k + 1 ELSE stage' = after /\ k' = 1

Capped(files) == SubSeq(files, 1, Min({Len(files), MaxFiles}))

ScanCorpus ==
  /\ stage = "corpora"
  /\ IF Dir = << >>
     THEN skipped' = skipped \cup {Corpora[k].name} /\ UNCHANGED rows
     ELSE /\ rows' = rows \o [j \in DOMAIN Capped(Dir[1]) |->
                                ClassifyOne(Dir[1][j], Corpora[k].language, Corpora[k].name,
                                            "third_party")]
          /\ UNCHANGED skipped
  /\ NextOf(Corpora, "controls")
  /\ UNCHANGED <<partB, authored, searched, splits, report>>

ClassifyControl ==
  /\ stage = "controls"
  /\ rows' = Append(rows, ClassifyOne(Controls[k].file, "rego", Controls[k].name,
                                      "authored_control"))
  /\ NextOf(Controls, "opa")
  /\ UNCHANGED <<skipped, partB, authored, searched, splits, report>>

-----------------------------------------------------------------------------
(* Part B: the vendored set, by the engine, on natural then boundary draws.*)

OpaAvailable == world.opa = "vendored"

RunOpaCategorize(draw, fails) ==
  /\ stage = "opa" /\ stage' = "authored"
  /\ partB' = [status |-> IF ~OpaAvailable THEN "none" ELSE IF fails THEN "error" ELSE "split",
               split |-> IF OpaAvailable /\ ~fails
                 THEN <<RunSplit(draw.natural \o draw.boundary)>> ELSE << >>]
  /\ searched' = IF OpaAvailable /\ ~fails THEN searched \cup {"gatekeeper_library"} ELSE searched
  /\ UNCHANGED <<k, rows, skipped, authored, splits, report>>

-----------------------------------------------------------------------------
(* Part C: the authored policy.                                            *)

Loose == {"payment_gateway_loose", "manual_screen_loose"}

Strict == <<"payment_gateway_strict", "manual_screen_strict">>

Theta(tool) == IF tool \in Loose THEN 57 ELSE 49

SafeAuthored(tool, risk) == risk < Theta(tool)

\* The draw is below the tool's own threshold by at most this much.
Span == Max({world.eps, 12})

Neighbor(tool) == IF tool \in Loose THEN Strict[1] ELSE Strict[2]

Witness(p) ==
  /\ SafeAuthored(p.tool, p.risk)
  /\ SafeAuthored(Neighbor(p.tool), p.risk)
  /\ SafeAuthored(p.tool, p.risk + world.eps)
  /\ ~SafeAuthored(Neighbor(p.tool), p.risk + world.eps)

AuthoredEligible == \E r \in ToSet(rows) : r.corpus = "ieee_fraud" /\ r.level \in Eligible

AuthoredSearch(draw, fails) ==
  /\ stage = "authored" /\ stage' = "write"
  /\ \A j \in DOMAIN draw : draw[j].risk \in (Theta(draw[j].tool) - Span) .. Theta(draw[j].tool)
  /\ IF OpaAvailable /\ AuthoredEligible /\ ~fails
     THEN authored' = <<SelectSeq(draw, Witness)>> /\ searched' = searched \cup {"ieee_fraud"}
     ELSE UNCHANGED <<authored, searched>>
  /\ UNCHANGED <<k, rows, skipped, partB, splits, report>>

ThirdParty == SelectSeq(rows, LAMBDA r : r.source = "third_party")

Tally(rs) == [lvl \in Levels |-> Cardinality({j \in DOMAIN rs : rs[j].level = lvl})]

CWitnesses == IF partB.split = << >> THEN 0 ELSE partB.split[1].count["C"]

WriteOutputs ==
  /\ stage = "write" /\ stage' = "done"
  /\ report' = <<[policies |-> Len(ThirdParty), parseSuccess |-> Len(rows) - Tally(rows)["unknown"],
                  tally |-> Tally(ThirdParty), tallyAll |-> Tally(rows), cCount |-> CWitnesses,
                  null |-> CWitnesses = 0, engine |-> partB.status, skipped |-> skipped,
                  control |-> authored]>>
  /\ UNCHANGED <<k, rows, skipped, partB, authored, searched, splits>>

-----------------------------------------------------------------------------
(* Track A: a natural and a boundary split of one length, then the report. *)

RunSplitOf(draws, fails) ==
  /\ stage = "splits" /\ Len(splits) < 2
  /\ IF fails THEN stage' = "failed" /\ UNCHANGED splits
     ELSE splits' = Append(splits, RunSplit(draws)) /\ UNCHANGED stage
  /\ UNCHANGED <<k, rows, skipped, partB, authored, searched, report>>

\* The reading calls a share of C under two hundredths in both splits a null.
WriteTrackA ==
  /\ stage = "splits" /\ Len(splits) = 2 /\ stage' = "done"
  /\ report' = <<[null |-> \A j \in 1 .. 2 : splits[j].count["C"] * 50 < splits[j].n]>>
  /\ UNCHANGED <<k, rows, skipped, partB, authored, searched, splits>>

-----------------------------------------------------------------------------
Init ==
  /\ world \in Worlds
  /\ prog \in {"track_a", "third_party"} /\ k = 1
  /\ stage = IF prog = "track_a" THEN "splits" ELSE "corpora"
  /\ rows = << >> /\ skipped = {} /\ authored = << >> /\ searched = {} /\ splits = << >>
  /\ partB = [status |-> "none", split |-> << >>] /\ report = << >>

Next ==
  /\ \/ ScanCorpus \/ ClassifyControl \/ WriteOutputs \/ WriteTrackA
     \/ \E d \in ManifestDraws, fails \in BOOLEAN : RunOpaCategorize(d, fails)
     \/ \E d \in AuthoredDraws, fails \in BOOLEAN : AuthoredSearch(d, fails)
     \/ \E d \in ManifestDraws, fails \in BOOLEAN :
          RunSplitOf(IF splits = << >> THEN d.natural ELSE d.boundary, fails)
  /\ UNCHANGED <<world, prog>>

-----------------------------------------------------------------------------
(* Properties of the code.                                                 *)

\* Stages advance in their order, a corpus without a directory leaves no row
\* and a capped one at most the cap (build_taxonomy_rows).
TypeOK ==
  /\ stage \in {"corpora", "controls", "opa", "authored", "write", "splits", "failed", "done"}
  /\ partB.status = "split" <=> partB.split # << >>
  /\ \A c \in skipped : \A j \in DOMAIN rows : rows[j].corpus # c
  /\ \A c \in ToSet(Corpora) :
       Cardinality({j \in DOMAIN rows : rows[j].corpus = c.name}) <= MaxFiles
  /\ report # << >> <=> stage = "done"

Drawn == IF partB.split = << >> THEN splits ELSE Append(splits, partB.split[1])

\* Every manifest the vendored set accepts has a registered neighbour that it
\* refuses, so A and U are the only categories and neither B nor C can be counted
\* whatever is drawn and however large the radius (run_track_a.categorize).  The texts
\* of the programs lay the null on the policies, which have no keyed threshold, and
\* count B among the vulnerabilities found.
OnlyAAndU == \A j \in DOMAIN Drawn : ToSet(Drawn[j].cats) \subseteq {"A", "U"}

\* No run of either program reports a positive, with or without an engine
\* (run_track_a.main, exp_policy_third_party.main).
AlwaysNull == report # << >> => report[1].null

\* A null that no manifest stands behind can be told in the summary: the engine's field
\* is empty exactly when it is not vendored and an error only where it is, a
\* corpus that left no row is named as skipped or was empty, and the positive control
\* is there only where the engine and the control's idiom were
\* (exp_policy_third_party.main).
NullToldApart ==
  (report # << >> /\ prog = "third_party") =>
    /\ report[1].engine = "none" <=> ~OpaAvailable
    /\ report[1].engine = "split" <=> "gatekeeper_library" \in searched
    /\ \A c \in ToSet(Corpora) :
         (\A j \in DOMAIN rows : rows[j].corpus # c.name)
           <=> c.name \in report[1].skipped \/ world.dirs[c.name] = << << >> >>
    /\ report[1].control # << >> =>
         OpaAvailable /\ \E j \in DOMAIN rows : rows[j].corpus = "ieee_fraud"
                                               /\ rows[j].level \in Eligible

\* A witness of the authored search reports a loose tool at a risk the strict
\* threshold still accepts, and the radius carries it past the strict threshold
\* and not past the loose one (authored_c_witness_search).
AuthoredWitnessGeometry ==
  authored # << >> =>
    \A j \in DOMAIN authored[1] :
      LET p == authored[1][j]
      IN  /\ p.tool \in Loose /\ p.risk < 49
          /\ p.risk + world.eps \in 49 .. 56

\* The third-party denominator counts exactly the scanned files of corpora that
\* are checked out; a control is in the totals over all rows only.
ControlsApart ==
  (report # << >> /\ prog = "third_party") =>
    /\ report[1].policies =
         FoldSet(LAMBDA c, n : n + (IF world.dirs[c.name] = << >> THEN 0
                                    ELSE Min({Len(world.dirs[c.name][1]), MaxFiles})),
                 0, ToSet(Corpora))
    /\ \A lvl \in Levels : report[1].tally[lvl] <= report[1].tallyAll[lvl]
    /\ Len(rows) = report[1].policies + Len(Controls)

\* Without an engine anywhere no Rego file has a level, so the corpus the null
\* is about is unread and the positive control is not run: the null is reported still.
NoEngineNoLevel ==
  /\ \A j \in DOMAIN rows : rows[j].level = "unknown" <=>
       ~rows[j].file.parses
         \/ (world.opa = "missing" /\ rows[j].corpus \in {"gatekeeper_library", "ieee_fraud",
                                                          "constant"})
  /\ world.opa = "missing" => authored = << >> /\ searched = {}

Spec == Init /\ [][Next]_vars

\* The null of either program is decided before a manifest is drawn, and what its
\* report says of engine, corpora and control is what was read and run.
NullIsForced ==
  /\ TypeOK /\ OnlyAAndU /\ AlwaysNull /\ NullToldApart /\ AuthoredWitnessGeometry
  /\ ControlsApart /\ NoEngineNoLevel
=============================================================================

----------------------------- MODULE IdiomScan ------------------------------
(***************************************************************************)
(* experiments/detector: the frozen detector of a numeric comparison whose *)
(* threshold is selected by a discrete key (idiom_detector.py), the scan   *)
(* of policy corpora with it (scan_corpus.py), and the second scan of rule *)
(* logic through added parsers, which reads the first one's output file    *)
(* (idiom_rescan.py).                                                      *)
(*                                                                         *)
(* A file is what its parser yields: comparisons of terms for Rego, CEL    *)
(* comparisons and conditions for Kyverno, value filters for Custodian,    *)
(* keys for OpenFisca, rules for JSON, decision tables for DMN.  A term of *)
(* Rego says in "selects" how many values a discrete key truly gives it.   *)
(* A side of a CEL comparison is a literal, a name, a map under a discrete *)
(* key, or an index by position with a word of _DISCRETE_KEYS in its path. *)
(***************************************************************************)
EXTENDS Integers, SequencesExt

CONSTANTS
  Scanned,       \* corpora of the scan, a sequence of [name, language, control]
  Rescanned,     \* corpora of the rescan, a sequence of [name, parser]
  Worlds,        \* checkouts: [scan, rescan], each a file list per corpus
  StopKeys,      \* subscripts taken for loop indices and the like
  Upstream,      \* keys with a word of _PROVENANCE in their name
  Subject        \* keys with a word of _SUBJECT in their name

VARIABLES
  world,
  prog,          \* the program running: "none", "scan" or "rescan"
  c, f,          \* the corpus and the file under way
  tally,         \* sets of file positions: idiom, numeric, upstream
  results,       \* one tally per corpus done
  disk,          \* idiom_scan.json, or empty
  report         \* the rescan's report, or empty

Ordered == {"<", "<=", ">", ">="}

vars == <<world, prog, c, f, tally, results, disk, report>>

-----------------------------------------------------------------------------
(* The detectors.  A hit names its operator and its two sides.             *)

NoHit(numeric) == [idiom |-> FALSE, numeric |-> numeric]

HitOf(op, num, thr) == [idiom |-> TRUE, numeric |-> TRUE, op |-> op, num |-> num, thr |-> thr]

\* A call counts whatever it calls; an index counts when its key is a variable.
Depends(t) == t.kind = "call" \/ (t.kind = "ref" /\ t.key # "none")

\* The two readings of a comparison, the operator left as it is written.
Readings(cmp) ==
  <<[op |-> cmp.op, num |-> cmp.a, thr |-> cmp.b], [op |-> cmp.op, num |-> cmp.b, thr |-> cmp.a]>>

\* Literals of the file's dictionaries and offsets; none found is no objection.
ThetasAccepted(file) == file.literals = {} \/ Cardinality(file.literals) >= 2

\* Mutant: only the left operand is tried as the numeric field.
DetectRego_LeftOnly(file) ==
  LET reading == [k \in DOMAIN file.comparisons |-> Readings(file.comparisons[k])[1]]
      hits ==
        {k \in DOMAIN reading : reading[k].num.kind = "ref" /\ Depends(reading[k].thr)
         /\ ThetasAccepted(file)}
      numeric == \E k \in DOMAIN reading :
                   reading[k].num.kind = "ref"
                     /\ (reading[k].thr.kind = "scalar" \/ Depends(reading[k].thr))
  IN  IF hits = {} THEN NoHit(numeric)
      ELSE LET r == reading[Min(hits)] IN HitOf(r.op, r.num, r.thr)

DetectRego(file) ==
  LET reading == FlattenSeq([k \in DOMAIN file.comparisons |-> Readings(file.comparisons[k])])
      hits ==
        {k \in DOMAIN reading : reading[k].num.kind = "ref" /\ Depends(reading[k].thr)
         /\ ThetasAccepted(file)}
      numeric == \E k \in DOMAIN reading :
                   reading[k].num.kind = "ref"
                     /\ (reading[k].thr.kind = "scalar" \/ Depends(reading[k].thr))
  IN  IF ~file.parses THEN NoHit(FALSE)
      ELSE IF hits = {} THEN NoHit(numeric)
      ELSE LET r == reading[Min(hits)] IN HitOf(r.op, r.num, r.thr)

\* The expression for CEL wants a name on both sides, and looks for the brackets and
\* the word of a discrete key on the right only.
DetectKyverno(file) ==
  LET matched == {k \in DOMAIN file.cel : "literal" \notin {file.cel[k].lhs, file.cel[k].rhs}}
      idiom == \/ \E k \in matched : file.cel[k].rhs \in {"keyed_map", "worded_index"}
               \/ \E k \in DOMAIN file.conditions : file.conditions[k] = "templated"
  IN  IF ~file.parses THEN NoHit(FALSE)
      ELSE IF idiom THEN HitOf(">", "key", "value")
      ELSE NoHit(matched # {} \/ file.conditions # << >>)

DetectCustodian(file) ==
  IF ~file.parses THEN NoHit(FALSE)
  ELSE IF "value_from" \in ToSet(file.filters) THEN HitOf(">", "key", "value")
  ELSE NoHit(file.filters # << >>)

DetectFile(file, language) ==
  CASE language = "rego" -> DetectRego(file)
    [] language = "kyverno" -> DetectKyverno(file)
    [] language = "cloud_custodian" -> DetectCustodian(file)

-----------------------------------------------------------------------------
(* The parsers of the rescan: operator and key of every hit.               *)

Semantics(key) ==
  IF key \in Upstream THEN "provenance_upstream"
  ELSE IF key \in Subject THEN "subject_self_reported" ELSE "static_config"

DetectOpenFisca(file) ==
  IF file.parses /\ file.compares
  THEN {[op |-> "<", key |-> k] : k \in ToSet(file.keys) \ StopKeys} ELSE {}

\* The operators of a rule engine; a spelled one is no operator of Ordered.
JsonNumOps == Ordered \cup {"greaterThan", "lessThan", "gte", "lte", "gt", "lt",
                            "greater_than", "less_than"}

\* A value that is no text and no map stands as "number".
DetectJson(file) ==
  IF ~file.parses THEN {}
  ELSE {[op |-> r.op, key |-> r.value] :
        r \in {x \in ToSet(file.rules) : x.op \in JsonNumOps /\ x.value # "number"}}

\* The rules of a column whose cell compares with a number.
Compared(col) == {k \in DOMAIN col : col[k].tag = "cmp"}

Thetas(col) == {col[k].theta : k \in Compared(col)}

\* The other columns that are not constant over the rules.
Selectors(table, j) == {s \in DOMAIN table \ {j} : Cardinality(ToSet(table[s])) >= 2}

\* The columns of a table are sequences of cells, one per rule.
ThresholdColumns(table) ==
  {j \in DOMAIN table : Len(table) >= 2 /\ Len(table[1]) >= 2
                         /\ Cardinality(Thetas(table[j])) >= 2 /\ Selectors(table, j) # {}}

\* The operator is that of the first comparison of the column, the key the first
\* selecting column.
TableHits(t) ==
  {[op |-> t.columns[j][Min(Compared(t.columns[j]))].op,
    key |-> t.names[Min(Selectors(t.columns, j))]] : j \in ThresholdColumns(t.columns)}

DetectDmn(file) ==
  IF ~file.parses THEN {} ELSE UNION {TableHits(t) : t \in ToSet(file.tables)}

StructuralIdiom(op, keyed, nThetas) == op \in Ordered /\ keyed /\ nThetas >= 2

ParserHits(file, parser) ==
  CASE parser = "openfisca" -> DetectOpenFisca(file)
    [] parser = "json_rules" -> DetectJson(file)
    [] parser = "dmn" -> DetectDmn(file)

\* The filter of scan: keyed and two thresholds are given as constants.
CountedHits(file, parser) == {h \in ParserHits(file, parser) : StructuralIdiom(h.op, TRUE, 2)}

-----------------------------------------------------------------------------
NoTally == [idiom |-> {}, numeric |-> {}, upstream |-> {}, n |-> 0]

Init ==
  /\ world \in Worlds
  /\ prog = "none" /\ c = 1 /\ f = 1 /\ tally = NoTally /\ results = << >>
  /\ disk = << >> /\ report = << >>

Start(p) ==
  /\ prog = "none" /\ report = << >>
  /\ p = "scan" => disk = << >>
  /\ prog' = p /\ c' = 1 /\ f' = 1 /\ tally' = NoTally /\ results' = << >>
  /\ UNCHANGED <<world, disk, report>>

\* A corpus that is not checked out has no files.
Files == IF prog = "scan" THEN world.scan[c] ELSE world.rescan[c]

ScanFile ==
  /\ prog = "scan" /\ c <= Len(Scanned) /\ f <= Len(Files)
  /\ LET h == DetectFile(Files[f], Scanned[c].language)
     IN  tally' = [tally EXCEPT !.n = @ + 1,
                                !.idiom = IF h.idiom THEN @ \cup {f} ELSE @,
                                !.numeric = IF h.numeric THEN @ \cup {f} ELSE @]
  /\ f' = f + 1
  /\ UNCHANGED <<world, prog, c, results, disk, report>>

RescanFile ==
  /\ prog = "rescan" /\ c <= Len(Rescanned) /\ f <= Len(Files)
  /\ LET hits == CountedHits(Files[f], Rescanned[c].parser)
     IN  tally' = [tally EXCEPT !.n = @ + 1,
                                !.idiom = IF hits # {} THEN @ \cup {f} ELSE @,
                                !.upstream = IF \E h \in hits :
                                  Semantics(h.key) = "provenance_upstream"
                                             THEN @ \cup {f} ELSE @]
  /\ f' = f + 1
  /\ UNCHANGED <<world, prog, c, results, disk, report>>

Corpora == IF prog = "scan" THEN Scanned ELSE Rescanned

FinishCorpus ==
  /\ prog # "none" /\ c <= Len(Corpora) /\ f > Len(Files)
  /\ results' = Append(results, tally)
  /\ c' = c + 1 /\ f' = 1 /\ tally' = NoTally
  /\ UNCHANGED <<world, prog, disk, report>>

ScanDecision ==
  IF \E k \in DOMAIN results : results[k].idiom # {} /\ ~Scanned[k].control THEN "HIT" ELSE "NULL"

WriteScan ==
  /\ prog = "scan" /\ c > Len(Scanned)
  /\ disk' = <<[decision |-> ScanDecision, results |-> results,
                controlReproduced |-> \E k \in DOMAIN results : Scanned[k].control
                  /\ results[k].idiom = {}]>>
  /\ prog' = "none"
  /\ UNCHANGED <<world, c, f, tally, results, report>>

RescanDecision ==
  LET struct == \E k \in DOMAIN results : results[k].idiom # {}
      prov == \E k \in DOMAIN results : results[k].upstream # {}
  IN  IF struct /\ prov THEN "STRUCTURAL_PRESENT_PROVENANCE_HIT"
      ELSE IF struct THEN "STRUCTURAL_PRESENT_PROVENANCE_NULL" ELSE "STRUCTURAL_NULL"

\* The control row is taken from the scan's file when there is one, with an
\* upstream rate of zero; the reading is the same text whatever the decision.
WriteRescan ==
  /\ prog = "rescan" /\ c > Len(Rescanned)
  /\ report' = <<[decision |-> RescanDecision, results |-> results,
                  h0 |-> IF disk = << >> THEN << >>
                         ELSE <<[files |-> MapThenSumSet(LAMBDA k : disk[1].results[k].n,
                                                         DOMAIN disk[1].results)]>>,
                  readsUpstreamRate |-> 0]>>
  /\ prog' = "none"
  /\ UNCHANGED <<world, c, f, tally, results, disk>>

Next ==
  \/ \E p \in {"scan", "rescan"} : Start(p)
  \/ ScanFile \/ RescanFile \/ FinishCorpus \/ WriteScan \/ WriteRescan

Spec == Init /\ [][Next]_vars

-----------------------------------------------------------------------------
(* Properties.                                                             *)

TypeOK ==
  /\ world \in Worlds /\ prog \in {"none", "scan", "rescan"}
  /\ Len(results) <= c /\ c <= Len(Corpora) + 1
  /\ tally.n = f - 1 /\ Len(disk) <= 1 /\ Len(report) <= 1

RegoFiles ==
  {x \in UNION {ToSet(world.scan[k]) :
                k \in {j \in DOMAIN Scanned : Scanned[j].language = "rego"}} : x.parses}

\* "files_with_provenance_upstream <= files_with_structural_idiom", and the
\* funnel of the scan: an upstream file is a structural one, an idiom is a
\* numeric comparison, and no file counts beyond those of the corpus.
FunnelOrdered ==
  \A t \in {tally} \cup ToSet(results) :
    /\ t.upstream \subseteq t.idiom /\ t.idiom \subseteq 1..t.n
    /\ prog = "scan" => t.idiom \subseteq t.numeric

Turned == [op \in Ordered |-> CASE op = "<" -> ">" [] op = "<=" -> ">=" [] op = ">" -> "<"
                                  [] op = ">=" -> "<="]

\* The same rule with every comparison written the other way round.
Mirrored(file) ==
  [file EXCEPT !.comparisons = [k \in DOMAIN @ |-> [a |-> @[k].b, b |-> @[k].a,
                                                   op |-> Turned[@[k].op]]]]

\* Writing a Rego rule the other way round changes neither signal, and the same field
\* and threshold are named unless both sides are keyed.  The operator named is the one
\* of the text, so it is reversed with it: it stands between field and threshold in one
\* of the two writings only (detect_rego).
MirrorTurnsOnlyTheOperator ==
  \A x \in RegoFiles :
    LET h == DetectRego(x)
        m == DetectRego(Mirrored(x))
        bothKeyed == \E k \in DOMAIN x.comparisons :
                       Depends(x.comparisons[k].a) /\ Depends(x.comparisons[k].b)
    IN  /\ m.idiom = h.idiom /\ m.numeric = h.numeric
        /\ h.idiom => /\ m.op = Turned[h.op]
                      /\ bothKeyed \/ (m.num = h.num /\ m.thr = h.thr)

KyvernoFiles ==
  {x \in UNION {ToSet(world.scan[k]) :
                k \in {j \in DOMAIN Scanned : Scanned[j].language = "kyverno"}} : x.parses}

\* A named field is compared with a map under a discrete key, or a condition's value
\* is templated on one.
KyvernoTruth(file) ==
  \/ \E k \in DOMAIN file.cel : {file.cel[k].lhs, file.cel[k].rhs} = {"name", "keyed_map"}
  \/ "templated" \in ToSet(file.conditions)

\* Kyverno is read one way round: an idiom is missed only where every map stands on the
\* left, and one that is not there is counted only for a word in the path of an index
\* (detect_kyverno).
KyvernoErrsBySide ==
  \A x \in KyvernoFiles :
    /\ KyvernoTruth(x) /\ ~DetectKyverno(x).idiom =>
         \A k \in DOMAIN x.cel : x.cel[k].rhs # "keyed_map"
    /\ DetectKyverno(x).idiom /\ ~KyvernoTruth(x) =>
         \E k \in DOMAIN x.cel : x.cel[k].rhs = "worded_index"

Truth(file) ==
  \E k \in DOMAIN file.comparisons : \E r \in ToSet(Readings(file.comparisons[k])) :
    r.num.kind = "ref" /\ r.num.key = "none" /\ r.thr.selects >= 2

Documented(file) ==
  /\ \A k \in DOMAIN file.comparisons : \A t \in {file.comparisons[k].a,
                                                  file.comparisons[k].b} : ~t.builtin
  /\ \A k \in DOMAIN file.comparisons : \A t \in {file.comparisons[k].a, file.comparisons[k].b} :
       Depends(t) => t.selects = Cardinality(file.literals)

\* On the documented forms of Rego (rules and dictionaries of the policy whose values
\* are the file's literals) the detector is exact.  A call of a builtin is none of them:
\* it counts as keyed whatever it computes.
ExactOnDocumentedForms == \A x \in RegoFiles : Documented(x) => (DetectRego(x).idiom = Truth(x))

\* The scan says HIT exactly when a file outside the control has the idiom.  It says NULL,
\* and that the control is reproduced, also over no file: only the count of files, which
\* is that of the checkout, tells.  The control row of the rescan counts the same files.
DecisionsRestOnFiles ==
  /\ disk # << >> =>
       /\ (disk[1].decision = "HIT") <=>
            \E k \in DOMAIN Scanned : ~Scanned[k].control
              /\ \E j \in DOMAIN world.scan[k] : DetectFile(world.scan[k][j],
                                                            Scanned[k].language).idiom
       /\ \A k \in DOMAIN Scanned : disk[1].results[k].n = Len(world.scan[k])
       /\ (\A k \in DOMAIN Scanned : world.scan[k] = << >>) =>
            disk[1].decision = "NULL" /\ disk[1].controlReproduced
  /\ report # << >> /\ report[1].h0 # << >> =>
       report[1].h0[1].files = MapThenSumSet(LAMBDA k : Len(world.scan[k]), DOMAIN world.scan)

DmnTables ==
  UNION {ToSet(x.tables) : x \in {y \in UNION {ToSet(world.rescan[k]) : k \in
           {j \in DOMAIN Rescanned : Rescanned[j].parser = "dmn"}} : y.parses}}

\* A threshold column is never keyed by itself alone: some other column takes
\* two values.
DmnNeedsASelector ==
  \A t \in DmnTables : \A j \in ThresholdColumns(t.columns) :
    \E s \in DOMAIN t.columns :
      s # j /\ \E p, q \in DOMAIN t.columns[s] : t.columns[s][p] # t.columns[s][q]

\* Rego's signals do not depend on how a comparison is written and are exact on its
\* documented forms, Kyverno's depend on it in the way stated, and the decisions are
\* those of the files that were there.
ScanReadsFilesRight ==
  /\ TypeOK /\ FunnelOrdered /\ MirrorTurnsOnlyTheOperator /\ ExactOnDocumentedForms
  /\ KyvernoErrsBySide /\ DecisionsRestOnFiles /\ DmnNeedsASelector
=============================================================================

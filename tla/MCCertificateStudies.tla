------------------------ MODULE MCCertificateStudies ------------------------
(* The studies of the certificates, the gates and the judges, each over    *)
(* its own small data. A run of this module is a run of one of the         *)
(* programs.                                                               *)
EXTENDS RegistryScan, DSweep

VARIABLE study   \* the program that is run

-----------------------------------------------------------------------------
(* FaultStudies: two related tools and one alone, two fields of two values. *)

FaultDomains == {"synthetic"}
FaultRules == <<
  [tool |-> "loose", action |-> "act", context |-> << >>, family |-> "affine",
   weights |-> <<3, 4>>, bias |-> -40, gain |-> 10,
   offsets |-> [band |-> [low |-> 0, high |-> 6]]],
  [tool |-> "strict", action |-> "act", context |-> << >>, family |-> "scalar_threshold",
   field |-> 1, direction |-> ">=", threshold |-> 4,
   offsets |-> [band |-> [low |-> 0, high |-> -1], tier |-> [std |-> 0, gold |-> -3]]] >>
FaultTable ==
  [synthetic |-> [tools |-> <<"loose", "strict", "lone">>, actions |-> <<"act">>,
                  categories |-> [band |-> <<"low", "high">>, tier |-> <<"std", "gold">>],
                  rules |-> FaultRules]]
FaultX1(b, t) == [band |-> b, tier |-> t]
FaultPool == <<
  [tool |-> "loose", x1 |-> FaultX1("low", "std"), x2 |-> <<1, 2>>],
  [tool |-> "loose", x1 |-> FaultX1("low", "std"), x2 |-> <<1, 4>>],
  [tool |-> "strict", x1 |-> FaultX1("low", "gold"), x2 |-> <<4, 2>>],
  [tool |-> "lone", x1 |-> FaultX1("high", "std"), x2 |-> <<4, 4>>] >>
FaultSwaps == [loose |-> {"strict"}, strict |-> {"loose"}, lone |-> {}]
FaultNoise == {<<1, 0>>, <<0, 3>>}
FaultSkews == {<<50, 0>>, <<-50, 50>>}
FaultCombos ==
  << <<"wrong_provenance_binding">>, <<"wrong_policy_pack">>, <<"toctou_env_label">>,
    <<"schema_skew">>,
  <<"stale_cache", "wrong_provenance_binding">>, <<"toctou_env_label", "numeric_jitter">>,
  <<"wrong_policy_pack", "normalization_skew">>,
  <<"wrong_provenance_binding", "wrong_policy_pack">>,
  <<"wrong_provenance_binding", "toctou_env_label">>, <<"stale_cache", "cache_key_collision">>,
  <<"schema_skew", "stale_cache">>,
  <<"wrong_provenance_binding", "wrong_policy_pack", "toctou_env_label">>,
  <<"wrong_provenance_binding", "toctou_env_label", "numeric_jitter">> >>
FaultKs == <<0, 2>>
FaultCounts == {90, 95, 99}
FaultNeeded == <<92, 94, 96>>
FaultMix ==
  {"numeric_jitter", "stale_cache", "wrong_provenance_binding", "toctou_env_label", "schema_skew"}

VARIABLES faultUsed, faultRec, faultZ, faultK, faultRows, faultFound, faultCi, faultGi, faultFired,
          faultAllFired, faultTaken, faultMaxD, faultLost, faultLip, faultVerdict, faultH,
          faultApplied, faultEscaped, faultSeeds, faultVals, faultBranches, faultAllows, faultCurve,
          faultWritten, faultFi, faultTally, faultTries, faultDrawn, faultPooled, faultPc

faultVars == <<faultUsed, faultRec, faultZ, faultK, faultRows, faultFound, faultCi, faultGi,
               faultFired, faultAllFired, faultTaken, faultMaxD, faultLost, faultLip, faultVerdict,
               faultH, faultApplied, faultEscaped, faultSeeds, faultVals, faultBranches,
               faultAllows, faultCurve, faultWritten, faultFi, faultTally, faultTries, faultDrawn,
               faultPooled, faultPc>>

Fault ==
  INSTANCE FaultStudies WITH
    Domains <- FaultDomains, Table <- FaultTable, Eps <- 2, Budget <- 1, Resolution <- 1,
    Dom <- "synthetic", Action <- "act", Pool <- FaultPool, ProvenanceSwaps <- FaultSwaps,
    EnvField <- "band", Noise <- FaultNoise, Skews <- FaultSkews, Combos <- FaultCombos,
    Samples <- 2, Seeds <- 2, Ks <- FaultKs, BaseBranches <- 1, Counts <- FaultCounts,
    Needed <- FaultNeeded, Mix <- FaultMix, Tries <- 3, prog <- study, used <- faultUsed,
    rec <- faultRec, z <- faultZ, k <- faultK, rows <- faultRows, found <- faultFound,
    ci <- faultCi, gi <- faultGi, fired <- faultFired, allFired <- faultAllFired,
    taken <- faultTaken, maxD <- faultMaxD, lost <- faultLost, lip <- faultLip,
    verdict <- faultVerdict, h <- faultH, applied <- faultApplied, escaped <- faultEscaped,
    seeds <- faultSeeds, vals <- faultVals, branches <- faultBranches, allows <- faultAllows,
    curve <- faultCurve, written <- faultWritten, fi <- faultFi, tally <- faultTally,
    tries <- faultTries, drawn <- faultDrawn, pooled <- faultPooled, pc <- faultPc

FaultIdle ==
  /\ faultUsed = 0 /\ faultRec = 0 /\ faultZ = 0 /\ faultK = 0 /\ faultRows = 0 /\ faultFound = 0
  /\ faultCi = 0 /\ faultGi = 0 /\ faultFired = 0 /\ faultAllFired = 0 /\ faultTaken = 0
  /\ faultMaxD = 0 /\ faultLost = 0 /\ faultLip = 0 /\ faultVerdict = 0 /\ faultH = 0
  /\ faultApplied = 0 /\ faultEscaped = 0 /\ faultSeeds = 0 /\ faultVals = 0 /\ faultBranches = 0
  /\ faultAllows = 0 /\ faultCurve = 0 /\ faultWritten = 0 /\ faultFi = 0 /\ faultTally = 0
  /\ faultTries = 0 /\ faultDrawn = 0 /\ faultPooled = 0 /\ faultPc = 0

ASSUME Fault!NeededGrows

-----------------------------------------------------------------------------
(* DSweep, extended: two tools and one field of two values, so d = 2 reaches *)
(* all states.                                                             *)

SweepDomains == {"synthetic"}
SweepRule(tool, threshold, offset) ==
  [tool |-> tool, action |-> "act", context |-> << >>, family |-> "scalar_threshold",
   field |-> 1, direction |-> ">=", threshold |-> threshold,
   offsets |-> [band |-> [low |-> 0, high |-> offset]]]
SweepTable ==
  [synthetic |-> [tools |-> <<"loose", "strict">>, actions |-> <<"act">>,
                  categories |-> [band |-> <<"low", "high">>],
                  rules |-> <<SweepRule("loose", 9, 2), SweepRule("strict", 7, -2)>>]]

SweepRec(tool, band, x, category) ==
  [z |-> [domain |-> "synthetic", tool |-> tool, x1 |-> [band |-> band], x2 |-> <<x, 1>>],
   category |-> category]
SweepRecs ==
  <<SweepRec("loose", "low", 3, "R"), SweepRec("loose", "low", 6, "C"),
    SweepRec("strict", "high", 4, "B")>>
ASSUME \A i \in CertIds : CertRecs[i].category = Category(CertRec(i), SweepAction)

SweepShape(f(_, _)) == [s \in DiscreteStates("synthetic") |-> f(s.tool, s.x1.band)]
SweepFollowing ==
  SweepShape(LAMBDA tl,
             bd : <<(IF tl = "loose" THEN 18 ELSE 14) + (IF bd = "high" THEN -4 ELSE 0), -2, 0>>)
SweepBlind == SweepShape(LAMBDA tl, bd : <<IF bd = "low" THEN 17 ELSE 12, -2, 0>>)
SweepLenient == SweepShape(LAMBDA tl, bd : <<9, 0, 0>>)
SweepGates == {SweepFollowing, SweepBlind, SweepLenient}

SweepCountMaps ==
  {SweepShape(LAMBDA tl, bd : IF tl = "loose" THEN 2 ELSE 1),
   SweepShape(LAMBDA tl, bd : IF bd = "low" THEN 2 ELSE 0)}
\* Thousandths; a count of 1 passes tau with at most two branches.
SweepEll ==
  [n \in 1..4 |-> [k \in 0..2 |-> CASE k = 2 -> 970 - 10 * n [] k = 1 -> 950 - 20 * n
                   [] k = 0 -> 500]]
SweepBothTracks == <<"synthetic", "opa">>

\* No track is left and no row was written.
SweepIdle ==
  /\ sweepTrack = Len(Tracks) + 1 /\ sweepD = 1 /\ sweepBackend = 1
  /\ sweepLipOk = FALSE /\ sweepGate = SweepLenient
  /\ sweepDraws = [i \in CertIds |-> CHOOSE c \in CountMaps : TRUE]
  /\ sweepRows = {} /\ sweepSkipped = FALSE /\ sweepSummary = << >>

ASSUME SweepAssumption
ASSUME PolicyAssumption

-----------------------------------------------------------------------------
(* CompleteVerification: networks of one and two hidden layers, and a linear one. *)

VerifyDomains == {"fin"}
VerifyRule(tool, thr) ==
  [tool |-> tool, action |-> "act", context |-> << >>, family |-> "scalar_threshold",
   field |-> 1, direction |-> ">=", threshold |-> thr, offsets |-> << >>]
VerifyTable ==
  [fin |-> [tools |-> <<"loose", "strict">>, actions |-> <<"act">>,
            categories |-> [band |-> <<"low", "high">>],
            rules |-> <<VerifyRule("loose", 9), VerifyRule("strict", 7)>>]]
VerifyFieldOrder == <<"band">>
VerifyDirs == {<<1, 1>>, <<1, -1>>, <<-1, 1>>, <<-1, -1>>}

VerifyN(w, b) == [w |-> w, b |-> b]
\* Inputs: loose, strict, low, high, x, y.
VerifyFolded ==
  <<<<VerifyN(<<0, 0, 0, 0, 1, 0>>, -5), VerifyN(<<0, -1, 1, 0, -1, 1>>, 5)>>,
    <<VerifyN(<<-2, 1>>, 2)>>>>
VerifyDeep == <<<<VerifyN(<<1, 0, 0, -1, -1, 0>>, 7), VerifyN(<<0, 1, 0, 0, 1, -1>>, -4)>>,
          <<VerifyN(<<2, -1>>, -1), VerifyN(<<-1, 1>>, 0)>>, <<VerifyN(<<1, -2>>, -1)>>>>
VerifyLinear == <<<<VerifyN(<<9, 7, 0, 0, -1, 0>>, 0)>>>>
VerifyNets == {VerifyFolded, VerifyDeep, VerifyLinear}
VerifyLipGate == VerifyFolded

VerifyRet(tool, band, x, y) ==
  [domain |-> "fin", tool |-> tool, x1 |-> [band |-> band], x2 |-> <<x, y>>]
VerifyRecs == <<VerifyRet("loose", "low", 3, 2), VerifyRet("strict", "high", 6, 1)>>
VerifySamples ==
  {{VerifyRet("loose", "low", 3, 1), VerifyRet("loose", "high", 6, 1),
    VerifyRet("strict", "low", 8, 1)},
              {VerifyRet("loose", "low", 5, 1), VerifyRet("strict", "high", 2, 0)}}

VARIABLES verifyPhase, verifyGate, verifyI, verifyTodo, verifyLeast, verifySolved, verifyRows,
          verifyTable

verifyVars == <<verifyPhase, verifyGate, verifyI, verifyTodo, verifyLeast, verifySolved, verifyRows,
                verifyTable>>

Verify ==
  INSTANCE CompleteVerification WITH
    Domains <- VerifyDomains, Table <- VerifyTable, Eps <- 2, Budget <- 1, Resolution <- 1,
    Dom <- "fin", Action <- "act", FieldOrder <- VerifyFieldOrder, SampledDirs <- VerifyDirs,
    Nets <- VerifyNets, LipGate <- VerifyLipGate, Recs <- VerifyRecs, Samples <- VerifySamples,
    CertL <- 1, Infinity <- 1000, phase <- verifyPhase, gate <- verifyGate, i <- verifyI,
    todo <- verifyTodo, least <- verifyLeast, solved <- verifySolved, rows <- verifyRows,
    table <- verifyTable

VerifyIdle ==
  /\ verifyPhase = 0 /\ verifyGate = 0 /\ verifyI = 0 /\ verifyTodo = 0 /\ verifyLeast = 0
  /\ verifySolved = 0 /\ verifyRows = 0 /\ verifyTable = 0

-----------------------------------------------------------------------------
(* Fragment: specs inside the fragment, malformed ones, and marked ones.   *)

FragmentStr(t) == [text |-> t, type |-> "string"]
FragmentNum(t) == [text |-> t, type |-> "number"]
FragmentA == FragmentStr("a")
FragmentB == FragmentStr("b")

FragmentL(w, b) == [form |-> "list", w |-> w, map |-> {}, b |-> b, nan |-> FALSE]
FragmentDM(m, b) == [form |-> "map", w |-> << >>, map |-> m, b |-> b, nan |-> FALSE]
FragmentNaN(w) == [form |-> "list", w |-> w, map |-> {}, b |-> 0, nan |-> TRUE]
FragmentOther == [form |-> "other", w |-> << >>, map |-> {}, b |-> 0, nan |-> FALSE]

FragmentBase(fields, branches) ==
  [marked |-> {}, fields |-> fields, key |-> "s", values |-> DOMAIN branches, branches |-> branches]
FragmentTwoF == <<"x0", "x1">>
FragmentOneF == <<"x0">>
FragmentLists ==
  {<<FragmentL(<<3, 4>>, b)>> : b \in {10, 25, 28}}
    \cup {<<FragmentL(<<4, -3>>, 20), FragmentL(<<0, 1>>, c)>> : c \in {5, 7}} \cup
         {<< >>, <<FragmentL(<<0, 0>>, 0)>>, <<FragmentL(<<0, 0>>, -1)>>}
FragmentGood ==
  {FragmentBase(FragmentTwoF, [v \in {FragmentA, FragmentB} |-> IF v = FragmentA THEN p
                               ELSE q]) : p \in FragmentLists, q \in FragmentLists} \cup
        {FragmentBase(FragmentOneF, [v \in {FragmentA} |-> <<FragmentL(<<1>>, b)>>]) :
         b \in {4, 5, 6}} \cup
        {FragmentBase(FragmentOneF, [v \in {FragmentA, FragmentB} |-> IF v = FragmentA
                                     THEN <<FragmentL(<<-2>>, 10)>> ELSE <<FragmentL(<<1>>, 8)>>])}
FragmentOdd ==
  {FragmentBase(FragmentTwoF,
                [v \in {FragmentA} |-> <<FragmentDM({<<"x0", 3>>, <<"x1", 4>>}, 28)>>]),
        FragmentBase(FragmentTwoF, [v \in {FragmentA} |-> <<FragmentDM({<<"x0", 5>>}, 28)>>]),
        FragmentBase(FragmentOneF, [v \in {FragmentA} |-> <<FragmentDM({<<"x9", 5>>}, 28)>>]),
        FragmentBase(FragmentOneF,
                     [v \in {FragmentA} |-> <<FragmentL(<<1>>, 8), FragmentNaN(<<1>>)>>]),
        FragmentBase(FragmentOneF,
                     [v \in {FragmentA, FragmentNum("1")} |-> <<FragmentL(<<1>>, 0)>>])}
FragmentG == FragmentBase(FragmentOneF, [v \in {FragmentA} |-> <<FragmentL(<<1>>, 5)>>])
FragmentBad ==
  {[FragmentG EXCEPT !.marked = {k}] : k \in {"numeric_disjunction", "nonlinear", "division",
                                              "regex", "unbounded_categorical"}} \cup
       {[FragmentG EXCEPT !.fields = << >>], [FragmentG EXCEPT !.key = ""],
        [FragmentG EXCEPT !.values = {}],
        [FragmentG EXCEPT !.values = {FragmentA, FragmentB}],
        FragmentBase(FragmentOneF, [v \in {FragmentA} |-> <<FragmentL(<<3, 4>>, 5)>>]),
        FragmentBase(FragmentTwoF, [v \in {FragmentA} |-> <<FragmentL(<<3>>, 5)>>]),
        FragmentBase(FragmentOneF, [v \in {FragmentA} |-> <<FragmentOther>>])}

FragmentSpecs == FragmentGood \cup FragmentOdd \cup FragmentBad
FragmentStrangers == {FragmentStr("z")}
FragmentPoints == << {<<0>>, <<1>>, <<-3>>}, {<<0, 0>>, <<1, 0>>, <<-1, 2>>} >>
FragmentBall ==
  << {<<i>> : i \in -5..5}, {o \in (-5..5) \X (-5..5) : o[1] * o[1] + o[2] * o[2] <= 25} >>
FragmentC(w, b) == [w |-> w, b |-> b, nan |-> FALSE]
FragmentP(fields, branches) ==
  [ok |-> TRUE, fields |-> fields, values |-> DOMAIN branches, branches |-> branches]

FragmentPolicies == {
  FragmentP(<<"x0", "x1">>, [v \in {FragmentA, FragmentB} |-> IF v = FragmentA
                             THEN <<FragmentC(<<3, 4>>, 25), FragmentC(<<0, 0>>, 1)>>
                                    ELSE <<FragmentC(<<0, 1>>, 7)>>]),
  FragmentP(<<"x0", "x1">>, [v \in {FragmentA, FragmentB} |-> IF v = FragmentA
                             THEN <<FragmentC(<<-4, 3>>, 26)>>
                                    ELSE <<FragmentC(<<3, 4>>, 30), FragmentC(<<1, 0>>, 5)>>]),
  FragmentP(<<"x0">>, [v \in {FragmentA} |-> <<FragmentC(<<1>>, 6), FragmentC(<<-2>>, 14)>>]) }
FragmentDraws == << {<<0>>, <<5>>, <<-5>>, <<2>>}, {<<0, 0>>, <<3, 4>>, <<-4, 3>>, <<2, -2>>} >>

VARIABLES fragmentParsed, fragmentHanded, fragmentRego, fragmentAsked, fragmentAnswer, fragmentPid,
          fragmentJudged, fragmentLatest, fragmentCount, fragmentPerPolicy, fragmentOof,
          fragmentRefused, fragmentPc, fragmentJson, fragmentSummary, fragmentTmpRego

fragmentVars == <<fragmentParsed, fragmentHanded, fragmentRego, fragmentAsked, fragmentAnswer,
                  fragmentPid, fragmentJudged, fragmentLatest, fragmentCount, fragmentPerPolicy,
                  fragmentOof, fragmentRefused, fragmentPc, fragmentJson, fragmentSummary,
                  fragmentTmpRego>>

Fragment ==
  INSTANCE Fragment WITH
    Specs <- FragmentSpecs, Strangers <- FragmentStrangers, Points <- FragmentPoints,
    Ball <- FragmentBall, Policies <- FragmentPolicies, Draws <- FragmentDraws, NPolicies <- 2,
    NReturns <- 2, NOof <- 6, NOpa <- 1, NBall <- TRUE, GridSteps <- 3, Eps <- 5, D <- 1,
    prog <- study, parsed <- fragmentParsed, handed <- fragmentHanded, rego <- fragmentRego,
    asked <- fragmentAsked, answer <- fragmentAnswer, pid <- fragmentPid,
    judged <- fragmentJudged, latest <- fragmentLatest, count <- fragmentCount,
    perPolicy <- fragmentPerPolicy, oof <- fragmentOof, refused <- fragmentRefused,
    pc <- fragmentPc, json <- fragmentJson, summary <- fragmentSummary, tmpRego <- fragmentTmpRego

FragmentIdle ==
  /\ fragmentParsed = 0 /\ fragmentHanded = 0 /\ fragmentRego = 0 /\ fragmentAsked = 0
  /\ fragmentAnswer = 0 /\ fragmentPid = 0 /\ fragmentJudged = 0 /\ fragmentLatest = 0
  /\ fragmentCount = 0 /\ fragmentPerPolicy = 0 /\ fragmentOof = 0 /\ fragmentRefused = 0
  /\ fragmentPc = 0 /\ fragmentJson = 0 /\ fragmentSummary = 0 /\ fragmentTmpRego = 0

-----------------------------------------------------------------------------
(* GateAttack: gates by tool offset, tests with records of every category. *)

AttackDomains == {"fin"}
AttackRule(tool, thr) ==
  [tool |-> tool, action |-> "act", context |-> << >>, family |-> "scalar_threshold",
   field |-> 1, direction |-> ">=", threshold |-> thr,
   offsets |-> [band |-> [low |-> 0, high |-> -1]]]
AttackTable ==
  [fin |-> [tools |-> <<"loose", "strict">>, actions |-> <<"act">>,
            categories |-> [band |-> <<"low", "high">>],
            rules |-> <<AttackRule("loose", 9), AttackRule("strict", 7)>>]]
AttackQuantile == [t80 |-> 1, t95 |-> 2]

AttackGate(a, b) == [loose |-> a, strict |-> b]
AttackGates == {AttackGate(0, 0), AttackGate(-1, 4)}

AttackRet(tool, band, x) ==
  [domain |-> "fin", tool |-> tool, x1 |-> [band |-> band], x2 |-> <<x, 1>>]
AttackTests ==
  {<<AttackRet("loose", "low", 1), AttackRet("loose", "low", 5), AttackRet("strict", "low", 4),
     AttackRet("loose", "high", 3), AttackRet("loose", "low", 9)>>,
   <<AttackRet("strict", "high", 2), AttackRet("loose", "low", 6),
     AttackRet("strict", "high", 8), AttackRet("loose", "high", 1),
     AttackRet("strict", "low", 0)>>,
   <<AttackRet("loose", "low", 8)>>}
AttackDraws == {{<<0, 1>>, <<-1, 1>>}, {<<1, 1>>, <<3, 2>>}}
AttackSlacks == {-1, 0}
AttackSettings == <<"t80", "t95">>
AttackLabels == <<"finance", "sre">>
AttackEpsGrid == <<2, 4>>
AttackTauGrid == <<"t80", "t95">>
AttackMcGrid == <<500>>
AttackMcSeeds == <<0, 1>>

VARIABLES attackDriver, attackTodo, attackCollected, attackPhase, attackReport, attackSplit,
          attackLast, attackDiag, attackCerts, attackRuns

attackVars == <<attackDriver, attackTodo, attackCollected, attackPhase, attackReport, attackSplit,
                attackLast, attackDiag, attackCerts, attackRuns>>

Attack ==
  INSTANCE GateAttack WITH
    Domains <- AttackDomains, Table <- AttackTable, Budget <- 1, Resolution <- 1, Action <- "act",
    NRadii <- 2, Quantile <- AttackQuantile, Labels <- AttackLabels, Gates <- AttackGates,
    Tests <- AttackTests, Slacks <- AttackSlacks, Draws <- AttackDraws, NAttack <- 2,
    EpsGrid <- AttackEpsGrid, TauGrid <- AttackTauGrid, MainEps <- 2, MainTau <- "t80",
    McGrid <- AttackMcGrid, McSeeds <- AttackMcSeeds, NPerCat <- 2, Settings <- AttackSettings,
    MaxRuns <- 2, prog <- study, driver <- attackDriver, todo <- attackTodo,
    collected <- attackCollected, phase <- attackPhase, report <- attackReport,
    split <- attackSplit, last <- attackLast, diag <- attackDiag, certs <- attackCerts,
    runs <- attackRuns

AttackIdle ==
  /\ attackDriver = 0 /\ attackTodo = 0 /\ attackCollected = 0 /\ attackPhase = 0
  /\ attackReport = 0 /\ attackSplit = 0 /\ attackLast = 0 /\ attackDiag = 0 /\ attackCerts = 0
  /\ attackRuns = 0

-----------------------------------------------------------------------------
(* JudgeBaselines: a full pool, one without witnesses of a domain, one empty. *)

JudgeDomains == {"fin", "sre"}
JudgeOrder == <<"fin", "sre">>
JudgeRule(tool, thr) ==
  [tool |-> tool, action |-> "act", context |-> << >>, family |-> "scalar_threshold",
   field |-> 1, direction |-> ">=", threshold |-> thr,
   offsets |-> [band |-> [low |-> 0, high |-> -1]]]
JudgeDom ==
  [tools |-> <<"loose", "strict">>, actions |-> <<"act">>,
   categories |-> [band |-> <<"low", "high">>],
        rules |-> <<JudgeRule("loose", 9), JudgeRule("strict", 7)>>]
JudgeTable == [fin |-> JudgeDom, sre |-> JudgeDom]

JudgeRet(dom, tool, x) == [domain |-> dom, tool |-> tool, x1 |-> [band |-> "low"], x2 |-> <<x, 1>>]
JudgeFin ==
  <<JudgeRet("fin", "loose", 6), JudgeRet("fin", "loose", 1), JudgeRet("fin", "strict", 9),
    JudgeRet("fin", "loose", 5), JudgeRet("fin", "loose", 5)>>
JudgePools ==
  [full |-> [fin |-> JudgeFin,
             sre |-> <<JudgeRet("sre", "loose", 2), JudgeRet("sre", "loose", 5),
                       JudgeRet("sre", "loose", 6), JudgeRet("sre", "strict", 3)>>],
   short |-> [fin |-> JudgeFin, sre |-> <<JudgeRet("sre", "strict", 9)>>],
   none |-> [fin |-> << >>, sre |-> <<JudgeRet("sre", "strict", 9)>>]]

JudgeReply(exact, field, words, lead, unsafe, judge, guard) ==
  [empty |-> FALSE, plain |-> FALSE, exact |-> exact, field |-> field, words |-> words,
   lead |-> lead, unsafe |-> unsafe, means |-> [judge |-> judge, guard |-> guard]]
JudgeWord(words, lead, unsafe, judge, guard) ==
  [JudgeReply("none", {}, words, lead, unsafe, judge, guard) EXCEPT !.plain = TRUE]
JudgeReplies ==
  {\* {"verdict": "allow"}
   JudgeReply("allow", {"allow"}, {"allow"}, "other", FALSE, "allow", "allow"),
   \* {"verdict": "deny", "rationale": "... not safe ..."}
   JudgeReply("deny", {"deny"}, {"allow", "deny"}, "other", FALSE, "deny", "deny"),
   \* {"verdict": "disallow", "rationale": "unsafe"}
   JudgeReply("none", {"allow"}, {"deny"}, "other", TRUE, "deny", "deny"),
   \* {"verdict": "uncertain", "rationale": "... safe ..."}
   JudgeReply("none", {}, {"allow"}, "other", FALSE, "neither", "neither"),
   \* a remark, then: allow
   JudgeReply("none", {}, {"allow"}, "other", FALSE, "allow", "allow"),
   \* I cannot approve this
   JudgeReply("none", {}, {"allow"}, "other", FALSE, "deny", "deny"),
   \* safe at first sight, then: unsafe
   JudgeReply("none", {}, {"allow", "deny"}, "safe", TRUE, "deny", "deny"),
   \* No: must not be done
   JudgeReply("none", {}, {"deny"}, "no", FALSE, "deny", "deny"),
   \* the words a guard is made to say: safe, unsafe, Yes (it violates), No
   JudgeWord({"allow"}, "safe", FALSE, "allow", "allow"),
   JudgeWord({"deny"}, "other", TRUE, "deny", "deny"),
   JudgeWord({"allow"}, "yes", FALSE, "allow", "deny"),
   JudgeWord({"deny"}, "no", FALSE, "deny", "allow")}
    \cup {[JudgeReply("none", {}, {}, "other", FALSE, "neither", "neither") EXCEPT !.empty = TRUE]}

JudgeName(family, tag) == [family |-> family, tag |-> tag]
JudgeModel == JudgeName("qwen", "7b")
JudgeGuard == JudgeName("guard", "1b")
JudgeServers ==
  {{}, {JudgeModel}, {JudgeName("qwen", "72b")}, {JudgeModel, JudgeGuard},
   {JudgeModel, JudgeName("guard", "8b")}}

VARIABLES judgePc, judgePool, judgeQueries, judgeUp, judgeTags, judgeStopped, judgeStage,
          judgeRound, judgeRows, judgeStages, judgeLines, judgeSummary

judgeVars == <<judgePc, judgePool, judgeQueries, judgeUp, judgeTags, judgeStopped, judgeStage,
               judgeRound, judgeRows, judgeStages, judgeLines, judgeSummary>>

Judge ==
  INSTANCE JudgeBaselines WITH
    Domains <- JudgeDomains, Table <- JudgeTable, Eps <- 2, Budget <- 1, Resolution <- 1,
    DomainOrder <- JudgeOrder, Pools <- JudgePools, Action <- "act", NC <- 3, NR <- 1,
    Replies <- JudgeReplies, Phrasings <- 1, Seeds <- 2, Model <- JudgeModel, Guard <- JudgeGuard,
    Servers <- JudgeServers, pc <- judgePc, pool <- judgePool, queries <- judgeQueries,
    up <- judgeUp, tags <- judgeTags, stopped <- judgeStopped, stage <- judgeStage,
    round <- judgeRound, rows <- judgeRows, stages <- judgeStages,
    lines <- judgeLines, summary <- judgeSummary

JudgeIdle ==
  /\ judgePc = 0 /\ judgePool = 0 /\ judgeQueries = 0 /\ judgeUp = 0 /\ judgeTags = 0
  /\ judgeStopped = 0 /\ judgeStage = 0 /\ judgeRound = 0 /\ judgeRows = 0 /\ judgeStages = 0
  /\ judgeLines = 0 /\ judgeSummary = 0

-----------------------------------------------------------------------------
(* RegistryScan, extended, for its properties are proved of the module as it *)
(* is: listings that shift between runs, and a cursor that repeats.        *)

RegistryF(type, enum, cont, pipe, subj) ==
  [type |-> type, enum |-> enum, cont |-> cont, pipe |-> pipe, subj |-> subj]
RegistryScore == RegistryF("number", FALSE, TRUE, FALSE, FALSE)
RegistryAmbiguous == RegistryF("string", FALSE, FALSE, TRUE, TRUE)
RegistrySource == RegistryF("string", FALSE, FALSE, TRUE, FALSE)
RegistryVersionEnum == RegistryF("integer", TRUE, FALSE, TRUE, FALSE)
RegistryCount == RegistryF("integer", FALSE, FALSE, FALSE, FALSE)

RegistryPage(servers, pages) ==
  [servers |-> servers, total |-> 3, pages |-> pages, more |-> FALSE, next |-> "none",
   tools |-> << >>]
RegistryDetail(tools) ==
  [servers |-> << >>, total |-> -1, pages |-> 0, more |-> FALSE, next |-> "none", tools |-> tools]
RegistryGPage(servers, more, next) ==
  [servers |-> servers, total |-> -1, pages |-> 0, more |-> more, next |-> next, tools |-> << >>]

RegistryUrls == {"list1", "list2", "detail1", "detail2", "glama", "glama+c1"}
RegistryListUrl == <<"list1", "list2">>
RegistryDetailUrl == <<"detail1", "detail2">>
RegistryGlamaUrl == [c \in {"none", "c1"} |-> IF c = "none" THEN "glama" ELSE "glama+c1"]
RegistryKey == [u \in RegistryUrls |-> u]

\* What the first registry serves varies; the second's last page may be empty
\* and promise another.
RegistryServing(first, second, one, two, glama, glama2, more) ==
  [u \in RegistryUrls |->
    CASE u = "list1" -> RegistryPage(first, 2) [] u = "list2" -> RegistryPage(second, 2)
      [] u = "detail1" -> RegistryDetail(one) [] u = "detail2" -> RegistryDetail(two)
      [] u = "glama" -> RegistryGPage(glama, TRUE, "c1")
        [] u = "glama+c1" -> RegistryGPage(glama2, more, "c1")]
RegistryTagged == << <<RegistryScore, RegistryAmbiguous>>, << >> >>
RegistryWorlds ==
  {RegistryServing(<<2>>, <<1>>, RegistryTagged, << <<RegistryScore, RegistryVersionEnum>> >>,
                   <<11>>, <<12, 13>>, FALSE),
   RegistryServing(<<1>>, <<2>>, << <<RegistryScore, RegistryAmbiguous>> >>,
                   << <<RegistryCount>> >>, <<11>>, << >>, TRUE),
   RegistryServing(<<1>>, <<2>>, RegistryTagged, << << >> >>, <<12>>, <<11>>, FALSE)}

RegistryIdle == ScanInit /\ world = CHOOSE w \in Worlds : TRUE

ASSUME ScanAssumption
ASSUME KeysDistinct

-----------------------------------------------------------------------------
(* One study at a time.                                                    *)

vars ==
  <<study, faultVars, sweepVars, verifyVars, fragmentVars, attackVars, judgeVars, scanVars>>

Init ==
  \/ /\ Fault!Init
     /\ SweepIdle /\ VerifyIdle /\ FragmentIdle /\ AttackIdle /\ JudgeIdle /\ RegistryIdle
  \/ /\ study = "sweep" /\ SweepInit
     /\ FaultIdle /\ VerifyIdle /\ FragmentIdle /\ AttackIdle /\ JudgeIdle /\ RegistryIdle
  \/ /\ study = "verify" /\ Verify!Init
     /\ FaultIdle /\ SweepIdle /\ FragmentIdle /\ AttackIdle /\ JudgeIdle /\ RegistryIdle
  \/ /\ Fragment!Init
     /\ FaultIdle /\ SweepIdle /\ VerifyIdle /\ AttackIdle /\ JudgeIdle /\ RegistryIdle
  \/ /\ Attack!Init
     /\ FaultIdle /\ SweepIdle /\ VerifyIdle /\ FragmentIdle /\ JudgeIdle /\ RegistryIdle
  \/ /\ study = "judge" /\ Judge!Init
     /\ FaultIdle /\ SweepIdle /\ VerifyIdle /\ FragmentIdle /\ AttackIdle /\ RegistryIdle
  \/ /\ study = "registry" /\ ScanInit
     /\ FaultIdle /\ SweepIdle /\ VerifyIdle /\ FragmentIdle /\ AttackIdle /\ JudgeIdle

Next ==
  \/ /\ study \in {"stacks", "escape", "budget"} /\ Fault!Next
     /\ UNCHANGED <<sweepVars, verifyVars, fragmentVars, attackVars, judgeVars, scanVars>>
  \/ /\ study = "sweep" /\ SweepNext
     /\ UNCHANGED <<study, faultVars, verifyVars, fragmentVars, attackVars, judgeVars,
                    scanVars>>
  \/ /\ study = "verify" /\ Verify!Next
     /\ UNCHANGED <<study, faultVars, sweepVars, fragmentVars, attackVars, judgeVars, scanVars>>
  \/ /\ study \in {"use", "battery"} /\ Fragment!Next
     /\ UNCHANGED <<faultVars, sweepVars, verifyVars, attackVars, judgeVars, scanVars>>
  \/ /\ study \in {"attack", "tables"} /\ Attack!Next
     /\ UNCHANGED <<faultVars, sweepVars, verifyVars, fragmentVars, judgeVars, scanVars>>
  \/ /\ study = "judge" /\ Judge!Next
     /\ UNCHANGED <<study, faultVars, sweepVars, verifyVars, fragmentVars, attackVars,
                    scanVars>>
  \/ /\ study = "registry" /\ ScanNext
     /\ UNCHANGED <<study, faultVars, sweepVars, verifyVars, fragmentVars, attackVars, judgeVars>>

Spec == Init /\ [][Next]_vars /\ WF_scanVars(ScanStep)

-----------------------------------------------------------------------------
(* What each study is checked for.                                         *)

\* A drift measured between a record and what a faulty stack served is no more
\* than the faults that fired account for (exp_fault_injection.py, compound_fault_injection.py).
DriftsExplained == study \in {"stacks", "escape", "budget"} => Fault!DriftsExplained

\* The branch and bound decides what the gate does on the whole polytope
\* (complete_verification.verify_record, main).
VerifierIsExact == study = "verify" => Verify!VerifierIsExact

\* Parser, closed form, solver and emitted policy agree on the fragment, and a
\* spec outside it is refused (cert/fragment.py, cx3_differential.py).
FragmentExact == study \in {"use", "battery"} => Fragment!FragmentExact

\* No attack in the budget gets past the certificate of the gate it attacks, and
\* the tables count what was attacked (adaptive_gate_attack.py).
AttackMeetsCertificate == study \in {"attack", "tables"} => Attack!AttackMeetsCertificate

\* What is counted as allowed of the witnesses is what was meant, up to the replies that
\* were not put as the prompt asks, and the metrics are those of the replies the server
\* gave before it stopped (llm_judge_baselines.py).
JudgeReportsHold == study = "judge" => Judge!JudgeReportsHold

=============================================================================

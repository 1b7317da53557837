-------------------------- MODULE MCPolicyStudies ---------------------------
(* The studies of policies and policy engines, each over its own small     *)
(* data. A run of this module is a run of one of the programs.             *)
EXTENDS FiniteSets, Integers, Sequences, SequencesExt

VARIABLE study   \* the program that is run

-----------------------------------------------------------------------------
(* OpaGate: three draws of states per stratum, sweeps over one domain.     *)

OpaBase == [t_credit |-> 62, t_sanctions |-> 58, t_txmon |-> 60]
OpaAdj == [domestic |-> 4, eu |-> 0, high_risk |-> -5, sanctioned |-> -10]
OpaKinds == {"individual", "corp"}
OpaFieldRange == <<20, 80>>
OpaBoundaryBand == <<45, 70>>
OpaProb == [d \in -40..40 |->
  IF d < 0 THEN 30000 + 400 * (d + 40)
  ELSE IF d < 13 THEN 50000 + 3076 * d
  ELSE IF d = 13 THEN 89996 ELSE 90000 + 250 * (d - 13)]

OpaDomainSeq == <<"finance", "sre">>
OpaSeeds == <<0, 1>>
OpaEpsGrid == <<3, 5, 10>>
OpaRec(t, l, k, x) == [state |-> [tool |-> t, label |-> l, kind |-> k], x |-> x]
OpaD1 ==
  <<OpaRec("t_credit", "domestic", "corp", 45), OpaRec("t_txmon", "eu", "individual", 70),
    OpaRec("t_sanctions", "eu", "corp", 22)>>
OpaD2 ==
  <<OpaRec("t_txmon", "domestic", "corp", 43), OpaRec("t_sanctions", "sanctioned", "corp", 44),
    OpaRec("t_credit", "eu", "corp", 58)>>
OpaD3 ==
  <<OpaRec("t_sanctions", "high_risk", "individual", 47),
    OpaRec("t_credit", "domestic", "corp", 30), OpaRec("t_credit", "domestic", "corp", 22)>>
OpaE1 == <<OpaRec("t_credit", "domestic", "corp", 46), OpaRec("t_txmon", "eu", "individual", 63)>>
OpaE2 == <<OpaRec("t_txmon", "eu", "corp", 47), OpaRec("t_credit", "sanctioned", "corp", 55)>>
OpaRunDraws ==
  {[natural |-> <<OpaD1, OpaD2, OpaD3>>, boundary |-> <<OpaE1, OpaE2>>],
   [natural |-> <<OpaD2, OpaD3, OpaD2>>, boundary |-> <<OpaE2, OpaE2>>]}
OpaGates ==
  {[domestic |-> 0, eu |-> 0, high_risk |-> 0, sanctioned |-> 0],
   [domestic |-> 0, eu |-> 2, high_risk |-> 20, sanctioned |-> 32]}
OpaDomains == <<"finance">>
OpaEpsilons == <<5, 10>>
OpaTaus == <<80000, 90000>>
OpaHigh == OpaRec("t_txmon", "eu", "individual", 70)
OpaLow == OpaRec("t_sanctions", "eu", "corp", 20)
OpaEdge == OpaRec("t_credit", "domestic", "corp", 28)
OpaWide == OpaRec("t_credit", "domestic", "corp", 41)
OpaJoint == OpaRec("t_credit", "domestic", "corp", 44)
OpaSwapped == OpaRec("t_credit", "eu", "corp", 53)
OpaSweepDraws ==
  {<<<<OpaLow>>, <<OpaHigh, OpaLow, OpaSwapped>>, <<OpaLow, OpaEdge>>>>,
   <<<<OpaLow>>, <<OpaHigh, OpaLow, OpaJoint>>, <<OpaWide, OpaLow, OpaHigh>>>>}
OpaRequests ==
  {[backends |-> << >>, quick |-> FALSE], [backends |-> << >>, quick |-> TRUE],
   [backends |-> <<"lipschitz">>, quick |-> FALSE]}

VARIABLES opaDraw, opaAt, opaMode, opaUsed, opaResults, opaReport, opaLip, opaSweeps, opaConfig,
          opaGates, opaCells, opaExamples, opaSummary

opaVars == <<opaDraw, opaAt, opaMode, opaUsed, opaResults, opaReport, opaLip, opaSweeps, opaConfig,
             opaGates, opaCells, opaExamples, opaSummary>>

Opa ==
  INSTANCE OpaGate WITH
    Base <- OpaBase, Adj <- OpaAdj, Kinds <- OpaKinds, FieldRange <- OpaFieldRange,
    BoundaryBand <- OpaBoundaryBand, Prob <- OpaProb, Reach <- 40, Slack <- 1,
    DomainSeq <- OpaDomainSeq, Seed <- 0, Seeds <- OpaSeeds, Epsilon <- 10, Tau <- 70000,
    EpsGrid <- OpaEpsGrid, RunDraws <- OpaRunDraws, Gates <- OpaGates, Domains <- OpaDomains,
    SweepDraws <- OpaSweepDraws, Epsilons <- OpaEpsilons, Taus <- OpaTaus,
    Requests <- OpaRequests, MaxSweeps <- 2, prog <- study, draw <- opaDraw, at <- opaAt,
    mode <- opaMode, used <- opaUsed, results <- opaResults, report <- opaReport, lip <- opaLip,
    sweeps <- opaSweeps, config <- opaConfig, gates <- opaGates, cells <- opaCells,
    examples <- opaExamples, summary <- opaSummary

OpaIdle ==
  /\ opaDraw = 0 /\ opaAt = 0 /\ opaMode = 0 /\ opaUsed = 0 /\ opaResults = 0 /\ opaReport = 0
  /\ opaLip = 0 /\ opaSweeps = 0 /\ opaConfig = 0 /\ opaGates = 0 /\ opaCells = 0
  /\ opaExamples = 0 /\ opaSummary = 0

ASSUME Opa!DrawsAreSampled

-----------------------------------------------------------------------------
(* MarbleStack: two files of decisions, one budget calibrated on none.     *)

MarbleR(tool, risk) == [tool |-> tool, risk |-> risk]
MarbleFiles ==
  {<<MarbleR("payment_gateway_loose", 44), MarbleR("identity_risk_strict", 30),
     MarbleR("device_risk_strict", 45), MarbleR("manual_screen_loose", 52)>>,
   <<MarbleR("device_risk_strict", 49), MarbleR("manual_screen_loose", 39),
     MarbleR("payment_gateway_loose", 47)>>}
MarbleEpsChoices == {10, 5}
MarbleF(swap, change) == [swap |-> swap, change |-> change]
MarbleInjects ==
  [wrong_provenance_binding |-> {MarbleF(TRUE, 0)},
   stale_cache |-> {MarbleF(FALSE, 6), MarbleF(FALSE, -8)},
   numeric_jitter |-> {MarbleF(FALSE, 1), MarbleF(FALSE, -1)},
   normalization_skew |-> {MarbleF(FALSE, 9)},
   schema_skew |-> {MarbleF(FALSE, 40)},
   cache_key_collision |-> {MarbleF(TRUE, -22), MarbleF(FALSE, 1)}]
MarbleHoldout ==
  <<[tool |-> "identity_risk_strict", risk |-> 48],
    [tool |-> "payment_gateway_loose", risk |-> 51]>>
MarbleCalDrifts ==
  {<<>>, <<0, 1, 6>>, <<1, 2, 3, 4, 5, 6, 7, 8, 9, 6, 6, 7, 8, 1, 1, 2, 3, 8, 9, 9, 8, 7>>}

VARIABLES marbleFile, marbleTables, marbleScenarios, marbleIterations, marbleDecisions,
          marbleScenarioFile, marbleScript, marbleResults, marbleRuns, marbleFaults, marbleEpsCal,
          marbleDrifts, marbleMech, marbleAt, marbleMemo, marbleLast, marbleRow, marbleRows,
          marblePhase

marbleVars == <<marbleFile, marbleTables, marbleScenarios, marbleIterations, marbleDecisions,
                marbleScenarioFile, marbleScript, marbleResults, marbleRuns, marbleFaults,
                marbleEpsCal, marbleDrifts, marbleMech, marbleAt, marbleMemo, marbleLast, marbleRow,
                marbleRows, marblePhase>>

Marble ==
  INSTANCE MarbleStack WITH
    Theta <- 49, Delta <- 8, DataEps <- 10, Chunk <- 3, Files <- MarbleFiles,
    EpsChoices <- MarbleEpsChoices, NC <- 2, NR <- 2, OracleMax <- 1, Page <- 2, MaxRuns <- 2,
    MaxFaults <- 2, Cell <- 4, CalDrifts <- MarbleCalDrifts, Holdout <- MarbleHoldout,
    Injects <- MarbleInjects, prog <- study, file <- marbleFile, tables <- marbleTables,
    scenarios <- marbleScenarios, iterations <- marbleIterations, decisions <- marbleDecisions,
    scenarioFile <- marbleScenarioFile, script <- marbleScript, results <- marbleResults,
    runs <- marbleRuns, faults <- marbleFaults, epsCal <- marbleEpsCal, drifts <- marbleDrifts,
    mech <- marbleMech, at <- marbleAt, memo <- marbleMemo, last <- marbleLast, row <- marbleRow,
    rows <- marbleRows, phase <- marblePhase

MarbleIdle ==
  /\ marbleFile = 0 /\ marbleTables = 0 /\ marbleScenarios = 0 /\ marbleIterations = 0
  /\ marbleDecisions = 0 /\ marbleScenarioFile = 0 /\ marbleScript = 0 /\ marbleResults = 0
  /\ marbleRuns = 0 /\ marbleFaults = 0 /\ marbleEpsCal = 0 /\ marbleDrifts = 0 /\ marbleMech = 0
  /\ marbleAt = 0 /\ marbleMemo = 0 /\ marbleLast = 0 /\ marbleRow = 0 /\ marbleRows = 0
  /\ marblePhase = 0

ASSUME Marble!EngineAssumption

-----------------------------------------------------------------------------
(* ZoneCeilings: levels of the real parameters, one change still to come.  *)

ZonesZones == {"A", "B1", "C"}
ZonesSizes == {2, 3}
ZonesPlain(a, b1, c) ==
  [A |-> [d \in {2024} |-> a], B1 |-> [d \in {2023, 2024} |-> IF d = 2023 THEN b1 - 2 ELSE b1],
   C |-> [d \in {2025} |-> c]]
ZonesLater(f, up) ==
  [z \in DOMAIN f |-> [d \in DOMAIN f[z] \cup {2026} |-> IF d = 2026 THEN 100 + up ELSE f[z][d]]]
ZonesBySize(f, g) == [z \in ZonesZones |-> [n \in ZonesSizes |-> IF n = 2 THEN f[z] ELSE g[z]]]
ZonesTwo == ZonesPlain(76, 76, 59)
ZonesThree == ZonesPlain(100, 92, 71)
ZonesBundles ==
  {ZonesBySize(ZonesTwo, ZonesThree),
   ZonesBySize(ZonesLater(ZonesTwo, 5), ZonesLater(ZonesThree, 9)),
   ZonesBySize(ZonesPlain(80, 80, 80), ZonesPlain(100, 100, 100))}
ZonesCaps == {0, 120}
ZonesIncomes == {58, 65, 80}
ZonesEpsList == <<3, 10, 30>>

VARIABLES zonesBundle, zonesTheta, zonesCap, zonesHouseholds, zonesAt, zonesResults, zonesReport

zonesVars == <<zonesBundle, zonesTheta, zonesCap, zonesHouseholds, zonesAt, zonesResults,
               zonesReport>>

Zones ==
  INSTANCE ZoneCeilings WITH
    Bundles <- ZonesBundles, Zones <- ZonesZones, Sizes <- ZonesSizes, Year <- 2025,
    Caps <- ZonesCaps, Incomes <- ZonesIncomes, N <- 2, EpsList <- ZonesEpsList,
    bundle <- zonesBundle, theta <- zonesTheta, cap <- zonesCap, households <- zonesHouseholds,
    at <- zonesAt, results <- zonesResults, report <- zonesReport

ZonesIdle ==
  /\ zonesBundle = 0 /\ zonesTheta = 0 /\ zonesCap = 0 /\ zonesHouseholds = 0 /\ zonesAt = 0
  /\ zonesResults = 0 /\ zonesReport = 0

ASSUME Zones!ZoneAssumption

-----------------------------------------------------------------------------
(* ThirdPartyPolicies: corpora present, empty or absent, manifests at the edge. *)

ThirdPartyDraw(registry, owner, env, privileged, hostport, cpu, mem) ==
  [s |-> [registry |-> registry, owner |-> owner, env |-> env, privileged |-> privileged,
          hostport |-> hostport],
   cpu |-> cpu, mem |-> mem]
ThirdPartyTools ==
  {"payment_gateway_loose", "manual_screen_loose", "payment_gateway_strict", "manual_screen_strict"}
ThirdPartyF(parses, idiom, numeric, lhs, sameRule) ==
  [parses |-> parses, idiom |-> idiom, numeric |-> numeric, lhs |-> lhs, sameRule |-> sameRule]

ThirdPartyCorpora ==
  <<[name |-> "gatekeeper_library", language |-> "rego"],
    [name |-> "kyverno_policies", language |-> "kyverno"],
                  [name |-> "cloud_custodian", language |-> "cloud_custodian"]>>
ThirdPartyControls ==
  <<[name |-> "ieee_fraud", file |-> ThirdPartyF(TRUE, TRUE, TRUE, {"risk_score"}, 1)],
                   [name |-> "constant", file |-> ThirdPartyF(TRUE, FALSE, TRUE, {"risk_score"},
                                                              1)]>>

ThirdPartyVendored ==
  <<<<ThirdPartyF(TRUE, FALSE, TRUE, {"cpu", "mem"}, 2), ThirdPartyF(TRUE, FALSE, FALSE, {}, 0)>>>>
ThirdPartyDirs ==
  {[gatekeeper_library |-> ThirdPartyVendored, kyverno_policies |-> y, cloud_custodian |-> c] :
     y \in {<< >>, <<<< >>>>,
            <<<<ThirdPartyF(TRUE, TRUE, TRUE, {"replicas"}, 1),
                ThirdPartyF(FALSE, FALSE, FALSE, {}, 0)>>>>},
     c \in {<< >>,
            <<<<ThirdPartyF(TRUE, TRUE, TRUE, {"age", "size"}, 1),
                ThirdPartyF(TRUE, FALSE, TRUE, {"age"}, 1),
                ThirdPartyF(TRUE, FALSE, FALSE, {}, 0)>>>>}}

ThirdPartyWorlds ==
  [dirs : ThirdPartyDirs, opa : {"vendored", "path", "missing"}, eps : {5, 10, 15}]

ThirdPartyNatural ==
  <<ThirdPartyDraw("company", "team-a", "prod", FALSE, 0, 850, 1024),
    ThirdPartyDraw("company", "platform", "dev", FALSE, 0, 400, 512),
             ThirdPartyDraw("docker", "none", "prod", TRUE, 8080, 899, 1800)>>
ThirdPartyBoundary ==
  <<ThirdPartyDraw("company", "team-a", "staging", FALSE, 0, 950, 2000),
    ThirdPartyDraw("company", "platform", "prod", FALSE, 0, 1000, 2048),
              ThirdPartyDraw("company", "team-b", "dev", FALSE, 0, 1100, 1900),
              ThirdPartyDraw("company", "team-a", "prod", FALSE, 0, 870, 2290)>>

ThirdPartyManifestDraws ==
  {[natural |-> <<ThirdPartyNatural[i], ThirdPartyNatural[(i % 3) + 1]>>,
    boundary |-> <<ThirdPartyBoundary[m], ThirdPartyBoundary[(m % 4) + 1]>>] :
     i \in DOMAIN ThirdPartyNatural, m \in DOMAIN ThirdPartyBoundary}

ThirdPartyAuthoredDraws ==
  {<<[tool |-> t, risk |-> r]>> : t \in ThirdPartyTools, r \in 34 .. 57}

ThirdPartyDiagStep == [cpu |-> 141, mem |-> 290]
ThirdPartyAxisStep == [cpu |-> 200, mem |-> 410]

VARIABLES thirdPartyWorld, thirdPartyStage, thirdPartyK, thirdPartyRows, thirdPartySkipped,
          thirdPartyPartB, thirdPartyAuthored, thirdPartySearched, thirdPartySplits,
          thirdPartyReport

thirdPartyVars == <<thirdPartyWorld, thirdPartyStage, thirdPartyK, thirdPartyRows,
                    thirdPartySkipped, thirdPartyPartB, thirdPartyAuthored, thirdPartySearched,
                    thirdPartySplits, thirdPartyReport>>

ThirdParty ==
  INSTANCE ThirdPartyPolicies WITH
    Corpora <- ThirdPartyCorpora, Controls <- ThirdPartyControls, Worlds <- ThirdPartyWorlds,
    ManifestDraws <- ThirdPartyManifestDraws, AuthoredDraws <- ThirdPartyAuthoredDraws,
    DiagStep <- ThirdPartyDiagStep, AxisStep <- ThirdPartyAxisStep, MaxFiles <- 2, prog <- study,
    world <- thirdPartyWorld, stage <- thirdPartyStage, k <- thirdPartyK, rows <- thirdPartyRows,
    skipped <- thirdPartySkipped, partB <- thirdPartyPartB, authored <- thirdPartyAuthored,
    searched <- thirdPartySearched, splits <- thirdPartySplits, report <- thirdPartyReport

ThirdPartyIdle ==
  /\ thirdPartyWorld = 0 /\ thirdPartyStage = 0 /\ thirdPartyK = 0 /\ thirdPartyRows = 0
  /\ thirdPartySkipped = 0 /\ thirdPartyPartB = 0 /\ thirdPartyAuthored = 0
  /\ thirdPartySearched = 0 /\ thirdPartySplits = 0 /\ thirdPartyReport = 0

ASSUME ThirdParty!StepAssumption

ASSUME ThirdParty!DrawsAreDrawn

-----------------------------------------------------------------------------
(* IdiomScan: corpora of every idiom and language, one of them without control. *)

IdiomsField == [kind |-> "ref", name |-> "x", key |-> "none", selects |-> 1, builtin |-> FALSE]
IdiomsNumber == [kind |-> "scalar", name |-> "n", key |-> "none", selects |-> 1, builtin |-> FALSE]
IdiomsCall(n) ==
  [kind |-> "call", name |-> "threshold", key |-> "tool", selects |-> n, builtin |-> FALSE]
IdiomsConvert ==
  [kind |-> "call", name |-> "to_number", key |-> "limit", selects |-> 1, builtin |-> TRUE]
IdiomsIndex(n) ==
  [kind |-> "ref", name |-> "limits", key |-> "tool", selects |-> n, builtin |-> FALSE]
IdiomsCmp(a, op, b) == [a |-> a, op |-> op, b |-> b]
IdiomsRego(cs, lits) == [parses |-> TRUE, comparisons |-> cs, literals |-> lits]

IdiomsRegoConst == IdiomsRego(<<IdiomsCmp(IdiomsField, ">", IdiomsNumber)>>, {})
IdiomsRegoCall ==
  IdiomsRego(<<IdiomsCmp(IdiomsField, ">", IdiomsNumber),
               IdiomsCmp(IdiomsField, "<", IdiomsCall(2))>>, {4, 5})
IdiomsRegoIndexLeft == IdiomsRego(<<IdiomsCmp(IdiomsIndex(2), "<=", IdiomsField)>>, {4, 5})
IdiomsRegoOne == IdiomsRego(<<IdiomsCmp(IdiomsField, ">=", IdiomsCall(1))>>, {4})
IdiomsRegoConvert == IdiomsRego(<<IdiomsCmp(IdiomsField, ">", IdiomsConvert)>>, {})
IdiomsRegoFlipped == IdiomsRego(<<IdiomsCmp(IdiomsCall(2), ">", IdiomsField)>>, {4, 5})
IdiomsRegoBroken == [parses |-> FALSE, comparisons |-> << >>, literals |-> {}]

IdiomsKyv(cel, conds) == [parses |-> TRUE, cel |-> cel, conditions |-> conds]
IdiomsCel(l, r) == [lhs |-> l, rhs |-> r]
IdiomsKyverno ==
  <<IdiomsKyv(<<IdiomsCel("name", "literal")>>, << >>),
    IdiomsKyv(<<IdiomsCel("name", "name"), IdiomsCel("keyed_map", "name")>>, <<"constant">>)>>
IdiomsKyvernoHit ==
  <<IdiomsKyv(<<IdiomsCel("name", "keyed_map")>>, << >>), IdiomsKyv(<< >>, <<"templated">>),
    IdiomsKyv(<<IdiomsCel("name", "worded_index")>>, << >>)>>
IdiomsC7n ==
  <<[parses |-> TRUE, filters |-> <<"constant">>], [parses |-> FALSE, filters |-> << >>]>>
IdiomsC7nHit == <<[parses |-> TRUE, filters |-> <<"constant", "value_from">>]>>

IdiomsFisca(keys, cmp) == [parses |-> TRUE, keys |-> keys, compares |-> cmp]
IdiomsFiscaFiles ==
  <<IdiomsFisca(<<"zone", "i">>, TRUE), IdiomsFisca(<<"i">>, TRUE),
    IdiomsFisca(<<"zone">>, FALSE)>>
IdiomsFiscaOne == <<IdiomsFisca(<<"rubric">>, TRUE)>>
IdiomsJson(op, v) == [parses |-> TRUE, rules |-> <<[op |-> op, value |-> v]>>]
IdiomsJsonFiles ==
  <<IdiomsJson("<", "channel"), IdiomsJson("<", "number"), IdiomsJson("equal", "channel")>>
IdiomsJsonWord == <<IdiomsJson("greaterThan", "channel"), [parses |-> FALSE, rules |-> << >>]>>

IdiomsCell(op, v) == [tag |-> "cmp", op |-> op, theta |-> v]
IdiomsLit(v) == [tag |-> "other", op |-> "none", theta |-> v]
IdiomsTable(cols) == [columns |-> cols, names |-> <<"amount", "channel">>]
IdiomsDmn(tables) == [parses |-> TRUE, tables |-> tables]
IdiomsKeyedTable ==
  IdiomsTable(<<<<IdiomsCell("<", 3), IdiomsCell("<", 5)>>, <<IdiomsLit(1), IdiomsLit(2)>>>>)
IdiomsConstTable ==
  IdiomsTable(<<<<IdiomsCell("<", 3), IdiomsCell("<", 5)>>, <<IdiomsLit(1), IdiomsLit(1)>>>>)
IdiomsBothTable ==
  IdiomsTable(<<<<IdiomsLit(1), IdiomsCell(">", 4), IdiomsCell("<=", 4)>>,
                <<IdiomsCell(">=", 3), IdiomsCell("<", 5), IdiomsLit(2)>>>>)
IdiomsElsewhereTable ==
  IdiomsTable(<<<<IdiomsCell("<", 3), IdiomsCell("<", 5), IdiomsLit(0)>>,
                <<IdiomsLit(1), IdiomsLit(1), IdiomsLit(2)>>>>)
IdiomsDmnKeyed == IdiomsDmn(<<IdiomsConstTable, IdiomsKeyedTable>>)
IdiomsDmnConst == IdiomsDmn(<<IdiomsConstTable>>)
IdiomsDmnElsewhere == IdiomsDmn(<<IdiomsElsewhereTable, IdiomsBothTable>>)

IdiomsScanned ==
  <<[name |-> "gatekeeper", language |-> "rego", control |-> TRUE],
    [name |-> "kyverno", language |-> "kyverno", control |-> FALSE],
    [name |-> "custodian", language |-> "cloud_custodian", control |-> FALSE]>>
IdiomsRescanned ==
  <<[name |-> "openfisca", parser |-> "openfisca"], [name |-> "jube", parser |-> "json_rules"],
    [name |-> "dmn_tck", parser |-> "dmn"]>>
IdiomsWorlds ==
  {[scan |-> s, rescan |-> r] :
     s \in {<<<<IdiomsRegoConst, IdiomsRegoCall, IdiomsRegoBroken>>, IdiomsKyverno, IdiomsC7n>>,
            <<<<IdiomsRegoConst, IdiomsRegoIndexLeft, IdiomsRegoOne>>, IdiomsKyvernoHit,
              IdiomsC7n>>,
            <<<<IdiomsRegoFlipped, IdiomsRegoConvert>>, << >>, IdiomsC7nHit>>,
            <<<< >>, << >>, << >>>>},
     r \in {<<IdiomsFiscaFiles, IdiomsJsonFiles, <<IdiomsDmnKeyed, IdiomsDmnConst>>>>,
            <<IdiomsFiscaOne, IdiomsJsonWord, <<IdiomsDmnElsewhere>>>>,
            <<IdiomsFiscaFiles, << >>, <<[parses |-> FALSE], IdiomsDmnConst>>>>}}
IdiomsStopKeys == {"i"}
IdiomsUpstream == {"channel"}
IdiomsSubject == {"zone"}

VARIABLES idiomsWorld, idiomsProg, idiomsC, idiomsF, idiomsTally, idiomsResults, idiomsDisk,
          idiomsReport

idiomsVars == <<idiomsWorld, idiomsProg, idiomsC, idiomsF, idiomsTally, idiomsResults, idiomsDisk,
                idiomsReport>>

Idioms ==
  INSTANCE IdiomScan WITH
    Scanned <- IdiomsScanned, Rescanned <- IdiomsRescanned, Worlds <- IdiomsWorlds,
    StopKeys <- IdiomsStopKeys, Upstream <- IdiomsUpstream, Subject <- IdiomsSubject,
    world <- idiomsWorld, prog <- idiomsProg, c <- idiomsC, f <- idiomsF, tally <- idiomsTally,
    results <- idiomsResults, disk <- idiomsDisk, report <- idiomsReport

IdiomsIdle ==
  /\ idiomsWorld = 0 /\ idiomsProg = 0 /\ idiomsC = 0 /\ idiomsF = 0 /\ idiomsTally = 0
  /\ idiomsResults = 0 /\ idiomsDisk = 0 /\ idiomsReport = 0

-----------------------------------------------------------------------------
(* RealData: spread, crowded and topped values, three shuffles of twelve rows. *)

RealIds == 1..12
RealSalts == {0, 1, 3, 10}
RealSpread == [i \in RealIds |-> <<2, 5, 7, 8, 9, 9, 10, 11, 11, 12, 14, 16>>[i]]
RealTop == [i \in RealIds |-> <<15, 15, 16, 17, 17, 18, 18, 18, 19, 19, 19, 20>>[i]]
RealCrowded == [i \in RealIds |-> <<4, 8, 8, 9, 9, 9, 9, 10, 10, 11, 12, 13>>[i]]
RealValueMaps == {RealSpread, RealCrowded, RealTop}
RealHash(a, b) ==
  [s \in RealSalts |-> [i \in RealIds |-> ((a * i) + (b * s) + ((i * i * s) % 5)) % 8]]
RealUnits == {RealHash(3, 1), RealHash(5, 2), RealHash(6, 3)}
RealX1 == [i \in RealIds |-> [load_band |-> IF i > 8 THEN "very_high" ELSE "low",
                             machine_class |-> IF i % 2 = 0 THEN "rds" ELSE "ec2"]]
RealOutcome == [i \in RealIds |-> i \in {4, 9, 12}]

VARIABLES realValue, realUnit, realDisk, realConfig, realPending, realReport, realRows, realSummary

realVars == <<realValue, realUnit, realDisk, realConfig, realPending, realReport, realRows,
              realSummary>>

Real ==
  INSTANCE RealData WITH
    Delta <- 2, Eps <- 3, One <- 20, Lo <- 1, Hi <- 19, Adjust <- FALSE, BandOff <- 1,
    ClassOff <- 1, Ids <- RealIds, Seeds <- {0, 1}, Files <- {"a"}, ValueMaps <- RealValueMaps,
    Units <- RealUnits, X1 <- RealX1, Outcome <- RealOutcome, UnitDen <- 8, QNum <- 7, QDen <- 10,
    NRecords <- 5, MinC <- 2, Folds <- 3, WitnessCap <- 1, prog <- study, value <- realValue,
    unit <- realUnit, disk <- realDisk, config <- realConfig, pending <- realPending, report <- realReport,
    rows <- realRows, summary <- realSummary

RealIdle ==
  /\ realValue = 0 /\ realUnit = 0 /\ realDisk = 0 /\ realConfig = 0 /\ realPending = 0
  /\ realReport = 0 /\ realRows = 0 /\ realSummary = 0

ASSUME Real!PolicyAssumption

-----------------------------------------------------------------------------
(* ImplicitGate: gates by tool, tests with and without fraud.              *)

CurvesPartner == [loose |-> "strict", strict |-> "loose"]
CurvesRec(fraud, tool, x) == [fraud |-> fraud, tool |-> tool, x |-> x]
CurvesGate(a, b) == [loose |-> a, strict |-> b]
CurvesGates ==
  {CurvesGate(6, 6), CurvesGate(9, 5), CurvesGate(4, 10), CurvesGate(2, 1), CurvesGate(12, 11)}
CurvesTests ==
  {<<CurvesRec(FALSE, "loose", 1), CurvesRec(TRUE, "loose", 4), CurvesRec(FALSE, "strict", 3),
     CurvesRec(TRUE, "strict", 0), CurvesRec(FALSE, "loose", 6)>>,
   <<CurvesRec(FALSE, "loose", 2), CurvesRec(FALSE, "loose", 2), CurvesRec(FALSE, "strict", 5),
     CurvesRec(TRUE, "strict", 8), CurvesRec(TRUE, "loose", 3)>>,
   <<CurvesRec(FALSE, "strict", 0), CurvesRec(FALSE, "loose", 3), CurvesRec(FALSE, "loose", 9),
     CurvesRec(FALSE, "strict", 1), CurvesRec(TRUE, "loose", 7)>>,
   <<CurvesRec(FALSE, "loose", 0), CurvesRec(FALSE, "strict", 7)>>,
   <<CurvesRec(TRUE, "loose", 1), CurvesRec(TRUE, "strict", 2)>>}
CurvesCosts == {<<0, 0, 0, 0, 0>>, <<0, 1, 2, 0, 1>>}
CurvesWorld1 ==
  [gate |-> CurvesGate(9, 7), cost |-> <<0, 1, 0, 0, 1, 0>>,
   mixed |-> <<CurvesRec(FALSE, "loose", 0), CurvesRec(FALSE, "strict", 1),
               CurvesRec(TRUE, "loose", 4), CurvesRec(FALSE, "loose", 3),
               CurvesRec(TRUE, "strict", 6), CurvesRec(FALSE, "strict", 5)>>]
CurvesWorld2 ==
  [gate |-> CurvesGate(12, 3), cost |-> <<0, 0, 2, 0, 0>>,
   mixed |-> <<CurvesRec(TRUE, "loose", 1), CurvesRec(FALSE, "strict", 0),
               CurvesRec(FALSE, "loose", 2), CurvesRec(TRUE, "strict", 1),
               CurvesRec(TRUE, "loose", 9)>>]
CurvesWorld3 ==
  [gate |-> CurvesGate(10, 10), cost |-> <<1, 0, 0, 0>>,
   mixed |-> <<CurvesRec(TRUE, "strict", 0), CurvesRec(FALSE, "loose", 2),
               CurvesRec(FALSE, "strict", 2), CurvesRec(TRUE, "loose", 8)>>]
CurvesWorld4 ==
  [gate |-> CurvesGate(5, 8), cost |-> <<0, 0, 0, 0, 0>>,
   mixed |-> <<CurvesRec(FALSE, "strict", 0), CurvesRec(FALSE, "strict", 0),
               CurvesRec(FALSE, "loose", 0), CurvesRec(TRUE, "loose", 3),
               CurvesRec(TRUE, "strict", 9)>>]
CurvesWorld5 ==
  [gate |-> CurvesGate(8, 6), cost |-> <<0, 0, 1, 0>>,
   mixed |-> <<CurvesRec(FALSE, "loose", 0), CurvesRec(FALSE, "loose", 1),
               CurvesRec(TRUE, "loose", 2), CurvesRec(TRUE, "loose", 3)>>]
CurvesWorlds == {CurvesWorld1, CurvesWorld2, CurvesWorld3, CurvesWorld4, CurvesWorld5}
CurvesTauKnobs == <<0, 1, 2, 3, 4>>
CurvesSeeds == <<"first", "second">>

VARIABLES curvesResults, curvesReport, curvesTest, curvesCost, curvesGates, curvesWorld, curvesStep,
          curvesSeed, curvesPerSeed

curvesVars == <<curvesResults, curvesReport, curvesTest, curvesCost, curvesGates, curvesWorld,
                curvesStep, curvesSeed, curvesPerSeed>>

Curves ==
  INSTANCE ImplicitGate WITH
    Partner <- CurvesPartner, Eps <- 3, Tests <- CurvesTests, Gates <- CurvesGates,
    Costs <- CurvesCosts, Quantile <- 1, NEval <- 3, Worlds <- CurvesWorlds, Seeds <- CurvesSeeds,
    NThr <- 5, TauKnobs <- CurvesTauKnobs, DefaultTau <- 3, VolumePercent <- 80, prog <- study,
    results <- curvesResults, report <- curvesReport, test <- curvesTest, cost <- curvesCost,
    gates <- curvesGates, world <- curvesWorld, step <- curvesStep, seed <- curvesSeed,
    perSeed <- curvesPerSeed

CurvesIdle ==
  /\ curvesResults = 0 /\ curvesReport = 0 /\ curvesTest = 0 /\ curvesCost = 0 /\ curvesGates = 0
  /\ curvesWorld = 0 /\ curvesStep = 0 /\ curvesSeed = 0 /\ curvesPerSeed = 0

-----------------------------------------------------------------------------
(* AbstentionDos: four records, three radii, budgets and strengths.        *)

DosPlain == [load_band |-> "low", machine_class |-> "ec2"]
DosRecord(tool, risk) == [tool |-> tool, x1 |-> DosPlain, risk |-> risk]
DosPool == <<DosRecord("prod_strict", 2), DosRecord("staging_loose", 8), DosRecord("dev_loose", 10),
               DosRecord("prod_strict", 14)>>
DosEpsGrid == <<3, 2, 1>>
DosBudgets == <<50, 30, 15>>
DosStrengths == <<20, 60>>
DosEpsArgs == {1, 3}

VARIABLES dosCategory, dosPc, dosEps, dosDone, dosAttack, dosStrong, dosMitigations, dosReport

dosVars == <<dosCategory, dosPc, dosEps, dosDone, dosAttack, dosStrong, dosMitigations, dosReport>>

Dos ==
  INSTANCE AbstentionDos WITH
    Delta <- 2, One <- 20, Lo <- 1, Hi <- 19, BandOff <- 1, ClassOff <- 1, Theta <- 10, EPS <- 3,
    EpsArgs <- DosEpsArgs, EpsGrid <- DosEpsGrid, Budgets <- DosBudgets,
    Strengths <- DosStrengths, N <- 3, Seeds <- 1, Pool <- DosPool, category <- dosCategory,
    pc <- dosPc, eps <- dosEps, done <- dosDone, attack <- dosAttack, strong <- dosStrong,
    mitigations <- dosMitigations, report <- dosReport

DosIdle ==
  /\ dosCategory = 0 /\ dosPc = 0 /\ dosEps = 0 /\ dosDone = 0 /\ dosAttack = 0 /\ dosStrong = 0
  /\ dosMitigations = 0 /\ dosReport = 0

-----------------------------------------------------------------------------
(* One study at a time.                                                    *)

vars ==
  <<study, opaVars, marbleVars, zonesVars, thirdPartyVars, idiomsVars, realVars, curvesVars,
    dosVars>>

Init ==
  \/ /\ Opa!Init
     /\ MarbleIdle /\ ZonesIdle /\ ThirdPartyIdle /\ IdiomsIdle /\ RealIdle /\ CurvesIdle /\ DosIdle
  \/ /\ Marble!Init
     /\ OpaIdle /\ ZonesIdle /\ ThirdPartyIdle /\ IdiomsIdle /\ RealIdle /\ CurvesIdle /\ DosIdle
  \/ /\ study = "zones" /\ Zones!Init
     /\ OpaIdle /\ MarbleIdle /\ ThirdPartyIdle /\ IdiomsIdle /\ RealIdle /\ CurvesIdle /\ DosIdle
  \/ /\ ThirdParty!Init
     /\ OpaIdle /\ MarbleIdle /\ ZonesIdle /\ IdiomsIdle /\ RealIdle /\ CurvesIdle /\ DosIdle
  \/ /\ study = "idioms" /\ Idioms!Init
     /\ OpaIdle /\ MarbleIdle /\ ZonesIdle /\ ThirdPartyIdle /\ RealIdle /\ CurvesIdle /\ DosIdle
  \/ /\ Real!Init
     /\ OpaIdle /\ MarbleIdle /\ ZonesIdle /\ ThirdPartyIdle /\ IdiomsIdle /\ CurvesIdle /\ DosIdle
  \/ /\ Curves!Init
     /\ OpaIdle /\ MarbleIdle /\ ZonesIdle /\ ThirdPartyIdle /\ IdiomsIdle /\ RealIdle /\ DosIdle
  \/ /\ study = "dos" /\ Dos!Init
     /\ OpaIdle /\ MarbleIdle /\ ZonesIdle /\ ThirdPartyIdle /\ IdiomsIdle /\ RealIdle /\ CurvesIdle

Next ==
  \/ /\ study \in {"run", "sweep"} /\ Opa!Next
     /\ UNCHANGED <<marbleVars, zonesVars, thirdPartyVars, idiomsVars, realVars, curvesVars,
                    dosVars>>
  \/ /\ study \in {"stack", "budget"} /\ Marble!Next
     /\ UNCHANGED <<opaVars, zonesVars, thirdPartyVars, idiomsVars, realVars, curvesVars, dosVars>>
  \/ /\ study = "zones" /\ Zones!Next
     /\ UNCHANGED <<study, opaVars, marbleVars, thirdPartyVars, idiomsVars, realVars,
                    curvesVars, dosVars>>
  \/ /\ study \in {"track_a", "third_party"} /\ ThirdParty!Next
     /\ UNCHANGED <<opaVars, marbleVars, zonesVars, idiomsVars, realVars, curvesVars, dosVars>>
  \/ /\ study = "idioms" /\ Idioms!Next
     /\ UNCHANGED <<study, opaVars, marbleVars, zonesVars, thirdPartyVars, realVars, curvesVars,
                    dosVars>>
  \/ /\ study \in {"ieee", "nab"} /\ Real!Next
     /\ UNCHANGED <<opaVars, marbleVars, zonesVars, thirdPartyVars, idiomsVars, curvesVars,
                    dosVars>>
  \/ /\ study \in {"policy", "triage"} /\ Curves!Next
     /\ UNCHANGED <<opaVars, marbleVars, zonesVars, thirdPartyVars, idiomsVars, realVars, dosVars>>
  \/ /\ study = "dos" /\ Dos!Next
     /\ UNCHANGED <<study, opaVars, marbleVars, zonesVars, thirdPartyVars, idiomsVars, realVars,
                    curvesVars>>

Spec == Init /\ [][Next]_vars

-----------------------------------------------------------------------------
(* What each study is checked for.                                         *)

\* What the policy engine's gates allow, and what the reports count of it, holds
\* at every state and field of the ball (run_opa_gate.py, exp_opa_full.py).
OpaReportsSound == study \in {"run", "sweep"} => Opa!OpaReportsSound

\* An engine that runs the policy decides what the rule says of the provenance it was
\* handed, its certificate covers the swaps, and where the interval lengths it reports
\* are none of its witnesses' is told exactly (marble_cwitness.py, cx5_openfisca.py).
EnginesRealiseTheRule ==
  /\ study \in {"stack", "budget"} => Marble!EngineRealisesTheRule
  /\ study = "zones" => Zones!CeilingsJudged

\* Both programs report a null in every run.  Where the engine categorised manifests the
\* neighbourhood forces it, whatever is drawn; where it did not, or no corpus was there,
\* the report's other fields say so (run_track_a.py, exp_policy_third_party.py).
NullIsForced == study \in {"track_a", "third_party"} => ThirdParty!NullIsForced

\* Whichever way a comparison is written the Rego detector sees the same idiom and only
\* its operator turns; Kyverno's map is seen on the right; and a decision is that of the
\* files that were there, NULL over none (idiom_detector.py, idiom_rescan.py).
ScanReadsFilesRight == study = "idioms" => Idioms!ScanReadsFilesRight

\* The categories of a record drawn from real data are those of the policy over
\* its neighbourhood, in each of the two programs (realdata_ieee_cis.py, second_real_dataset.py).
CategoriesAgree == study \in {"ieee", "nab"} => Real!CategoriesAgree

\* The curves of gates and thresholds keep the order of what they count
\* (implicit_policy_gate.py, operational_triage.py).
CurvesInOrder == study \in {"policy", "triage"} => Curves!CurvesInOrder

\* What the two mitigations take off the human's desk is dropped, the cover traffic
\* first, or let through within the radius that was given up (abstention_dos.py).
AvailabilityIsPaidFor == study = "dos" => Dos!AvailabilityIsPaidFor
=============================================================================

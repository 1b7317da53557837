---------------------------- MODULE RegistryScan ----------------------------
(***************************************************************************)
(* The registry scan, mcp_substrate/registry_scan.py with the frozen       *)
(* detector of substrate_detector.py: two registries are paged through,    *)
(* one of them also server by server, over a fetcher that keeps what it    *)
(* got in files, and the published return schemas are classified.  Runs    *)
(* follow one another, online or offline, over one cache; the registries   *)
(* change, requests fail, and a run may die while it writes a file.        *)
(*                                                                         *)
(* A response is a record of all that any endpoint serves.  A tool is the  *)
(* sequence of the fields its return schema resolves to.                   *)
(***************************************************************************)
EXTENDS FiniteSets, FiniteSetsExt, Integers, Sequences, SequencesExt

CONSTANTS
  Worlds,        \* what the registries may serve: functions from some Urls to responses
  Urls, Key,     \* the addresses, and the cache file of each
  ListUrl, DetailUrl, GlamaUrl,   \* functions into Urls: of a page, a name, a cursor
  NoCursor,      \* the address of Glama's first page has no cursor
  MaxServers, QuickServers,       \* --max-servers, and the cap of --quick
  MaxRuns, MaxDrifts              \* bounds

VARIABLES
  world, drifts,
  scanCache,     \* from keys to a response or Corrupt
  scanPc,        \* "idle", "list", "detail", "glama" or "dead"
  scanRun,       \* runs started
  opts,          \* [offline, quick, cached]: the flags, and whether files were there
  page, names, total,             \* smithery_server_names
  todo,          \* names whose detail is to be read
  cursor, glamaN,                 \* glama_scan
  recs,          \* per_server
  net, fail,     \* the fetcher's counters, the hits left out
  reports        \* the summaries written

fetcher == <<scanCache, net, fail>>

scanVars ==
  <<world, drifts, scanCache, scanPc, scanRun, opts, page, names, total, todo, cursor, glamaN,
    recs, net, fail, reports>>

Corrupt ==
  [servers |-> <<0>>, total |-> -1, pages |-> -1, more |-> FALSE, next |-> NoCursor,
   tools |-> << >>]

Nothing ==
  [servers |-> << >>, total |-> -1, pages |-> -1, more |-> FALSE, next |-> NoCursor,
   tools |-> << >>]

Cap == IF opts.quick THEN Min({MaxServers, QuickServers}) ELSE MaxServers

-----------------------------------------------------------------------------
(* The detector.  A field has a type, perhaps an enum, and a name that the *)
(* three lexicons may match.                                               *)

Numeric(f) == f.type \in {"number", "integer"}

DiscreteCall(f) ==
  CASE f.pipe /\ ~f.subj -> "pipeline_set_s"
    [] f.subj -> "subject_keyed"
    [] OTHER -> "other"

\* The scan never passes a number of distinct values.
ClassifyField(f) ==
  CASE f.enum -> DiscreteCall(f)
    [] ~f.enum /\ Numeric(f) -> IF f.cont THEN "continuous_x" ELSE IF f.type = "integer"
      THEN "quantized" ELSE "other"
    [] ~f.enum /\ f.type \in {"string", "boolean"} -> DiscreteCall(f)
    [] OTHER -> "other"

Carries(tool, label) == \E i \in DOMAIN tool : ClassifyField(tool[i]) = label

Substrate(tool) == Carries(tool, "continuous_x") /\ Carries(tool, "pipeline_set_s")

TallyServer(registry, name, tools) ==
  [registry |-> registry, server |-> name, tools |-> Len(tools),
   typed |-> Cardinality({i \in DOMAIN tools : tools[i] # << >>}),
   continuous |-> Cardinality({i \in DOMAIN tools : Carries(tools[i], "continuous_x")}),
   pipeline |-> Cardinality({i \in DOMAIN tools : Carries(tools[i], "pipeline_set_s")}),
   substrate |-> Cardinality({i \in DOMAIN tools : Substrate(tools[i])})]

-----------------------------------------------------------------------------
(* Fetcher.get: each way a request can end, and what it leaves behind.     *)

Cached(url) == Key[url] \in DOMAIN scanCache

Usable(url) == Cached(url) /\ scanCache[Key[url]] # Corrupt

\* Mutant: what was fetched is not kept.
Stored_Nowhere(url, data) == scanCache

Stored(url, data) ==
  [k \in DOMAIN scanCache \cup {Key[url]} |-> IF k = Key[url] THEN data ELSE scanCache[k]]

\* A file that does not parse is fetched again.
Get(url) ==
  IF Usable(url)
  THEN {[data |-> scanCache[Key[url]], cache |-> scanCache, net |-> net, fail |-> fail]}
  ELSE {[data |-> Nothing, cache |-> scanCache, net |-> net, fail |-> fail + 1]} \cup
       IF opts.offline \/ url \notin DOMAIN world THEN {}
       ELSE {[data |-> world[url], cache |-> Stored(url, world[url]), net |-> net + 1,
              fail |-> fail]}

Fetched(a) == scanCache' = a.cache /\ net' = a.net /\ fail' = a.fail

-----------------------------------------------------------------------------
(* A run.                                                                  *)

StartScan ==
  /\ scanPc = "idle" /\ scanRun < MaxRuns
  /\ \E off, q \in BOOLEAN : opts' = [offline |-> off, quick |-> q, cached |-> scanCache # << >>]
  /\ scanPc' = "list" /\ scanRun' = scanRun + 1
  /\ page' = 1 /\ names' = << >> /\ total' = -1 /\ todo' = << >>
  /\ cursor' = NoCursor /\ glamaN' = 0 /\ recs' = << >>
  /\ net' = 0 /\ fail' = 0
  /\ UNCHANGED <<world, drifts, scanCache, reports>>

\* In order and without repetition, then cut; names are ordered as numbers here.
Sorted(S) ==
  [k \in 1..Cardinality(S) |-> CHOOSE s \in S : Cardinality({r \in S : r < s}) = k - 1]

Capped(all, cap) ==
  LET sorted == Sorted(Range(all)) IN SubSeq(sorted, 1, Min({cap, Len(sorted)}))

\* One page of smithery_server_names.
SmitheryPage ==
  /\ scanPc = "list"
  /\ \E a \in Get(ListUrl[page]) :
       LET all == names \o a.data.servers
           stop == a.data.servers = << >> \/ page >= a.data.pages \/ Len(all) >= Cap
       IN  /\ Fetched(a)
           /\ names' = all
           /\ total' = IF a.data.servers = << >> THEN total ELSE a.data.total
           /\ page' = IF stop THEN page ELSE page + 1
           /\ scanPc' = IF stop THEN "detail" ELSE scanPc
           /\ todo' = IF stop THEN Capped(all, Cap) ELSE todo
  /\ UNCHANGED <<world, drifts, scanRun, opts, cursor, glamaN, recs, reports>>

Missed(a) == a.data = Nothing

SmitheryDetail ==
  /\ scanPc = "detail" /\ todo # << >>
  /\ \E a \in Get(DetailUrl[Head(todo)]) :
       /\ Fetched(a)
       /\ recs' = IF Missed(a) THEN recs
            ELSE Append(recs, TallyServer("smithery", Head(todo), a.data.tools))
  /\ todo' = Tail(todo)
  /\ UNCHANGED <<world, drifts, scanPc, scanRun, opts, page, names, total, cursor, glamaN, reports>>

DetailsDone ==
  /\ scanPc = "detail" /\ todo = << >>
  /\ scanPc' = "glama"
  /\ UNCHANGED <<world, drifts, scanRun, opts, page, names, total, todo, cursor, glamaN, recs,
                 reports>>
       /\ UNCHANGED fetcher

\* run's summary: what smithery counts as scanned is the names, read or not.
Summary(all, fails, nets) ==
  [records |-> all, scanned |-> Len(Capped(names, Cap)), available |-> total,
   typed |-> FoldLeft(LAMBDA acc, r : acc + r.typed, 0, all),
   outcome |-> IF \E i \in DOMAIN all : all[i].substrate > 0 THEN "present" ELSE "null",
   net |-> nets, fail |-> fails, opts |-> opts]

Taken(servers) == SubSeq(servers, 1, Min({Cap - glamaN, Len(servers)}))

\* Mutant: an empty page that promises another does not end the loop.
GlamaOver_Promised(data, seen) == ~data.more \/ seen >= Cap

GlamaOver(data, seen) == data.servers = << >> \/ ~data.more \/ seen >= Cap

\* One page of glama_scan; when the loop ends the summary is written.
GlamaPage ==
  /\ scanPc = "glama"
  /\ \E a \in Get(GlamaUrl[cursor]) :
       LET taken == Taken(a.data.servers)
           all == recs \o [i \in DOMAIN taken |-> TallyServer("glama", taken[i], a.data.tools)]
           stop == GlamaOver(a.data, glamaN + Len(taken))
       IN  /\ Fetched(a)
           /\ recs' = all /\ glamaN' = glamaN + Len(taken)
           /\ cursor' = IF stop THEN cursor ELSE a.data.next
           /\ scanPc' = IF stop THEN "idle" ELSE scanPc
           /\ reports' = IF stop THEN Append(reports, Summary(all, a.fail, a.net)) ELSE reports
  /\ UNCHANGED <<world, drifts, scanRun, opts, page, names, total, todo>>

\* The address a run is about to ask for.
Asking == CASE scanPc = "list" -> {ListUrl[page]}
            [] scanPc = "detail" -> IF todo = << >> THEN {} ELSE {DetailUrl[Head(todo)]}
            [] scanPc = "glama" -> {GlamaUrl[cursor]}
            [] OTHER -> {}

\* The process dies in kp.write_text: the file is there and does not parse.
DieWriting ==
  /\ \E url \in Asking \cap DOMAIN world :
       /\ ~Usable(url) /\ ~opts.offline
       /\ scanCache' = Stored(url, Corrupt)
  /\ scanPc' = "dead"
  /\ UNCHANGED <<world, drifts, scanRun, opts, page, names, total, todo, cursor, glamaN, recs,
                 net, fail, reports>>

Restart ==
  /\ scanPc = "dead" /\ scanPc' = "idle"
  /\ UNCHANGED <<world, drifts, scanRun, opts, page, names, total, todo, cursor, glamaN, recs,
                 reports>>
       /\ UNCHANGED fetcher

Drift ==
  /\ drifts < MaxDrifts
  /\ drifts' = drifts + 1
  /\ world' \in Worlds \ {world}
  /\ UNCHANGED <<scanPc, scanRun, opts, page, names, total, todo, cursor, glamaN, recs, reports>>
       /\ UNCHANGED fetcher

ScanInit ==
  /\ world \in Worlds /\ drifts = 0
  /\ scanCache = << >> /\ scanPc = "idle" /\ scanRun = 0
  /\ opts = [offline |-> FALSE, quick |-> FALSE, cached |-> FALSE]
  /\ page = 1 /\ names = << >> /\ total = -1 /\ todo = << >>
  /\ cursor = NoCursor /\ glamaN = 0 /\ recs = << >>
  /\ net = 0 /\ fail = 0 /\ reports = << >>

ScanStep == SmitheryPage \/ SmitheryDetail \/ DetailsDone \/ GlamaPage

ScanNext == StartScan \/ ScanStep \/ DieWriting \/ Restart \/ Drift

\* A started run goes on; nothing obliges one to start.
ScanSpec == ScanInit /\ [][ScanNext]_scanVars /\ WF_scanVars(ScanStep)

-----------------------------------------------------------------------------
(* Caps are kept, and every counted request had an outcome.                *)
ScanTypeOK ==
  /\ scanPc \in {"idle", "list", "detail", "glama", "dead"}
  /\ glamaN <= MaxServers /\ Len(todo) <= MaxServers /\ Len(recs) <= 2 * MaxServers
  /\ Len(reports) <= scanRun
  /\ \A i \in DOMAIN recs : recs[i].substrate <= recs[i].typed /\ recs[i].typed <= recs[i].tools

(* Runs are replayable: after a run in which no request failed, every run  *)
(* with the same cap writes the same records, whatever the registries have *)
(* become, whatever fails, and without any network.                        *)
ReplaysExactly ==
  \A i, j \in DOMAIN reports :
    i < j /\ reports[i].fail = 0 /\ reports[i].opts.quick = reports[j].opts.quick =>
      reports[j].records = reports[i].records

(* No server of the first registry is counted twice, though it may be      *)
(* listed on two pages while the listing shifts.                           *)
SmitheryServersDistinct ==
  \A i, j \in DOMAIN recs :
    recs[i].registry = "smithery" /\ recs[j].registry = "smithery"
      /\ recs[i].server = recs[j].server => i = j

(* A failure undercounts and never invents: each record of a server is the *)
(* tally of what the registry at some time published for that server.      *)
RecordsWerePublished ==
  \A i \in DOMAIN recs :
    recs[i].registry = "smithery" =>
      \E w \in Worlds : /\ DetailUrl[recs[i].server] \in DOMAIN w
                        /\ recs[i] = TallyServer("smithery", recs[i].server,
                                                 w[DetailUrl[recs[i].server]].tools)

\* The return fields of the server's tools in a world.
Published(w, server) ==
  IF DetailUrl[server] \notin DOMAIN w THEN {}
    ELSE UNION {Range(t) : t \in Range(w[DetailUrl[server]].tools)}

(* The conservative call: a field that both lexicons match is never taken  *)
(* for one the pipeline sets, whichever answer of a server was tallied.    *)
AmbiguousIsOut ==
  \A i \in DOMAIN recs :
    recs[i].registry = "smithery" /\ recs[i].pipeline > 0 =>
      \E w \in Worlds : \E f \in Published(w, recs[i].server) : f.pipe /\ ~f.subj

(* A file that parses is never replaced or lost.                           *)
CacheIsStable ==
  [][\A k \in DOMAIN scanCache :
       scanCache[k] # Corrupt => k \in DOMAIN scanCache' /\ scanCache'[k] = scanCache[k]]_scanVars

(* A run that starts is done or dead in the end, however the listing turns *)
(* in circles.                                                             *)
RunsEnd == (scanPc \in {"list", "detail", "glama"}) ~> (scanPc \in {"idle", "dead"})

\* What the worlds serve: known addresses; names that are numbers and, on a page of
\* the list, have an address of their own; never more pages than there are addresses.
ScanAssumption ==
  /\ ListUrl \in Seq(Urls) \ {<< >>} /\ Range(DetailUrl) \subseteq Urls
  /\ \A w \in Worlds : \A u \in DOMAIN w :
       /\ u \in Urls
       /\ w[u].pages \in 0..Len(ListUrl)
       /\ w[u].servers \in Seq(Int) /\ w[u].tools \in Seq(Range(w[u].tools))
       /\ u \in Range(ListUrl) => Range(w[u].servers) \subseteq DOMAIN DetailUrl
  /\ MaxServers \in Nat \ {0} /\ QuickServers \in Nat \ {0} /\ {MaxRuns, MaxDrifts} \subseteq Nat

\* No two addresses share a file, though the code cuts the name of a file short.
KeysDistinct == \A u, v \in Urls : Key[u] = Key[v] => u = v

\* Reports rest on what was published and, once everything was read, are written
\* again word for word from the cache.
RecordsAreReplayable ==
  /\ ScanTypeOK /\ ReplaysExactly /\ SmitheryServersDistinct /\ RecordsWerePublished
  /\ AmbiguousIsOut
=============================================================================

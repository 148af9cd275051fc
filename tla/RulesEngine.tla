---------------------------- MODULE RulesEngine ----------------------------
(***************************************************************************)
(* The codex rules engine: processes that share one SQLite database (every *)
(* statement commits by itself), the memory and telemetry files, which     *)
(* are read whole and written whole, and AGENTS.md.  A process runs one    *)
(* command of the command line; run-workflow is a script of the others.    *)
(* Paths, tests and commands are model values; a path maps to a component  *)
(* once and for all.                                                       *)
(***************************************************************************)
EXTENDS Naturals, Sequences, FiniteSets, FiniteSetsExt, Combinatorics, Bags

CONSTANTS
    Procs,          \* processes, each of which runs one command
    Calls,          \* the commands they may run: a set of CallType records
    Prs, Paths, Tests, Commands,
    Globs,          \* .codex/components.yml: a sequence of <<component, paths>>
    CommandOf,      \* templates: a command for some of the components
    Generic,        \* and one for each test, for the other components
    Covers,         \* pairs <<executed, required>>: the one starts with the other
    FileConfig,     \* what .codex/rules.yml sets
    EarlierFiles,   \* pr_files and test_events as earlier processes left them
    EarlierEvents,
    MaxDay,         \* bound: days that pass
    NoCall, NoRow, NoManifest, Torn

VARIABLES
    day,
    prs, prFiles, events, guidance,     \* the four tables
    files,      \* memory.json, telemetry.json, summary.json, AGENTS.md
    staged,     \* which of them a process has put in the git index
    exported,   \* what export --what stats wrote
    proc,       \* the processes
    kept, harmed    \* history: entries appended to a file; whether it met a fault

tables == <<prs, prFiles, events, guidance>>
stores == <<files, staged, kept, harmed>>
vars == <<day, tables, stores, exported, proc>>

---------------------------------------------------------------------------
(* Configuration and arguments *)

Ratio(n, d) == [num |-> n, den |-> d]
AtLeast(x, y) == x.num * y.den >= y.num * x.den

\* The defaults, overridden key by key by the file.
Config ==
    LET default == [window_days |-> 30, min_occurrences |-> 3,
                    min_confidence |-> Ratio(1, 4), min_lift |-> Ratio(3, 1),
                    alpha |-> Ratio(1, 100), flaky_threshold |-> Ratio(4, 100),
                    min_lift_for_flaky |-> Ratio(3, 1), manifest |-> NoManifest]
    IN  [k \in DOMAIN default |-> IF k \in DOMAIN FileConfig THEN FileConfig[k] ELSE default[k]]

ASSUME LiftAssumption == /\ Config.min_lift \in [num : Nat, den : Nat \ {0}]
                         /\ AtLeast(Config.min_lift, Ratio(3, 2))

\* What a result file says of a test, and the file it names.
Result == [test: Tests, hint: Paths, outcome: {"passed", "failed", "error"}]
Manifest == (SUBSET Commands) \cup {NoManifest}

Default == [pr |-> CHOOSE p \in Prs : TRUE, manifest |-> NoManifest, require_any |-> FALSE,
            fail_on_violation |-> FALSE, telemetry |-> FALSE, feedback |-> FALSE,
            paths |-> {}, format |-> "junit", results |-> {}, docs |-> FALSE,
            prune |-> FALSE, memory |-> FALSE]

Single == {"record-pr", "ingest-tests", "analyze", "update-docs", "emit-warnings",
           "prune", "export", "check-compliance", "memory"}

CallType == [cmd: Single \cup {"run-workflow"}, pr: Prs, manifest: Manifest, require_any: BOOLEAN,
             fail_on_violation: BOOLEAN, telemetry: BOOLEAN, feedback: BOOLEAN,
             paths: SUBSET Paths, format: {"junit", "pytest-json", "jest-json"},
             results: SUBSET Result, docs: BOOLEAN, prune: BOOLEAN, memory: BOOLEAN]

ASSUME CallsAssumption == Calls \subseteq CallType /\ NoCall \notin Calls

\* The first component with a glob that matches.
ComponentOf[f \in Paths] ==
    LET matching == {i \in DOMAIN Globs : f \in Globs[i][2]}
    IN  IF matching = {} THEN "unknown" ELSE Globs[Min(matching)][1]

Components == {ComponentOf[f] : f \in Paths} \ {"unknown"}

CommandFor(r) == IF r[1] \in DOMAIN CommandOf THEN CommandOf[r[1]] ELSE Generic[r[2]]

Opt(b, s) == IF b THEN s ELSE <<>>
Telemetry(c) == Opt(c.telemetry, <<"telemetry", "summary">>)

Bug_WarnFirst(c) ==
    <<"record-pr", "emit-warnings", "ingest-tests", "analyze">>
    \o Opt(c.prune, <<"prune">>) \o Telemetry(c) \o Opt(c.memory, <<"memory">>)

\* The order in which run_workflow calls the other handlers.
Workflow(c) ==
    <<"record-pr", "ingest-tests", "analyze">>
    \o Opt(c.docs, <<"update-docs">>)
    \o Opt(c.prune, <<"prune">> \o Opt(c.docs, <<"update-docs">>))
    \o <<"emit-warnings">> \o Telemetry(c) \o Opt(c.memory, <<"memory">>)

Script(c) ==
    IF c.cmd = "run-workflow" THEN Workflow(c)
    ELSE <<c.cmd>> \o IF c.cmd = "emit-warnings" THEN Telemetry(c) ELSE <<>>

---------------------------------------------------------------------------
(* Queries *)

Rules == Components \X Tests
Distinct == BagToSet(events)
\* The rows of a table of events that are equal to one of es.
RowsOf(table, es) == UNION {{e} \X (1 .. table[e]) : e \in es}

\* The tables as earlier processes left them; there are as many pull requests
\* as were ever opened.
ASSUME TablesAssumption ==
    /\ IsFiniteSet(Prs) /\ EarlierFiles \in [Prs -> SUBSET Paths]
    /\ IsABag(EarlierEvents) /\ IsFiniteSet(DOMAIN EarlierEvents)
    /\ \A e \in DOMAIN EarlierEvents :
          /\ e.pr \in Prs /\ e.test \in Tests /\ e.component \in Components \cup {"unknown"}
          /\ e.status \in {"passed", "failed"}

InWindow(e, cutoff) == e.day + Config.window_days >= cutoff

DistinctPairs(cutoff) ==
    {<<e.component, e.test>> : e \in {x \in Distinct : /\ InWindow(x, cutoff) /\ x.status = "failed"
                                                       /\ x.component # "unknown"}}

PrsTouching(c) == {p \in Prs : \E f \in prFiles[p] : ComponentOf[f] = c}
PrsFailing(t, cutoff) ==
    {e.pr : e \in {x \in Distinct : InWindow(x, cutoff) /\ x.test = t /\ x.status = "failed"}}
PrsSeen(cutoff) == {e.pr : e \in {x \in Distinct : InWindow(x, cutoff)}}

FailedEvents == {e \in DOMAIN events : e.status = "failed"}
Bug_CountEvents(touched, failed, universe) ==
    [a |-> Cardinality(RowsOf(events, {e \in FailedEvents : e.pr \in touched})),
     b |-> Cardinality(touched \ failed),
     c |-> Cardinality(failed \ touched), d |-> Cardinality(universe \ (touched \cup failed))]

Contingency(touched, failed, universe) ==
    [a |-> Cardinality(touched \cap failed), b |-> Cardinality(touched \ failed),
     c |-> Cardinality(failed \ touched), d |-> Cardinality(universe \ (touched \cup failed))]

Recent(rule, cutoff) ==
    \E e \in Distinct : /\ InWindow(e, cutoff) /\ e.status = "failed"
                        /\ e.component = rule[1] /\ e.test = rule[2]

AtLeastOne(n) == IF n = 0 THEN 1 ELSE n
Confidence(k) == Ratio(k.a, AtLeastOne(k.a + k.b))
\* confidence / max(baseline, 1e-6)
Lift(k) ==
    IF k.c = 0 THEN Ratio(k.a * 1000000, AtLeastOne(k.a + k.b))
    ELSE Ratio(k.a * (k.c + k.d), AtLeastOne(k.a + k.b) * k.c)

\* The chance of a or more of the failing PRs among the touching ones.
Fisher(k) ==
    LET row1 == k.a + k.b  row2 == k.c + k.d  col1 == k.a + k.c
        Ways(x) == IF col1 - x > row2 THEN 0 ELSE choose(row1, x) * choose(row2, col1 - x)
    IN  Ratio(MapThenSumSet(Ways, k.a .. Min({row1, col1})), choose(row1 + row2, col1))

Qualifies(k) ==
    LET total == k.a + k.b + k.c + k.d
    IN  /\ total > 0 /\ k.a >= Config.min_occurrences
        /\ AtLeast(Confidence(k), Config.min_confidence)
        /\ \/ AtLeast(Config.flaky_threshold, Ratio(k.a + k.c, total))
           \/ AtLeast(Lift(k), Config.min_lift_for_flaky)
        /\ AtLeast(Lift(k), Config.min_lift)
        /\ AtLeast(Config.alpha, Fisher(k))

Bug_WornByAge(k) == k.a = 0
Worn(k) == ~AtLeast(Lift(k), Ratio(3, 2))

Active == {r \in Rules : guidance[r] # NoRow /\ guidance[r].active}
ComponentsOfPr(p) == {ComponentOf[f] : f \in prFiles[p]} \ {"unknown"}
ActiveFor(components) == {r \in Active : r[1] \in components}
Required(rules) == {CommandFor(r) : r \in rules}

Missing(required, executed) ==
    {q \in required : \A e \in executed : <<e, q>> \notin Covers}
Compliant(required, executed, any) ==
    IF any THEN required = {} \/ Missing(required, executed) # required
    ELSE Missing(required, executed) = {}

\* Only JUnit files tell an error as a failure; a pytest error counts as passed.
JunitFails(r) == r.outcome \in {"failed", "error"}
PytestFails(r) == r.outcome = "failed"
JestFails(r) == r.outcome = "failed"
Status(format, r) ==
    IF CASE format = "junit" -> JunitFails(r)
         [] format = "pytest-json" -> PytestFails(r)
         [] format = "jest-json" -> JestFails(r)
    THEN "failed" ELSE "passed"

---------------------------------------------------------------------------
(* Processes *)

Table0 == [rule |-> <<>>, cutoff |-> 0, touched |-> {}, failed |-> {}]
Idle == [call |-> NoCall, todo |-> <<>>, at |-> "start", left |-> {}, picked |-> {},
         table |-> Table0, buf |-> <<>>, exit |-> "none", alone |-> TRUE]

Running(w) == proc[w].todo # <<>>
At(w, step, at) == /\ Running(w)
                   /\ Head(proc[w].todo) = step
                   /\ proc[w].at = at
Becomes(w, p) == proc' = [proc EXCEPT ![w] = p]

Exits(p, code) == [Idle EXCEPT !.call = p.call, !.alone = p.alone, !.exit = code]
\* The current step has ended; so has the process if it was the last.
Done(p) ==
    LET q == [p EXCEPT !.todo = Tail(p.todo), !.at = "start", !.left = {}, !.picked = {},
                       !.table = Table0, !.buf = <<>>]
    IN  IF q.todo = <<>> THEN Exits(q, "0") ELSE q

Files == {"memory", "telemetry", "summary", "docs"}

Init ==
    /\ day = 0
    /\ prs = {p \in Prs : EarlierFiles[p] # {}}
    /\ prFiles = EarlierFiles
    /\ events = EarlierEvents
    /\ guidance = [r \in Rules |-> NoRow]
    /\ files = [f \in Files |-> IF f = "docs" THEN <<"text">> ELSE <<>>]
    /\ staged = {}
    /\ exported = [failed |-> 0,    \* nothing yet
                   total |-> Cardinality(RowsOf(EarlierEvents, BagToSet(EarlierEvents)))]
    /\ proc = [w \in Procs |-> Idle]
    /\ kept = [f \in Files |-> <<>>]
    /\ harmed = [f \in Files |-> FALSE]

Tick ==
    /\ day < MaxDay
    /\ day' = day + 1
    /\ proc' = [w \in Procs |-> [proc[w] EXCEPT !.alone = @ /\ ~Running(w)]]
    /\ UNCHANGED <<tables, stores, exported>>

\* main: the arguments are read, and agent feedback needs telemetry.
Start(w, c) ==
    LET others == {v \in Procs \ {w} : Running(v)}
        me == [Idle EXCEPT !.call = c, !.alone = others = {}]
    IN  /\ proc[w].call = NoCall
        /\ proc' = [v \in Procs |->
              IF v = w THEN IF c.feedback /\ ~c.telemetry THEN Exits(me, "2")
                            ELSE [me EXCEPT !.todo = Script(c)]
              ELSE [proc[v] EXCEPT !.alone = @ /\ v \notin others]]
        /\ UNCHANGED <<day, tables, stores, exported>>

---------------------------------------------------------------------------
(* record-pr and ingest-tests *)

RecordPr(w) ==
    LET p == proc[w]
    IN  /\ At(w, "record-pr", "start")
        /\ prs' = prs \cup {p.call.pr}
        /\ Becomes(w, IF p.call.paths = {} THEN Done(p)
                      ELSE [p EXCEPT !.at = "rows", !.left = p.call.paths])
        /\ UNCHANGED <<day, prFiles, events, guidance, stores, exported>>

\* One row per file; rows of files that left the PR stay.
RecordFile(w, f) ==
    LET p == proc[w]
        q == [p EXCEPT !.left = @ \ {f}]
    IN  /\ At(w, "record-pr", "rows") /\ f \in p.left
        /\ prFiles' = [prFiles EXCEPT ![p.call.pr] = @ \cup {f}]
        /\ Becomes(w, IF q.left = {} THEN Done(q) ELSE q)
        /\ UNCHANGED <<day, prs, events, guidance, stores, exported>>

FindResults(w) ==
    LET p == proc[w]
    IN  /\ At(w, "ingest-tests", "start")
        /\ Becomes(w, IF p.call.results = {} THEN Done(p)
                      ELSE [p EXCEPT !.at = "events", !.left = p.call.results])
        /\ UNCHANGED <<day, tables, stores, exported>>

Event(c, r) ==
    [pr |-> c.pr, test |-> r.test, component |-> ComponentOf[r.hint],
     status |-> Status(c.format, r), day |-> day]

RecordTestEvent(w, r) ==
    LET p == proc[w]
        q == [p EXCEPT !.left = @ \ {r}]
    IN  /\ At(w, "ingest-tests", "events") /\ r \in p.left
        /\ events' = events (+) SetToBag({Event(p.call, r)})
        /\ Becomes(w, IF q.left = {} THEN Done(q) ELSE q)
        /\ UNCHANGED <<day, prs, prFiles, guidance, stores, exported>>

---------------------------------------------------------------------------
(* analyze and prune: a loop over pairs or rules, three queries for each *)

\* The next pair or rule; after the last, analyze writes what it found.
Loop(p) ==
    IF p.left # {} THEN [p EXCEPT !.at = "next"]
    ELSE IF Head(p.todo) = "analyze" /\ p.picked # {} THEN [p EXCEPT !.at = "upsert"]
    ELSE Done(p)

SelectPairs(w) ==
    /\ At(w, "analyze", "start")
    /\ Becomes(w, Loop([proc[w] EXCEPT !.left = DistinctPairs(day)]))
    /\ UNCHANGED <<day, tables, stores, exported>>

SelectActiveRules(w) ==
    /\ At(w, "prune", "start")
    /\ Becomes(w, Loop([proc[w] EXCEPT !.left = Active, !.table.cutoff = day]))
    /\ UNCHANGED <<day, tables, stores, exported>>

\* prune: no failure in the window, so the rule goes without a second look.
CountRecent(w, r) ==
    LET p == proc[w]
        q == [p EXCEPT !.left = @ \ {r}, !.table.rule = r]
    IN  /\ At(w, "prune", "next") /\ r \in p.left
        /\ Becomes(w, [q EXCEPT !.at = IF Recent(r, p.table.cutoff) THEN "touched" ELSE "deactivate"])
        /\ UNCHANGED <<day, tables, stores, exported>>

NextPair(w, r) ==
    LET p == proc[w]
    IN  /\ At(w, "analyze", "next") /\ r \in p.left
        /\ Becomes(w, [p EXCEPT !.left = @ \ {r}, !.table.rule = r, !.at = "touched"])
        /\ UNCHANGED <<day, tables, stores, exported>>

InLoop(w, at) == At(w, "analyze", at) \/ At(w, "prune", at)

SelectTouched(w) ==
    LET p == proc[w]
    IN  /\ InLoop(w, "touched")
        /\ Becomes(w, [p EXCEPT !.at = "failed", !.table.touched = PrsTouching(p.table.rule[1]),
                                !.table.cutoff = IF Head(p.todo) = "analyze" THEN day ELSE @])
        /\ UNCHANGED <<day, tables, stores, exported>>

SelectFailed(w) ==
    LET p == proc[w]
    IN  /\ InLoop(w, "failed")
        /\ Becomes(w, [p EXCEPT !.at = "universe",
                                !.table.failed = PrsFailing(p.table.rule[2], p.table.cutoff)])
        /\ UNCHANGED <<day, tables, stores, exported>>

\* The counts are complete: analyze keeps a candidate, prune condemns a rule.
SelectUniverse(w) ==
    LET p == proc[w]
        k == Contingency(p.table.touched, p.table.failed, PrsSeen(p.table.cutoff))
    IN  /\ InLoop(w, "universe")
        /\ Becomes(w, IF Head(p.todo) = "analyze"
                      THEN Loop(IF Qualifies(k)
                                THEN [p EXCEPT !.picked = @ \cup {[rule |-> p.table.rule, support |-> k.a]}]
                                ELSE p)
                      ELSE IF Worn(k) THEN [p EXCEPT !.at = "deactivate"] ELSE Loop(p))
        /\ UNCHANGED <<day, tables, stores, exported>>

UpsertGuidance(w, g) ==
    LET p == proc[w]
        q == [p EXCEPT !.picked = @ \ {g}]
    IN  /\ At(w, "analyze", "upsert") /\ g \in p.picked
        /\ guidance' = [guidance EXCEPT ![g.rule] = [support |-> g.support, active |-> TRUE]]
        /\ Becomes(w, Loop(q))
        /\ UNCHANGED <<day, prs, prFiles, events, stores, exported>>

Deactivate(w) ==
    LET p == proc[w]
    IN  /\ At(w, "prune", "deactivate")
        /\ guidance' = [guidance EXCEPT ![p.table.rule].active = FALSE]
        /\ Becomes(w, Loop(p))
        /\ UNCHANGED <<day, prs, prFiles, events, stores, exported>>

---------------------------------------------------------------------------
(* emit-warnings, check-compliance, export *)

SelectComponents(w) ==
    LET p == proc[w]
    IN  /\ \E s \in {"emit-warnings", "check-compliance", "telemetry"} : At(w, s, "start")
        /\ Becomes(w, [p EXCEPT !.at = "guidance", !.left = ComponentsOfPr(p.call.pr)])
        /\ UNCHANGED <<day, tables, stores, exported>>

ManifestOf(c) == IF c.manifest # NoManifest THEN c.manifest ELSE Config.manifest

\* Nothing to warn of ends the step before the manifest is looked at.
EmitWarnings(w) ==
    LET p == proc[w]  c == p.call  m == ManifestOf(c)
        required == Required(ActiveFor(p.left))
        violates == m # NoManifest /\ ~Compliant(required, m, c.require_any)
    IN  /\ At(w, "emit-warnings", "guidance")
        /\ Becomes(w, IF required # {} /\ violates /\ c.fail_on_violation
                      THEN Exits(p, "2") ELSE Done(p))
        /\ UNCHANGED <<day, tables, stores, exported>>

GateCompliance(w) ==
    LET p == proc[w]  c == p.call  m == ManifestOf(c)
        required == Required(ActiveFor(p.left))
    IN  /\ At(w, "check-compliance", "guidance")
        /\ Becomes(w, IF required = {} THEN Done(p)
                      ELSE IF m = NoManifest \/ ~Compliant(required, m, c.require_any)
                      THEN Exits(p, "2") ELSE Done(p))
        /\ UNCHANGED <<day, tables, stores, exported>>

\* The counts are queries of their own; the count of active rules is left out.
ExportStats(w) ==
    LET p == proc[w]
    IN  /\ \/ /\ At(w, "export", "start")
              /\ Becomes(w, [p EXCEPT !.at = "total",
                                      !.buf = <<Cardinality(RowsOf(events, FailedEvents))>>])
              /\ UNCHANGED exported
           \/ /\ At(w, "export", "total")
              /\ exported' = [failed |-> p.buf[1], total |-> Cardinality(RowsOf(events, Distinct))]
              /\ Becomes(w, Done(p))
        /\ UNCHANGED <<day, tables, stores>>

---------------------------------------------------------------------------
(* The files: each is read whole, changed, and written whole *)

FileOf(step) == IF step = "update-docs" THEN "docs" ELSE step
InFile(w, at) == /\ Running(w) /\ proc[w].at = at
                 /\ Head(proc[w].todo) \in {"telemetry", "summary", "memory", "update-docs"}
File(w) == FileOf(Head(proc[w].todo))

Bug_OpenFirst(f) == <<>>
\* An absent, short or damaged file reads as no entries.
Loaded(f) == IF files[f] = Torn THEN <<>> ELSE files[f]

\* A process is between its read of f and the end of its write.
Rewriting(v, f) == Running(v) /\ FileOf(Head(proc[v].todo)) = f
                   /\ proc[v].at \in {"truncate", "fill"}
Read(w, f, q) ==
    /\ Becomes(w, [q EXCEPT !.at = "truncate"])
    /\ harmed' = [harmed EXCEPT ![f] = @ \/ \E v \in Procs \ {w} : Rewriting(v, f)]
    /\ UNCHANGED <<day, tables, files, staged, kept, exported>>

\* What the telemetry entry says: the checks the manifest does not cover.
Entry(c, components) ==
    LET required == Required(ActiveFor(components))
        skipped == IF c.manifest = NoManifest \/ Compliant(required, c.manifest, c.require_any)
                   THEN {} ELSE Missing(required, c.manifest)
    IN  [pr |-> c.pr, components |-> components, skipped |-> skipped]

SelectForTelemetry(w) ==
    LET p == proc[w]
    IN  /\ At(w, "telemetry", "guidance")
        /\ Becomes(w, [p EXCEPT !.at = "load", !.buf = <<Entry(p.call, p.left)>>])
        /\ UNCHANGED <<day, tables, stores, exported>>

LoadTelemetry(w) ==
    LET p == proc[w]
    IN  At(w, "telemetry", "load") /\ Read(w, "telemetry", [p EXCEPT !.buf = Loaded("telemetry") \o @])

LoadForSummary(w) ==
    At(w, "summary", "start") /\ Read(w, "summary", [proc[w] EXCEPT !.buf = Loaded("telemetry")])

LoadMemory(w) ==
    At(w, "memory", "start") /\ Read(w, "memory", [proc[w] EXCEPT !.buf = Append(Loaded("memory"), w)])

\* AGENTS.md is a sequence of parts; the block is rewritten with its title.
NewDocs(parts) ==
    IF \E i \in DOMAIN parts : parts[i] = "block"
    THEN LET i == CHOOSE j \in DOMAIN parts : parts[j] = "block"
         IN  SubSeq(parts, 1, i - 1) \o <<"title", "block">> \o SubSeq(parts, i + 1, Len(parts))
    ELSE parts \o <<"title", "block">>

SelectForDocs(w) ==
    /\ At(w, "update-docs", "start")
    /\ Becomes(w, [proc[w] EXCEPT !.at = "load", !.picked = Active])
    /\ UNCHANGED <<day, tables, stores, exported>>

\* Rows of the database have no description, so a rule to list is an error.
LoadDocs(w) ==
    LET p == proc[w]
    IN  /\ At(w, "update-docs", "load")
        /\ IF p.picked = {}
           THEN Read(w, "docs", [p EXCEPT !.buf = NewDocs(Loaded("docs"))])
           ELSE /\ Becomes(w, Exits(p, "error"))
                /\ UNCHANGED <<day, tables, stores, exported>>

Truncate(w) ==
    /\ InFile(w, "truncate")
    /\ files' = [files EXCEPT ![File(w)] = Torn]
    /\ Becomes(w, [proc[w] EXCEPT !.at = "fill"])
    /\ UNCHANGED <<day, tables, staged, kept, harmed, exported>>

\* If another process filled the file meanwhile, its longer tail may stay.
Fill(w) ==
    LET p == proc[w]  f == File(w)
    IN  /\ InFile(w, "fill")
        /\ \E c \in {p.buf} \cup (IF files[f] = Torn THEN {} ELSE {Torn}) :
              files' = [files EXCEPT ![f] = c]
        /\ kept' = [kept EXCEPT ![f] =
              IF f \in {"memory", "telemetry"} THEN Append(@, p.buf[Len(p.buf)]) ELSE @]
        /\ Becomes(w, IF f \in {"memory", "summary"} THEN [p EXCEPT !.at = "stage"] ELSE Done(p))
        /\ UNCHANGED <<day, tables, staged, harmed, exported>>

\* git add, which may fail; only the memory command cares.
Stage(w) ==
    LET p == proc[w]
    IN  /\ \E s \in {"memory", "summary"} : At(w, s, "stage")
        /\ \/ /\ staged' = staged \cup (IF File(w) = "memory" THEN {"memory"} ELSE {"telemetry", "summary"})
              /\ Becomes(w, Done(p))
           \/ /\ Becomes(w, IF File(w) = "memory" THEN Exits(p, "1") ELSE Done(p))
              /\ UNCHANGED staged
        /\ UNCHANGED <<day, tables, files, kept, harmed, exported>>

---------------------------------------------------------------------------
(* Faults *)

\* What an end at this point does to the files.
Harms(w) ==
    {f \in Files : \/ InFile(w, "fill") /\ f = File(w)
                   \/ f = "summary" /\ Running(w) /\ Head(proc[w].todo) = "summary"}

\* An exception on the way: telemetry is given up with its summary, anything
\* else ends the process.
Fails(w) ==
    LET p == proc[w]
        step == Head(p.todo)
        given == IF step = "telemetry" THEN [p EXCEPT !.todo = Tail(@)] ELSE p
    IN  /\ Running(w) /\ p.at \in {"truncate", "fill", "events", "load"}
        /\ Becomes(w, IF step \in {"telemetry", "summary"} THEN Done(given) ELSE Exits(p, "1"))
        /\ harmed' = [f \in Files |-> harmed[f] \/ f \in Harms(w)]
        /\ UNCHANGED <<day, tables, files, staged, kept, exported>>

Killed(w) ==
    /\ Running(w)
    /\ Becomes(w, Exits(proc[w], "killed"))
    /\ harmed' = [f \in Files |-> harmed[f] \/ f \in Harms(w)]
    /\ UNCHANGED <<day, tables, files, staged, kept, exported>>

Step(w) ==
    \/ RecordPr(w) \/ \E f \in Paths : RecordFile(w, f)
    \/ FindResults(w) \/ \E r \in proc[w].left : RecordTestEvent(w, r)
    \/ SelectPairs(w) \/ SelectActiveRules(w)
    \/ \E r \in Rules : CountRecent(w, r) \/ NextPair(w, r)
    \/ SelectTouched(w) \/ SelectFailed(w) \/ SelectUniverse(w)
    \/ \E g \in proc[w].picked : UpsertGuidance(w, g)
    \/ Deactivate(w)
    \/ SelectComponents(w) \/ EmitWarnings(w) \/ GateCompliance(w) \/ ExportStats(w)
    \/ SelectForTelemetry(w) \/ LoadTelemetry(w) \/ LoadForSummary(w) \/ LoadMemory(w)
    \/ SelectForDocs(w) \/ LoadDocs(w) \/ Truncate(w) \/ Fill(w) \/ Stage(w)

Next ==
    \/ Tick
    \/ \E w \in Procs :
          \/ \E c \in Calls : Start(w, c)
          \/ Step(w) \/ Fails(w) \/ Killed(w)

Spec == Init /\ [][Next]_vars

---------------------------------------------------------------------------
(* Properties *)

Steps == Single \cup {"telemetry", "summary"}
Rows == [support : Nat \ {0}, active : BOOLEAN]
Entries == [pr : Prs, components : SUBSET Components, skipped : SUBSET Required(Rules)]
Parts == {"text", "title", "block"}

ASSUME BlanksAssumption ==
    /\ MaxDay \in Nat /\ NoRow \notin Rows
    /\ Torn \notin Seq(Procs) /\ Torn \notin Seq(Entries) /\ Torn \notin Seq(Parts)

\* Every variable keeps its shape: rows for rules, rows for files, scripts of
\* known steps, and exit codes the command line has.
TypeOK ==
    /\ day \in 0 .. MaxDay
    /\ prs \subseteq Prs /\ prFiles \in [Prs -> SUBSET Paths]
    /\ \A p \in Prs : prFiles[p] # {} => p \in prs
    /\ IsABag(events)
    /\ \A r \in Rules : guidance[r] = NoRow \/ guidance[r] \in Rows
    /\ \A w \in Procs : /\ \A i \in DOMAIN proc[w].todo : proc[w].todo[i] \in Steps
                        /\ proc[w].exit \in {"none", "0", "1", "2", "error", "killed"}
                        /\ proc[w].exit = "none" <=> proc[w].call = NoCall \/ Running(w)

\* Results that are ingested twice, by a CI job that was repeated, count once:
\* the support of a rule is a number of pull requests that failed its test.
SupportIsDistinctPrs ==
    \A r \in Rules : guidance[r] # NoRow =>
        guidance[r].support <= Cardinality({e.pr : e \in {x \in Distinct : x.test = r[2] /\ x.status = "failed"}})

\* export counts the failed events before all events, so that a process that
\* ingests at the same time never makes passed events vanish from the export.
ExportIsConsistent ==
    LET passed == {e \in DOMAIN EarlierEvents : e.status = "passed"}
    IN  exported.total - exported.failed >= Cardinality(RowsOf(EarlierEvents, passed))

\* What is counted out of the table of events is right, whoever adds to it
\* meanwhile: the support of the rules and the numbers of an export.
CountsAreRight == SupportIsDistinctPrs /\ ExportIsConsistent

Ends(w) == Running(w) /\ proc'[w].todo = <<>> /\ proc'[w].exit = "0" /\ proc[w].alone
Done1(w, cmds) == proc[w].call # NoCall /\ proc[w].call.cmd \in cmds

\* run-workflow with --fail-on-violation, or check-compliance, that ends with 0
\* while no other process ran: every command required by the rules that are
\* active at its end, those its own results brought about included, has run.
GateHolds ==
    [][\A w \in Procs :
         Ends(w) /\ Done1(w, {"run-workflow", "check-compliance"}) =>
           LET c == proc[w].call
               required == Required(ActiveFor(ComponentsOfPr(c.pr)))
           IN  \/ c.cmd = "run-workflow" /\ (~c.fail_on_violation \/ ManifestOf(c) = NoManifest)
               \/ required = {}
               \/ Compliant(required, ManifestOf(c), c.require_any)]_vars

\* After a workflow that analyses and prunes, undisturbed, the active rules are
\* those the data justify: each qualifying pair has one, and no rule is worn.
RulesFollowData ==
    [][\A w \in Procs :
         Ends(w) /\ Done1(w, {"run-workflow"}) /\ proc[w].call.prune =>
           LET Now(r) == Contingency(PrsTouching(r[1]), PrsFailing(r[2], day), PrsSeen(day))
           IN  /\ {r \in DistinctPairs(day) : Qualifies(Now(r))} \subseteq Active
               /\ \A r \in Active : Recent(r, day) /\ AtLeast(Lift(Now(r)), Ratio(3, 2))]_vars

\* Memory, telemetry and AGENTS.md lose what was written only to a process that
\* stops between truncating and writing, or to two that rewrite at once.
FilesKept ==
    \A f \in {"memory", "telemetry", "docs"} :
        harmed[f] \/ (\E w \in Procs : Rewriting(w, f))
        \/ IF f = "docs" THEN files[f] # Torn /\ files[f][1] = "text" ELSE files[f] = kept[f]

\* The summary that is staged with the telemetry condenses all of it, unless an
\* append was cut short before its summary.
SummaryFollows ==
    \/ harmed["summary"] \/ harmed["telemetry"]
    \/ \E w \in Procs : Running(w) /\ Head(proc[w].todo) \in {"telemetry", "summary"}
    \/ files["summary"] = files["telemetry"]

\* Every variable has its type, and the files keep what the commands put there.
HistoryKept == TypeOK /\ FilesKept /\ SummaryFollows

=============================================================================

------------------------------ MODULE TestGates ------------------------------
(***************************************************************************)
(* The test documentation gates of a repository: pull requests that change  *)
(* the traceability matrix or the files it names are checked by three       *)
(* workflows on their merge with main (rtm-gates of ci.yml,                 *)
(* dod-aggregator.yml and test-report.yml), main moves under them, each     *)
(* push to main is checked again, and a draft release follows a successful  *)
(* check.  The jobs run on runners of their own and meet only in what they  *)
(* report, in the incidents they file and in what merges.                   *)
(***************************************************************************)
EXTENDS TestReports, Sequences

CONSTANTS
  Prs,            \* pull requests
  FirstTree,      \* main at the start
  Changes,        \* what pull requests do to a checkout: a set of records
  Baseline,       \* the performance baselines of the repository
  PerfInputs, PortInputs,   \* results a release manager may have recorded
  MaxAttempts,    \* bound: attempts of a pull request's test-report run
  MaxCompletions  \* bound: runs of the completion report

\* What a change does: it edits a cell of some rows, deletes a file, or renames
\* a column.
Change ==
  [kind : {"cell"}, rows : SUBSET Rows, field : {"test", "procedure", "code"}, to : Paths]
    \union [kind : {"cell"}, rows : SUBSET Rows, field : {"model"}, to : Models \union {Blank}]
    \union [kind : {"delete"}, file : Files] \union [kind : {"header"}]

ASSUME FirstAssumption == FirstTree \in Tree /\ Baseline \in [Metrics -> Baselines]
ASSUME ChangesAssumption == Changes \subseteq Change
ASSUME BoundsAssumption == MaxAttempts \in Nat \ {0} /\ MaxCompletions \in Nat

VARIABLES
  main,         \* the checkout at the head of main
  pr,           \* per pull request: its change, merge commit and jobs
  pushes,       \* CI runs of main: [tree, state], in the order of the pushes
  releases,     \* draft releases: the artifacts' tree and the tagged tree
  incidents,    \* issues opened by test-report.yml
  completion    \* the last completion run and the report on disk
vars == <<main, pr, pushes, releases, incidents, completion>>

Job == {"queued", "success", "failure"}
ReportStep == {"queued", "written", "filed", "done"}
NoPr == [state |-> "none", change |-> CHOOSE c \in Changes : TRUE,
         tree |-> FirstTree, gates |-> "queued", coverage |-> "none",
         dod |-> "queued", specs |-> {}, log |-> [s \in {} |-> ""], env |-> "none",
         step |-> "queued", red |-> FALSE, attempt |-> 1, status |-> Failed,
         filing |-> "none", links |-> {}]

\* What merging a change makes of a checkout.
Apply(t, c) ==
  [header |-> t.header /\ c.kind # "header",
   rtm |-> IF c.kind = "cell"
           THEN [r \in Rows |-> IF r \in c.rows THEN [t.rtm[r] EXCEPT ![c.field] = c.to]
                                               ELSE t.rtm[r]]
           ELSE t.rtm,
   files |-> IF c.kind = "delete" THEN t.files \ {c.file} ELSE t.files]

Init ==
  /\ main = FirstTree
  /\ pr = [p \in Prs |-> NoPr]
  /\ pushes = <<>>
  /\ releases = {}
  /\ incidents = {}
  /\ completion = [runs |-> 0, exit |-> 0, report |-> "none", tree |-> FirstTree,
                   slow |-> FALSE, broken |-> FALSE]

-----------------------------------------------------------------------------
(* Pull requests.  The workflows of an event all check out the merge commit  *)
(* that GitHub made for it.                                                   *)

OpenPr(p) ==
  /\ pr[p].state = "none"
  /\ \E c \in Changes :
       pr' = [pr EXCEPT ![p] = [NoPr EXCEPT !.state = "open", !.change = c,
                                            !.tree = Apply(main, c)]]
  /\ UNCHANGED <<main, pushes, releases, incidents, completion>>

\* rtm-gates of ci.yml: validation, coverage, status report; the first failure
\* ends the job.
RtmGates(p) ==
  LET t == pr[p].tree
      Ok == ValidateRtm(t) = 0 /\ CheckCoverage(t) = 0 /\ StatusReport(t).exit = 0
  IN
  /\ pr[p].state = "open" /\ pr[p].gates = "queued"
  /\ pr' = [pr EXCEPT ![p].gates = IF Ok THEN "success" ELSE "failure"]
  /\ UNCHANGED <<main, pushes, releases, incidents, completion>>

Outcome(code) == IF code = 0 THEN "success" ELSE "failure"

\* env_gate_release: on release refs every LabVIEW status is "success".
EnvGate(release, s) == IF release /\ s # "success" THEN "failure" ELSE "success"

\* The outcomes of the steps of dod-aggregator.yml: a failing generation of
\* specifications, and no other step, has the steps after it skipped.  ADR_LINT
\* stands for the lint and the link check, which look at other files.
StepOutcomes(t, s, lint) ==
  LET tcs == Outcome(CaseSpecs(t))
      After(o) == IF tcs = "success" THEN o ELSE "skipped"
  IN [RTM_VALIDATE |-> Outcome(ValidateRtm(t)), RTM_COVERAGE |-> Outcome(CheckCoverage(t)),
      GENERATE_TCS |-> tcs, DATA_READINESS |-> After(Outcome(DataReadiness(t))),
      ENV_READINESS |-> After(Outcome(EnvReadiness(s))), ADR_LINT |-> After(lint)]

\* Fail if any gate failed; the execution log.
DodVerdict(o, gate) ==
  IF gate = "success" /\ \A step \in DOMAIN o : o[step] = "success" THEN "success"
  ELSE "failure"
LogOf(o) == [step \in DOMAIN o |-> Impact(o[step])]

Aggregate(p, s, release, lint) ==
  LET o == StepOutcomes(pr[p].tree, s, lint)  gate == EnvGate(release, s) IN
  /\ pr[p].state = "open" /\ pr[p].dod = "queued"
  /\ pr' = [pr EXCEPT ![p].dod = DodVerdict(o, gate), ![p].coverage = o.RTM_COVERAGE,
                      ![p].specs = SpecCases(pr[p].tree), ![p].env = gate,
                      ![p].log = LogOf(o)]
  /\ UNCHANGED <<main, pushes, releases, incidents, completion>>

DodAggregator(p) ==
  \E s \in EnvStatuses, release \in BOOLEAN, lint \in {"success", "failure"} :
    Aggregate(p, s, release, lint)

-----------------------------------------------------------------------------
(* test-report.yml: every step runs whatever the ones before it did, and the *)
(* job is red if one of them failed.                                         *)

AtStep(p, s) == pr[p].state # "none" /\ pr[p].step = s

WriteReports(p) ==
  LET t == pr[p].tree
      s == StatusReport(t) IN
  /\ AtStep(p, "queued")
  /\ pr' = [pr EXCEPT ![p].step = "written", ![p].status = s,
                      ![p].red = TestReport(t) # 0 \/ s.exit # 0]
  /\ UNCHANGED <<main, pushes, releases, incidents, completion>>

\* The rows the structured results, if there are any, have as critical and
\* blocked.
CriticalBlocked(p) ==
  {r \in Rows : /\ pr[p].tree.rtm[r].priority = "critical"
                /\ pr[p].status.results[r] = "blocked"}

\* An issue per row; a call that fails ends the step, without its output.
FileIncidents(p) ==
  LET todo == CriticalBlocked(p)
      Issue(r) == [pr |-> p, attempt |-> pr[p].attempt, row |-> r] IN
  /\ AtStep(p, "written")
  /\ \E opened \in SUBSET todo :
       LET Ok == opened = todo
           new == {Issue(r) : r \in opened}
       IN /\ incidents' = incidents \union new
          /\ pr' = [pr EXCEPT ![p].step = "filed", ![p].red = @ \/ ~Ok,
                              ![p].filing = IF Ok THEN "success" ELSE "failure",
                              ![p].links = IF Ok THEN new ELSE {}]
  /\ UNCHANGED <<main, pushes, releases, completion>>

\* The report is written again, with the links of incident_urls_from_env.
WriteStatusAgain(p) ==
  LET s == StatusReport(pr[p].tree) IN
  /\ AtStep(p, "filed")
  /\ pr' = [pr EXCEPT ![p].step = "done", ![p].status = s,
                      ![p].red = @ \/ s.exit # 0]
  /\ UNCHANGED <<main, pushes, releases, incidents, completion>>

\* "Re-run all jobs" of a red run: the same merge commit on a new runner.
RerunTestReport(p) ==
  /\ AtStep(p, "done") /\ pr[p].red /\ pr[p].attempt < MaxAttempts
  /\ pr' = [pr EXCEPT ![p].step = "queued", ![p].attempt = @ + 1, ![p].red = FALSE,
                      ![p].status = Failed, ![p].filing = "none", ![p].links = {}]
  /\ UNCHANGED <<main, pushes, releases, incidents, completion>>

-----------------------------------------------------------------------------
(* Main. *)

\* A pull request merges on the gates of docs/dod.md, into the main of then.
Merge(p) ==
  /\ pr[p].state = "open" /\ pr[p].gates = "success" /\ pr[p].dod = "success"
  /\ main' = Apply(main, pr[p].change)
  /\ pr' = [pr EXCEPT ![p].state = "merged"]
  /\ pushes' = Append(pushes, [tree |-> main', state |-> "queued"])
  /\ UNCHANGED <<releases, incidents, completion>>

\* rtm-gates for a push: validation, coverage, test report; the runs of
\* different commits end in any order, and other jobs may fail.
MainCi(n) ==
  LET t == pushes[n].tree
      Ok == ValidateRtm(t) = 0 /\ CheckCoverage(t) = 0 /\ TestReport(t) = 0 IN
  /\ pushes[n].state = "queued"
  /\ \E others \in BOOLEAN :
       pushes' = [pushes EXCEPT ![n].state = IF Ok /\ others THEN "success" ELSE "failure"]
  /\ UNCHANGED <<main, pr, releases, incidents, completion>>

\* draft-release.yml: after a successful run, the artifacts of that run and a
\* tag of what is then the head of main.
Bug_DraftRelease(n) ==
  /\ pushes[n].state \in {"success", "failure"}
  /\ releases' = releases \union {[artifacts |-> pushes[n].tree, tag |-> main]}
  /\ pushes' = [pushes EXCEPT ![n].state = "released"]
  /\ UNCHANGED <<main, pr, incidents, completion>>
DraftRelease(n) ==
  /\ pushes[n].state = "success"
  /\ releases' = releases \union {[artifacts |-> pushes[n].tree, tag |-> main]}
  /\ pushes' = [pushes EXCEPT ![n].state = "released"]
  /\ UNCHANGED <<main, pr, incidents, completion>>

\* generate_test_status.py --mode completion, by hand on the tagged commit: a
\* run that raises leaves the report of the run before it.
Complete(rel) ==
  /\ completion.runs < MaxCompletions
  /\ \E i \in PerfInputs, j \in PortInputs, elsewhere \in BOOLEAN :
       LET c == CompletionReport(rel.tag, i, Baseline, j, elsewhere)
           wrote == c # Failed
       IN completion' =
            [runs |-> completion.runs + 1, exit |-> c.exit,
             report |-> IF wrote THEN c.verdict ELSE completion.report,
             tree |-> IF wrote THEN rel.tag ELSE completion.tree,
             slow |-> /\ i.file = "list"
                      /\ \E k \in Metrics : i.value[k] = "over" /\ Baseline[k] = "some",
             broken |-> j.file = "list" /\ \E a \in Archs : j.status[a] = "fail"]
  /\ UNCHANGED <<main, pr, pushes, releases, incidents>>

PrStep(p) ==
  \/ OpenPr(p) \/ RtmGates(p) \/ DodAggregator(p)
  \/ WriteReports(p) \/ FileIncidents(p) \/ WriteStatusAgain(p)
  \/ RerunTestReport(p) \/ Merge(p)

Next ==
  \/ \E p \in Prs : PrStep(p)
  \/ \E n \in DOMAIN pushes : MainCi(n) \/ DraftRelease(n)
  \/ \E rel \in releases : Complete(rel)

Spec == Init /\ [][Next]_vars
-----------------------------------------------------------------------------
(* Properties. *)

\* The state variables hold what the code can put there.
TypeOK ==
  /\ main \in Tree
  /\ \A p \in Prs :
       /\ pr[p].state \in {"none", "open", "merged"} /\ pr[p].step \in ReportStep
       /\ pr[p].gates \in Job /\ pr[p].dod \in Job
       /\ pr[p].tree \in Tree /\ pr[p].attempt \in 1..MaxAttempts
       /\ \A r \in Rows : pr[p].status.results[r] \in {"none", "unknown", "blocked"}
  /\ \A i \in incidents : i.pr \in Prs /\ i.attempt \in 1..MaxAttempts /\ i.row \in Rows
  /\ completion.runs \in 0..MaxCompletions

\* A gap: a row whose cell does not name a file of the checkout.
Gap(t, r) == t.rtm[r].test \notin t.files
HighGap(t, r) == t.rtm[r].priority # "medium" /\ Gap(t, r)

\* docs/testing/policy.md: releases are blocked if high or critical gaps
\* remain.  Two pull requests that are fine apart may leave a gap together, on
\* a main no pull request was checked against; still, what a release carries
\* was built from a checkout without one.
ReleasedIsCovered ==
  \A rel \in releases : \A r \in Rows : ~HighGap(rel.artifacts, r)

\* The status report that is filed with a pull request and the coverage gate
\* are two implementations of one threshold in two workflows: when both have
\* spoken of a merge commit, they say the same.
VerdictIsTheGates ==
  \A p \in Prs : pr[p].status.verdict # "none" /\ pr[p].coverage # "none" =>
    (pr[p].status.verdict = "PASS" <=> pr[p].coverage = "success")

\* The specifications the aggregator uploads are made from the rows that name
\* a model, and a row that names none is left out without a word: the gate
\* before it is what makes a green aggregator have a case for each row.
GreenHasCases ==
  \A p \in Prs : pr[p].dod = "success" =>
    \A r \in Rows : \E c \in pr[p].specs : c[2] = r

\* An incident is opened for a critical row without a test, and for no other.
IncidentsAreGaps ==
  \A i \in incidents :
    LET t == pr[i.pr].tree IN t.rtm[i.row].priority = "critical" /\ Gap(t, i.row)

\* Once test-report is through and its calls succeeded, each critical row
\* without a test has an incident of that attempt, as long as no row at all,
\* critical or not, has an empty cell or one that leads outside: such a row
\* keeps the results from being written, and the incidents from being filed.
GapsAreFiled ==
  \A p \in Prs :
    /\ pr[p].step = "done" /\ pr[p].filing = "success" /\ pr[p].tree.header
    /\ \A r \in Rows : pr[p].tree.rtm[r].test \notin {Blank, Outside}
    => \A r \in Rows :
         pr[p].tree.rtm[r].priority = "critical" /\ Gap(pr[p].tree, r) =>
           [pr |-> p, attempt |-> pr[p].attempt, row |-> r] \in incidents

\* The links in the report that is uploaded are those of every incident the
\* attempt opened, or the step that opened some and stopped made the job red.
ReportListsIncidents ==
  \A p \in Prs : pr[p].step = "done" =>
    \/ pr[p].links = {i \in incidents : i.pr = p /\ i.attempt = pr[p].attempt}
    \/ pr[p].red /\ pr[p].filing = "failure"

\* Every variable has its type, and what is filed is what is missing: incidents
\* are opened for gaps, for all of them, and the report lists them.
IncidentsMatchGaps == TypeOK /\ IncidentsAreGaps /\ GapsAreFiled /\ ReportListsIncidents

\* The execution log, written before the verdict, agrees with it: a red
\* aggregator has a step the log says blocks the merge, or failed the gate of
\* release refs, which the log does not list; a green one has no such step.
LogExplainsVerdict ==
  \A p \in Prs :
    LET blocks == {s \in DOMAIN pr[p].log : pr[p].log[s] # "No impact"} IN
    /\ pr[p].dod = "success" => blocks = {}
    /\ pr[p].dod = "failure" => blocks # {} \/ pr[p].env = "failure"

\* A completion run that ends with 0 has written the report of the checkout
\* it ran on, which passes and has no gap, and was given no measurement over
\* the tolerance of its baseline and no failed architecture.
CompletionBlocks ==
  completion.runs > 0 /\ completion.exit = 0 =>
    /\ completion.report = "PASS"
    /\ \A r \in Rows : ~Gap(completion.tree, r)
    /\ ~completion.slow /\ ~completion.broken

\* A job that ends green has earned it: the aggregator with a case for each row
\* and nothing in its log that blocks, the completion run with its whole report.
GreenIsEarned == GreenHasCases /\ LogExplainsVerdict /\ CompletionBlocks

=============================================================================

----------------------------- MODULE TestReports -----------------------------
(***************************************************************************)
(* The report generators of .github/scripts as functions of a checkout and  *)
(* of their inputs: what each writes and the exit code it ends with.  An    *)
(* unhandled exception ends a script with exit code 1 and nothing written   *)
(* after it.                                                                *)
(***************************************************************************)
EXTENDS Rtm

CONSTANTS
  Metrics,          \* (scenario, architecture, metric) keys
  Archs,            \* architectures of the portability results
  DataLocations     \* the files generate_test_data_readiness.py asks for

ASSUME LocationsAssumption == DataLocations \subseteq Files

Failed == [exit |-> 1, verdict |-> "none", results |-> [r \in Rows |-> "none"]]

-----------------------------------------------------------------------------
(* generate_test_status.py *)

\* build_structured_results: nothing is executed, so a row with a test is
\* "unknown" and a row without one "blocked".
Bug_ActualBlank(t, r) == IF t.rtm[r].test = Blank THEN "blocked" ELSE "unknown"
Actual(t, r) ==
  IF t.rtm[r].test = Blank \/ ~HasTest(t, r) THEN "blocked" ELSE "unknown"

\* build_status_report, build_completion_report: the verdict is of the
\* thresholds alone, whatever the list of gaps below it says.
Verdict(t) == IF ThresholdsMet(t) THEN "PASS" ELSE "FAIL"

\* main: the files, and an exit code that any gap at all makes 1.  A header
\* mismatch is a SystemExit, which "except Exception" does not catch.
StatusReport(t) ==
  IF ~t.header \/ CoverageRaises(t) THEN Failed
  ELSE [exit |-> IF Missing(t) = {} /\ ThresholdsMet(t) THEN 0 ELSE 1,
        verdict |-> Verdict(t),
        results |-> [r \in Rows |-> Actual(t, r)]]

-----------------------------------------------------------------------------
(* Completion mode: performance and portability. *)

\* A measurements or portability file: "missing" or unreadable, not a list, or
\* a list with one entry per key; "bad" is an invalid or incomplete entry, and
\* "pass" any portability status but "fail" and "skipped".
FileStates == {"missing", "notList", "list"}
Measured == {"absent", "bad", "within", "over", "nan"}
Baselines == {"absent", "bad", "zero", "some"}
Statuses == {"absent", "bad", "pass", "skipped", "fail"}
PerfInput == [file : FileStates, value : [Metrics -> Measured]]
PortInput == [file : FileStates, status : [Archs -> Statuses]]

\* load_performance_baselines, load_performance_measurements,
\* load_portability_results: the entries kept; the others leave a note.
BaselinesOf(b) == {k \in Metrics : b[k] \notin {"absent", "bad"}}
MeasurementsOf(i) ==
  IF i.file = "list" THEN {k \in Metrics : i.value[k] \notin {"absent", "bad"}}
                     ELSE {}
PerfNotes(i) == i.file # "list" \/ \E k \in Metrics : i.value[k] = "bad"
ResultsOf(i) ==
  IF i.file = "list" THEN {a \in Archs : i.status[a] \notin {"absent", "bad"}}
                     ELSE {}

\* The delta of a measurement: none without a baseline or against 0; that of
\* a NaN compares as not above the tolerance.
OverTolerance(i, b, k) ==
  k \in BaselinesOf(b) /\ b[k] # "zero" /\ i.value[k] = "over"

\* summarize_performance: the line of the report ("FAIL" is the blocker).
Performance(i, b) ==
  LET M == MeasurementsOf(i)
      Warned == (BaselinesOf(b) \ M) \union {k \in M : k \notin BaselinesOf(b)}
                  \union {k \in M : b[k] = "zero"}
  IN  IF PerfNotes(i) /\ M = {} THEN "no measurements"
      ELSE IF BaselinesOf(b) = {} THEN "no baselines"
      ELSE IF \E k \in M : OverTolerance(i, b, k) THEN "FAIL"
      ELSE IF M = {} THEN "skipped"
      ELSE IF Warned # {} THEN "WARN" ELSE "PASS"

\* summarize_portability.
Portability(i) ==
  LET R == ResultsOf(i) IN
  IF R = {} THEN "no results"
  ELSE IF \E a \in R : i.status[a] = "fail" THEN "FAIL"
  ELSE IF \E a \in R : i.status[a] = "skipped" THEN "WARN" ELSE "PASS"

\* Naming a file that is outside the repository in a report raises; only the
\* lines for a missing result name it.
NamesFile(perf, port) == perf = "no measurements" \/ port = "no results"

\* main, in completion mode.  elsewhere: the results are read from an absolute
\* path that is not in the repository.
CompletionReport(t, i, b, j, elsewhere) ==
  LET perf == Performance(i, b)
      port == Portability(j)
      status == StatusReport(t)
  IN  IF status = Failed \/ (elsewhere /\ NamesFile(perf, port)) THEN Failed
      ELSE [status EXCEPT
              !.exit = IF "FAIL" \in {perf, port} THEN 1 ELSE status.exit]

-----------------------------------------------------------------------------
(* The other generators. *)

\* generate_test_report.py: gaps or thresholds missed end it with 1, after the
\* report is written.
TestReport(t) ==
  IF ~t.header \/ CoverageRaises(t) THEN 1
  ELSE IF Missing(t) = {} /\ ThresholdsMet(t) THEN 0 ELSE 1

\* generate_test_case_spec.py: a file per model that rows name, a case per row.
SpecCases(t) ==
  IF t.header THEN {<<t.rtm[r].model, r>> : r \in {s \in Rows : t.rtm[s].model # Blank}}
              ELSE {}
CaseSpecs(t) == IF SpecCases(t) = {} THEN 1 ELSE 0

\* generate_test_data_readiness.py
DataReadiness(t) == IF DataLocations \subseteq t.files THEN 0 ELSE 1

\* generate_test_env_readiness.py: one of the LabVIEW and licence variables;
\* anything that is not a status is a warning, as "success" and an unset variable
\* are, and the gate runner is Linux.
EnvStatuses == {"success", "ready", "blocker"}
CheckStatus(s) ==
  IF s = "ready" THEN "Ready" ELSE IF s = "blocker" THEN "Blocker" ELSE "Warning"
EnvReadiness(s) == IF CheckStatus(s) = "Blocker" THEN 1 ELSE 0

\* generate_test_execution_log.py: the impact it writes for a step's outcome.
Bug_Impact(outcome) ==
  IF outcome = "" THEN "Blocks merge when failure" ELSE "No impact"
Impact(outcome) ==
  IF outcome = "success" THEN "No impact" ELSE "Blocks merge when failure"
=============================================================================

-------------------------------- MODULE Rtm ---------------------------------
(***************************************************************************)
(* The requirements traceability matrix (docs/requirements/rtm.csv) as the  *)
(* scripts of .github/scripts read it: two implementations of the coverage  *)
(* thresholds (rtm_utils.py, behind the reports, and check_rtm_coverage.py, *)
(* the gate) and the path check of validate_rtm.py.  Everything here is a   *)
(* function of a checkout (a "tree"); TestGates.tla says which checkout     *)
(* each workflow looks at, and when.                                        *)
(***************************************************************************)
EXTENDS Naturals, FiniteSets

CONSTANTS
  Rows,     \* requirements of the matrix
  Files,    \* paths of the repository that rows and readiness checks name
  Models    \* test models a row can name

\* A cell may be empty, or name an existing path that is not in the repository.
Blank == "blank"
Outside == "outside"
Paths == Files \union {Blank, Outside}
ASSUME CellsAssumption == Blank \notin Files /\ Outside \notin Files
ASSUME RowsAssumption == IsFiniteSet(Rows)
Priorities == {"critical", "high", "medium"}

\* A checkout: is the header the expected one, the cells, the files there are.
Row == [priority : Priorities, test : Paths, procedure : Paths, code : Paths,
        model : Models \union {Blank}, item : BOOLEAN]
Tree == [header : BOOLEAN, rtm : [Rows -> Row], files : SUBSET Files]

HighOrCritical == {"high", "critical"}

-----------------------------------------------------------------------------
(* rtm_utils.py, behind generate_test_status.py and generate_test_report.py. *)

\* resolve_test_path: a path of the repository that exists.
HasTest(t, r) == t.rtm[r].test \in t.files

\* compute_coverage: covered and total of some rows; no row is full coverage.
Covered(t, R) == {r \in R : HasTest(t, r)}
Bug_CriticalRowsOnly(t) == {r \in Rows : t.rtm[r].priority = "critical"}
HighRows(t) == {r \in Rows : t.rtm[r].priority \in HighOrCritical}

\* The completion verdict of the reports: MIN_HIGH = 100%, MIN_TOTAL = 75%.
ThresholdsMet(t) ==
  /\ Covered(t, HighRows(t)) = HighRows(t)
  /\ 4 * Cardinality(Covered(t, Rows)) >= 3 * Cardinality(Rows)

\* compute_coverage, missing: the rows without a test, medium ones included.
Missing(t) == Rows \ Covered(t, Rows)

\* The reason given for a missing row is its path relative to the repository;
\* an empty cell (whose Path() is not false) and a path outside have none, and
\* relative_to raises.
CoverageRaises(t) == \E r \in Missing(t) : t.rtm[r].test \in {Blank, Outside}

-----------------------------------------------------------------------------
(* check_rtm_coverage.py: the gate. *)

\* resolve_test_path: provided, inside the repository and present.
CellResolves(t, r) ==
  LET p == t.rtm[r].test IN p # Blank /\ p # Outside /\ p \in t.files

\* evaluate and main: 100% of high and critical rows, 75% of all; exit code.
CheckCoverage(t) ==
  LET Has == {r \in Rows : CellResolves(t, r)} IN
  IF ~t.header THEN 2
  ELSE IF /\ \A r \in Rows : t.rtm[r].priority \in HighOrCritical => r \in Has
          /\ Cardinality(Has) * 100 >= 75 * Cardinality(Rows)
       THEN 0 ELSE 1

-----------------------------------------------------------------------------
(* validate_rtm.py: what is named exists, and what must be named is. *)

\* A path that is not checked to lie in the repository, or to be given at all.
Exists(t, p) == p \in {Blank, Outside} \union t.files

ModelsNamed(t) == \A r \in Rows : t.rtm[r].model # Blank

ValidateRtm(t) ==
  IF ~t.header THEN 2
  ELSE IF /\ ModelsNamed(t)
          /\ \A r \in Rows :
               LET row == t.rtm[r] IN
               /\ row.procedure # Blank
               /\ row.priority \in HighOrCritical => row.item
               /\ \A p \in {row.code, row.test, row.procedure} : Exists(t, p)
       THEN 0 ELSE 1
=============================================================================

--------------------------- MODULE TestGatesProofs ----------------------------
(***************************************************************************)
(* Proofs about the test documentation gates, for every matrix, every set   *)
(* of files and of changes, and any number of pull requests.                *)
(***************************************************************************)
EXTENDS TestGates, FiniteSetTheorems, TLAPS

USE CellsAssumption, RowsAssumption, FirstAssumption, ChangesAssumption

-----------------------------------------------------------------------------
(* Functions of a checkout. *)

\* A change makes a checkout of a checkout.
LEMMA ApplyType ==
    ASSUME NEW t \in Tree, NEW c \in Changes
    PROVE  Apply(t, c) \in Tree
<1>1. c \in Change
  OBVIOUS
<1>2. t.header \in BOOLEAN /\ t.rtm \in [Rows -> Row] /\ t.files \in SUBSET Files
  BY DEF Tree
<1>3. CASE c.kind = "cell"
  <2>1. /\ c.rows \in SUBSET Rows
        /\ \/ c.field \in {"test", "procedure", "code"} /\ c.to \in Paths
           \/ c.field = "model" /\ c.to \in Models \union {Blank}
    BY <1>1, <1>3 DEF Change
  <2>2. ASSUME NEW r \in Rows PROVE [t.rtm[r] EXCEPT ![c.field] = c.to] \in Row
    <3>1. t.rtm[r] \in Row
      BY <1>2
    <3>2. CASE c.field = "test" /\ c.to \in Paths
      BY <3>1, <3>2 DEF Row
    <3>3. CASE c.field = "procedure" /\ c.to \in Paths
      BY <3>1, <3>3 DEF Row
    <3>4. CASE c.field = "code" /\ c.to \in Paths
      BY <3>1, <3>4 DEF Row
    <3>5. CASE c.field = "model" /\ c.to \in Models \union {Blank}
      BY <3>1, <3>5 DEF Row
    <3>6. QED
      BY <2>1, <3>2, <3>3, <3>4, <3>5
  <2>3. [r \in Rows |-> IF r \in c.rows THEN [t.rtm[r] EXCEPT ![c.field] = c.to]
                                        ELSE t.rtm[r]] \in [Rows -> Row]
    BY <1>2, <2>2
  <2>4. QED
    BY <1>2, <1>3, <2>3 DEF Apply, Tree
<1>4. CASE c.kind # "cell"
  BY <1>2, <1>4 DEF Apply, Tree
<1>5. QED
  BY <1>3, <1>4

\* The gate lets no checkout with a gap in a high or critical row through.
LEMMA GateClosesGaps ==
    ASSUME NEW t \in Tree, CheckCoverage(t) = 0
    PROVE  \A r \in Rows : ~HighGap(t, r)
<1>1. t.header
  BY DEF CheckCoverage
<1>2. \A r \in Rows : t.rtm[r].priority \in HighOrCritical => CellResolves(t, r)
  BY <1>1 DEF CheckCoverage
<1>3. \A r \in Rows : t.rtm[r].priority \in Priorities
  BY DEF Tree, Row
<1>4. QED
  BY <1>2, <1>3 DEF HighGap, Gap, CellResolves, HighOrCritical, Priorities

\* rtm_utils.py and check_rtm_coverage.py find the same rows covered, and where
\* both get as far as a verdict it is the same.
LEMMA ThresholdsAgree ==
    ASSUME NEW t \in Tree, t.header
    PROVE  ThresholdsMet(t) <=> CheckCoverage(t) = 0
<1> DEFINE Has == {r \in Rows : CellResolves(t, r)}
<1>1. Covered(t, Rows) = Has
  BY DEF Covered, HasTest, CellResolves, Tree
<1>2. Covered(t, HighRows(t)) = HighRows(t)
        <=> \A r \in Rows : t.rtm[r].priority \in HighOrCritical => r \in Has
  BY DEF Covered, HasTest, CellResolves, HighRows, Tree
<1>3. Cardinality(Rows) \in Nat /\ Cardinality(Has) \in Nat
  BY FS_CardinalityType, FS_Subset
<1>4. 4 * Cardinality(Has) >= 3 * Cardinality(Rows)
        <=> Cardinality(Has) * 100 >= 75 * Cardinality(Rows)
  BY <1>3
<1>5. CheckCoverage(t) = 0
        <=> /\ \A r \in Rows : t.rtm[r].priority \in HighOrCritical => r \in Has
            /\ Cardinality(Has) * 100 >= 75 * Cardinality(Rows)
  BY DEF CheckCoverage
<1> HIDE DEF Has
<1>6. QED
  BY <1>1, <1>2, <1>4, <1>5 DEF ThresholdsMet

LEMMA VerdictsAgree ==
    ASSUME NEW t \in Tree, StatusReport(t).verdict # "none"
    PROVE  StatusReport(t).verdict = "PASS" <=> Outcome(CheckCoverage(t)) = "success"
<1>1. StatusReport(t) # Failed
  BY DEF Failed
<1>2. t.header /\ StatusReport(t).verdict = Verdict(t)
  BY <1>1 DEF StatusReport
<1>3. QED
  BY <1>2, ThresholdsAgree DEF Verdict, Outcome

-----------------------------------------------------------------------------
(* The invariant. *)

\* What the fields of a pull request owe to its checkout: the verdict of the
\* gate and the status report are those of the merge commit they ran on.
PrKnows(x) ==
    /\ DOMAIN x = DOMAIN NoPr
    /\ x.state # "none" => x.change \in Changes
    /\ x.tree \in Tree
    /\ x.coverage = "none" \/ x.coverage = Outcome(CheckCoverage(x.tree))
    /\ x.status.verdict = "none" \/ x.status = StatusReport(x.tree)

PushRun == [tree : Tree, state : {"queued", "success", "failure", "released"}]

GatesInv ==
    /\ DOMAIN pr = Prs /\ pr = [p \in Prs |-> pr[p]]
    /\ \A p \in Prs : PrKnows(pr[p])
    /\ main \in Tree
    /\ pushes \in Seq(PushRun)
    /\ \A n \in 1..Len(pushes) :
         pushes[n].state = "success" => \A r \in Rows : ~HighGap(pushes[n].tree, r)
    /\ ReleasedIsCovered

LEMMA NoPrKnows == PrKnows(NoPr)
BY DEF PrKnows, NoPr, Failed

\* A step of one pull request's own.
LEMMA PrMoves ==
    ASSUME GatesInv, NEW p \in Prs, NEW x, PrKnows(x), pr' = [pr EXCEPT ![p] = x],
           UNCHANGED <<main, pushes, releases>>
    PROVE  GatesInv'
<1>1. DOMAIN pr' = Prs /\ pr' = [q \in Prs |-> pr'[q]]
      /\ \A q \in Prs : pr'[q] = IF q = p THEN x ELSE pr[q]
  BY DEF GatesInv
<1>2. QED
  BY <1>1 DEF GatesInv, ReleasedIsCovered

LEMMA PrStepKeeps ==
    ASSUME GatesInv, NEW p \in Prs, PrStep(p)
    PROVE  GatesInv'
<1>1. DOMAIN pr = Prs /\ PrKnows(pr[p])
  BY DEF GatesInv
<1>2. DOMAIN NoPr = {"state", "change", "tree", "gates", "coverage", "dod", "specs", "log",
                     "env", "step", "red", "attempt", "status", "filing", "links"}
  BY DEF NoPr
<1>3. CASE OpenPr(p)
  <2>1. PICK c \in Changes :
          pr' = [pr EXCEPT ![p] = [NoPr EXCEPT !.state = "open", !.change = c,
                                               !.tree = Apply(main, c)]]
    BY <1>3 DEF OpenPr
  <2> DEFINE x == [NoPr EXCEPT !.state = "open", !.change = c, !.tree = Apply(main, c)]
  <2>2. Apply(main, c) \in Tree
    BY ApplyType DEF GatesInv
  <2>3. PrKnows(x)
    BY <2>2 DEF PrKnows, NoPr, Failed
  <2> HIDE DEF x
  <2>4. pr' = [pr EXCEPT ![p] = x] /\ UNCHANGED <<main, pushes, releases>>
    BY <2>1, <1>3 DEF OpenPr, x
  <2>5. QED
    BY <2>3, <2>4, PrMoves
<1>4. CASE RtmGates(p)
  <2>1. PICK v : pr' = [pr EXCEPT ![p].gates = v] /\ UNCHANGED <<main, pushes, releases>>
    BY <1>4 DEF RtmGates
  <2> DEFINE x == [pr[p] EXCEPT !.gates = v]
  <2>2. PrKnows(x)
    BY <1>1, <1>2 DEF PrKnows
  <2>3. pr' = [pr EXCEPT ![p] = x]
    BY <1>1, <2>1
  <2> HIDE DEF x
  <2>4. QED
    BY <2>1, <2>2, <2>3, PrMoves
<1>5. CASE DodAggregator(p)
  <2>1. PICK s \in EnvStatuses, e \in BOOLEAN, lint \in {"success", "failure"} :
          Aggregate(p, s, e, lint)
    BY <1>5 DEF DodAggregator
  <2> DEFINE o == StepOutcomes(pr[p].tree, s, lint)
             x == [pr[p] EXCEPT !.dod = DodVerdict(o, EnvGate(e, s)), !.coverage = o.RTM_COVERAGE,
                                !.specs = SpecCases(pr[p].tree), !.env = EnvGate(e, s),
                                !.log = LogOf(o)]
  <2>2. o.RTM_COVERAGE = Outcome(CheckCoverage(pr[p].tree))
    BY DEF StepOutcomes
  <2> HIDE DEF o
  <2>3. PrKnows(x)
    BY <1>1, <1>2, <2>2 DEF PrKnows
  <2>4. pr' = [pr EXCEPT ![p] = x] /\ UNCHANGED <<main, pushes, releases>>
    BY <1>1, <2>1 DEF Aggregate, o
  <2> HIDE DEF x
  <2>5. QED
    BY <2>3, <2>4, PrMoves
<1>6. CASE WriteReports(p)
  <2>1. PICK v : /\ pr' = [pr EXCEPT ![p].step = "written",
                                     ![p].status = StatusReport(pr[p].tree), ![p].red = v]
                 /\ UNCHANGED <<main, pushes, releases>>
    BY <1>6 DEF WriteReports
  <2> DEFINE x == [pr[p] EXCEPT !.step = "written", !.status = StatusReport(pr[p].tree), !.red = v]
  <2>2. PrKnows(x)
    BY <1>1, <1>2 DEF PrKnows
  <2>3. pr' = [pr EXCEPT ![p] = x]
    BY <1>1, <2>1
  <2> HIDE DEF x
  <2>4. QED
    BY <2>1, <2>2, <2>3, PrMoves
<1>7. CASE FileIncidents(p)
  <2>1. PICK v, o, l : /\ pr' = [pr EXCEPT ![p].step = "filed", ![p].red = v,
                                           ![p].filing = o, ![p].links = l]
                       /\ UNCHANGED <<main, pushes, releases>>
    BY <1>7 DEF FileIncidents
  <2> DEFINE x == [pr[p] EXCEPT !.step = "filed", !.red = v, !.filing = o, !.links = l]
  <2>2. PrKnows(x)
    BY <1>1, <1>2 DEF PrKnows
  <2>3. pr' = [pr EXCEPT ![p] = x]
    BY <1>1, <2>1
  <2> HIDE DEF x
  <2>4. QED
    BY <2>1, <2>2, <2>3, PrMoves
<1>8. CASE WriteStatusAgain(p)
  <2>1. PICK v : /\ pr' = [pr EXCEPT ![p].step = "done",
                                     ![p].status = StatusReport(pr[p].tree), ![p].red = v]
                 /\ UNCHANGED <<main, pushes, releases>>
    BY <1>8 DEF WriteStatusAgain
  <2> DEFINE x == [pr[p] EXCEPT !.step = "done", !.status = StatusReport(pr[p].tree), !.red = v]
  <2>2. PrKnows(x)
    BY <1>1, <1>2 DEF PrKnows
  <2>3. pr' = [pr EXCEPT ![p] = x]
    BY <1>1, <2>1
  <2> HIDE DEF x
  <2>4. QED
    BY <2>1, <2>2, <2>3, PrMoves
<1>9. CASE RerunTestReport(p)
  <2>1. PICK a : /\ pr' = [pr EXCEPT ![p].step = "queued", ![p].attempt = a, ![p].red = FALSE,
                                     ![p].status = Failed, ![p].filing = "none", ![p].links = {}]
                 /\ UNCHANGED <<main, pushes, releases>>
    BY <1>9 DEF RerunTestReport
  <2> DEFINE x == [pr[p] EXCEPT !.step = "queued", !.attempt = a, !.red = FALSE,
                                !.status = Failed, !.filing = "none", !.links = {}]
  <2>2. PrKnows(x)
    BY <1>1, <1>2 DEF PrKnows, Failed
  <2>3. pr' = [pr EXCEPT ![p] = x]
    BY <1>1, <2>1
  <2> HIDE DEF x
  <2>4. QED
    BY <2>1, <2>2, <2>3, PrMoves
<1>10. CASE Merge(p)
  <2> DEFINE x == [pr[p] EXCEPT !.state = "merged"]
             t == Apply(main, pr[p].change)
  <2>1. pr[p].change \in Changes
    BY <1>1, <1>10 DEF Merge, PrKnows
  <2>2. t \in Tree
    BY <2>1, ApplyType DEF GatesInv
  <2>3. PrKnows(x)
    BY <1>1, <1>2, <2>1 DEF PrKnows
  <2>4. pr' = [pr EXCEPT ![p] = x]
    BY <1>1, <1>10 DEF Merge
  <2>5. main' = t /\ pushes' = Append(pushes, [tree |-> t, state |-> "queued"])
        /\ UNCHANGED releases
    BY <1>10 DEF Merge
  <2> HIDE DEF x, t
  <2>6. DOMAIN pr' = Prs /\ pr' = [q \in Prs |-> pr'[q]] /\ \A q \in Prs : PrKnows(pr'[q])
    BY <2>3, <2>4 DEF GatesInv
  <2>7. [tree |-> t, state |-> "queued"] \in PushRun /\ pushes \in Seq(PushRun)
    BY <2>2 DEF PushRun, GatesInv
  <2>8. pushes' \in Seq(PushRun) /\ Len(pushes') = Len(pushes) + 1 /\ Len(pushes) \in Nat
        /\ \A n \in 1..Len(pushes') :
             pushes'[n] = IF n <= Len(pushes) THEN pushes[n]
                          ELSE [tree |-> t, state |-> "queued"]
    BY <2>5, <2>7
  <2>9. \A n \in 1..Len(pushes') :
          pushes'[n].state = "success" => \A r \in Rows : ~HighGap(pushes'[n].tree, r)
    BY <2>8 DEF GatesInv
  <2>10. ReleasedIsCovered'
    BY <2>5 DEF GatesInv, ReleasedIsCovered
  <2>11. QED
    BY <2>2, <2>5, <2>6, <2>8, <2>9, <2>10 DEF GatesInv
<1>11. QED
  BY <1>3, <1>4, <1>5, <1>6, <1>7, <1>8, <1>9, <1>10 DEF PrStep

LEMMA PushesKeep ==
    ASSUME GatesInv, NEW n \in 1..Len(pushes), NEW s \in {"success", "failure", "released"},
           pushes' = [pushes EXCEPT ![n].state = s], UNCHANGED <<main, pr>>,
           s = "success" => CheckCoverage(pushes[n].tree) = 0,
           ReleasedIsCovered'
    PROVE  GatesInv'
<1>1. pushes \in Seq(PushRun) /\ Len(pushes) \in Nat /\ pushes[n] \in PushRun
  BY DEF GatesInv
<1> DEFINE y == [pushes[n] EXCEPT !.state = s]
<1>2. y \in PushRun /\ y.tree = pushes[n].tree /\ y.state = s
  BY <1>1 DEF PushRun
<1>3. pushes' = [pushes EXCEPT ![n] = y]
  BY <1>1
<1> HIDE DEF y
<1>4. pushes' \in Seq(PushRun) /\ Len(pushes') = Len(pushes)
      /\ \A k \in 1..Len(pushes) : pushes'[k] = IF k = n THEN y ELSE pushes[k]
  BY <1>1, <1>2, <1>3
<1>5. s = "success" => \A r \in Rows : ~HighGap(pushes[n].tree, r)
  BY <1>1, GateClosesGaps DEF PushRun
<1>6. \A k \in 1..Len(pushes') :
        pushes'[k].state = "success" => \A r \in Rows : ~HighGap(pushes'[k].tree, r)
  BY <1>2, <1>4, <1>5 DEF GatesInv
<1>7. QED
  BY <1>4, <1>6 DEF GatesInv

LEMMA GatesStep ==
    ASSUME GatesInv, [Next]_vars
    PROVE  GatesInv'
<1>1. DOMAIN pushes = 1..Len(pushes)
  BY DEF GatesInv
<1>2. ASSUME NEW n \in DOMAIN pushes, MainCi(n) PROVE GatesInv'
  <2>1. PICK s \in {"success", "failure"} :
          /\ pushes' = [pushes EXCEPT ![n].state = s]
          /\ s = "success" => CheckCoverage(pushes[n].tree) = 0
    BY <1>2 DEF MainCi
  <2>2. ReleasedIsCovered' /\ UNCHANGED <<main, pr>>
    BY <1>2 DEF MainCi, GatesInv, ReleasedIsCovered
  <2>3. QED
    BY <1>1, <1>2, <2>1, <2>2, PushesKeep
<1>3. ASSUME NEW n \in DOMAIN pushes, DraftRelease(n) PROVE GatesInv'
  <2>1. \A r \in Rows : ~HighGap(pushes[n].tree, r)
    BY <1>1, <1>3 DEF DraftRelease, GatesInv
  <2>2. ReleasedIsCovered'
    BY <1>3, <2>1 DEF DraftRelease, GatesInv, ReleasedIsCovered
  <2>3. QED
    BY <1>1, <1>3, <2>2, PushesKeep DEF DraftRelease
<1>4. ASSUME NEW rel \in releases, Complete(rel) PROVE GatesInv'
  BY <1>4 DEF Complete, GatesInv, ReleasedIsCovered
<1>5. CASE UNCHANGED vars
  BY <1>5 DEF vars, GatesInv, ReleasedIsCovered
<1>6. QED
  BY <1>2, <1>3, <1>4, <1>5, PrStepKeeps DEF Next

LEMMA GatesInit == Init => GatesInv
<1> SUFFICES ASSUME Init PROVE GatesInv
  OBVIOUS
<1>1. DOMAIN pr = Prs /\ pr = [p \in Prs |-> pr[p]] /\ \A p \in Prs : PrKnows(pr[p])
  BY NoPrKnows DEF Init
<1>2. pushes \in Seq(PushRun) /\ Len(pushes) = 0 /\ releases = {} /\ main \in Tree
  BY DEF Init
<1>3. QED
  BY <1>1, <1>2 DEF GatesInv, ReleasedIsCovered

-----------------------------------------------------------------------------

LEMMA GatesHold == Spec => []GatesInv
<1>1. Init => GatesInv
  BY GatesInit
<1>2. GatesInv /\ [Next]_vars => GatesInv'
  BY GatesStep
<1>3. QED
  BY <1>1, <1>2, PTL DEF Spec

\* No draft release carries artifacts of a checkout in which a high or critical
\* row names no test: whatever merged, the run on main it followed had checked
\* that very checkout.
THEOREM ReleasesAreCovered == Spec => []ReleasedIsCovered
<1>1. GatesInv => ReleasedIsCovered
  BY DEF GatesInv
<1>2. QED
  BY <1>1, GatesHold, PTL

\* The status report and the coverage gate never contradict each other about a
\* merge commit, in whatever order and however often their workflows run.
THEOREM VerdictsAreTheGates == Spec => []VerdictIsTheGates
<1>1. GatesInv => VerdictIsTheGates
  <2> SUFFICES ASSUME GatesInv, NEW p \in Prs,
                      pr[p].status.verdict # "none", pr[p].coverage # "none"
               PROVE  pr[p].status.verdict = "PASS" <=> pr[p].coverage = "success"
    BY DEF VerdictIsTheGates
  <2>1. /\ pr[p].tree \in Tree
        /\ pr[p].coverage = Outcome(CheckCoverage(pr[p].tree))
        /\ pr[p].status = StatusReport(pr[p].tree)
    BY DEF GatesInv, PrKnows
  <2>2. QED
    BY <2>1, VerdictsAgree
<1>2. QED
  BY <1>1, GatesHold, PTL

-----------------------------------------------------------------------------
(***************************************************************************)
(* More proofs about the test documentation gates: incidents are the gaps,  *)
(* and a green job has earned it, for every matrix, every set of changes    *)
(* and any number of pull requests, attempts and completion runs.           *)
(***************************************************************************)

USE BoundsAssumption

\* The incident that an attempt of a pull request opens for a row.
IssueOf(p, a, r) == [pr |-> p, attempt |-> a, row |-> r]
Incident == [pr : Prs, attempt : 1..MaxAttempts, row : Rows]

\* The incidents among I that one attempt opened.
OpenedBy(p, a, I) == {i \in I : i.pr = p /\ i.attempt = a}

\* The rows that the results of x have as critical and blocked.
BlockedIn(x) == {r \in Rows : /\ x.tree.rtm[r].priority = "critical"
                              /\ x.status.results[r] = "blocked"}

\* The fields of a pull request x have their types, and nothing has happened
\* before it was opened.
PrTyped(x) ==
    /\ x.state \in {"none", "open", "merged"} /\ x.step \in ReportStep
    /\ x.gates \in Job /\ x.dod \in Job /\ x.attempt \in 1..MaxAttempts
    /\ x.state = "none" => x = NoPr

\* What the test-report run of p with the fields x owes to its checkout and to
\* the incidents I: the report is that of the checkout; an attempt has opened
\* none before it files, and afterwards all, or it is red.
FiledAs(p, x, I) ==
    /\ x.status \in {Failed, StatusReport(x.tree)}
    /\ x.step # "queued" => x.status = StatusReport(x.tree)
    /\ \A i \in I : i.pr = p =>
         /\ i.attempt <= x.attempt
         /\ x.step \in {"queued", "written"} => i.attempt < x.attempt
         /\ x.tree.rtm[i.row].priority = "critical" /\ Gap(x.tree, i.row)
    /\ x.step \in {"filed", "done"} =>
         \/ /\ x.filing = "success" /\ x.links = OpenedBy(p, x.attempt, I)
            /\ x.links = {IssueOf(p, x.attempt, r) : r \in BlockedIn(x)}
         \/ x.filing = "failure" /\ x.red

\* What the aggregator left in x is made of the outcomes of one run of its steps
\* on the checkout.
DodAs(x) ==
    x.dod # "queued" =>
      \E s \in EnvStatuses, release \in BOOLEAN, lint \in {"success", "failure"} :
        LET o == StepOutcomes(x.tree, s, lint)  gate == EnvGate(release, s) IN
        /\ x.dod = DodVerdict(o, gate) /\ x.env = gate
        /\ x.specs = SpecCases(x.tree) /\ x.log = LogOf(o)

PrGreen(p, x, I) == PrTyped(x) /\ FiledAs(p, x, I) /\ DodAs(x)

GreenInv ==
    /\ \A p \in Prs : PrGreen(p, pr[p], incidents)
    /\ incidents \subseteq Incident
    /\ completion.runs \in 0..MaxCompletions
    /\ CompletionBlocks

-----------------------------------------------------------------------------
(* Functions of a checkout. *)

\* A row is blocked only if its cell names no file, and every such row is as
\* soon as the report is written at all.
LEMMA BlockedIsGap ==
    ASSUME NEW t \in Tree, NEW r \in Rows
    PROVE  /\ StatusReport(t).results[r] \in {"none", "unknown", "blocked"}
           /\ StatusReport(t).results[r] = "blocked" => Gap(t, r)
           /\ t.header /\ ~CoverageRaises(t) /\ Gap(t, r)
                => StatusReport(t).results[r] = "blocked"
<1>1. t.files \subseteq Files
  BY DEF Tree
<1>2. Actual(t, r) \in {"unknown", "blocked"}
      /\ (Actual(t, r) = "blocked" <=> Gap(t, r))
  BY <1>1 DEF Actual, Gap, HasTest
<1>3. CASE ~t.header \/ CoverageRaises(t)
  BY <1>3 DEF StatusReport, Failed
<1>4. CASE t.header /\ ~CoverageRaises(t)
  BY <1>2, <1>4 DEF StatusReport
<1>5. QED
  BY <1>3, <1>4

\* A completion report that ends with 0 is of a checkout without a gap, and had no
\* measurement over its tolerance and no failed architecture to tell of.
LEMMA CompletionIsGood ==
    ASSUME NEW t, NEW i, NEW j, NEW elsewhere,
           CompletionReport(t, i, Baseline, j, elsewhere).exit = 0
    PROVE  /\ CompletionReport(t, i, Baseline, j, elsewhere) # Failed
           /\ CompletionReport(t, i, Baseline, j, elsewhere).verdict = "PASS"
           /\ \A r \in Rows : ~Gap(t, r)
           /\ ~(i.file = "list" /\ \E k \in Metrics : i.value[k] = "over" /\ Baseline[k] = "some")
           /\ ~(j.file = "list" /\ \E a \in Archs : j.status[a] = "fail")
<1> DEFINE perf == Performance(i, Baseline)
           port == Portability(j)
           c == CompletionReport(t, i, Baseline, j, elsewhere)
<1>1. c # Failed
  BY DEF Failed
<1>2. c = [StatusReport(t) EXCEPT
             !.exit = IF "FAIL" \in {perf, port} THEN 1 ELSE StatusReport(t).exit]
      /\ StatusReport(t) # Failed
  BY <1>1 DEF CompletionReport
<1>3. StatusReport(t) = [exit |-> IF Missing(t) = {} /\ ThresholdsMet(t) THEN 0 ELSE 1,
                         verdict |-> Verdict(t), results |-> [r \in Rows |-> Actual(t, r)]]
  BY <1>2 DEF StatusReport
<1>4. perf # "FAIL" /\ port # "FAIL" /\ StatusReport(t).exit = 0 /\ c.verdict = Verdict(t)
  BY <1>2, <1>3
<1>5. Missing(t) = {} /\ ThresholdsMet(t)
  BY <1>3, <1>4
<1>6. Verdict(t) = "PASS" /\ \A r \in Rows : ~Gap(t, r)
  BY <1>5 DEF Verdict, Missing, Covered, HasTest, Gap
<1>7. ASSUME i.file = "list", NEW k \in Metrics, i.value[k] = "over", Baseline[k] = "some"
      PROVE  FALSE
  <2>1. k \in MeasurementsOf(i) /\ k \in BaselinesOf(Baseline) /\ OverTolerance(i, Baseline, k)
    BY <1>7 DEF MeasurementsOf, BaselinesOf, OverTolerance
  <2>2. perf = "FAIL"
    BY <2>1 DEF Performance
  <2>3. QED
    BY <1>4, <2>2
<1>8. ASSUME j.file = "list", NEW a \in Archs, j.status[a] = "fail"
      PROVE  FALSE
  <2>1. a \in ResultsOf(j)
    BY <1>8 DEF ResultsOf
  <2>2. port = "FAIL"
    BY <1>8, <2>1 DEF Portability
  <2>3. QED
    BY <1>4, <2>2
<1>9. QED
  BY <1>1, <1>4, <1>6, <1>7, <1>8

-----------------------------------------------------------------------------
(* The invariant is inductive. *)

\* A step of one pull request touches the incidents of no other.
LEMMA OneMoves ==
    ASSUME GatesInv, GreenInv, NEW p \in Prs, NEW x, pr' = [pr EXCEPT ![p] = x],
           NEW new \in SUBSET Incident, incidents' = incidents \union new,
           \A i \in new : i.pr = p,
           PrGreen(p, x, incidents'), UNCHANGED completion
    PROVE  GreenInv'
<1>1. \A q \in Prs : pr'[q] = IF q = p THEN x ELSE pr[q]
  BY DEF GatesInv
<1>2. ASSUME NEW q \in Prs, q # p PROVE PrGreen(q, pr[q], incidents')
  <2>1. PrTyped(pr[q]) /\ FiledAs(q, pr[q], incidents) /\ DodAs(pr[q])
    BY DEF GreenInv, PrGreen
  <2>2. \A i \in incidents' : i.pr = q => i \in incidents
    BY <1>2
  <2>3. OpenedBy(q, pr[q].attempt, incidents') = OpenedBy(q, pr[q].attempt, incidents)
    BY <2>2 DEF OpenedBy
  <2>4. FiledAs(q, pr[q], incidents')
    BY <2>1, <2>2, <2>3 DEF FiledAs
  <2>5. QED
    BY <2>1, <2>4 DEF PrGreen
<1>3. incidents' \subseteq Incident
  BY DEF GreenInv
<1>4. completion'.runs \in 0..MaxCompletions /\ CompletionBlocks'
  BY DEF GreenInv, CompletionBlocks, Gap
<1>5. QED
  BY <1>1, <1>2, <1>3, <1>4 DEF GreenInv

\* One that files nothing.
LEMMA OneMovesQuietly ==
    ASSUME GatesInv, GreenInv, NEW p \in Prs, NEW x, pr' = [pr EXCEPT ![p] = x],
           UNCHANGED <<incidents, completion>>, PrGreen(p, x, incidents)
    PROVE  GreenInv'
BY OneMoves, {} \in SUBSET Incident

LEMMA NoPrFields ==
    /\ DOMAIN NoPr = {"state", "change", "tree", "gates", "coverage", "dod", "specs", "log",
                      "env", "step", "red", "attempt", "status", "filing", "links"}
    /\ NoPr.state = "none" /\ NoPr.step = "queued" /\ NoPr.attempt = 1
    /\ NoPr.gates = "queued" /\ NoPr.dod = "queued" /\ NoPr.status = Failed
BY DEF NoPr

\* A pull request that was just opened, or never was.
LEMMA NothingYet ==
    ASSUME NEW p, NEW I, \A i \in I : i.pr # p, NEW x,
           x.step = "queued", x.status = Failed, x.dod = "queued", x.gates = "queued",
           x.attempt = 1, x = NoPr \/ x.state = "open"
    PROVE  PrGreen(p, x, I)
BY NoPrFields DEF PrGreen, PrTyped, FiledAs, DodAs, ReportStep, Job

LEMMA GreenPrStep ==
    ASSUME GatesInv, GreenInv, NEW p \in Prs, PrStep(p)
    PROVE  GreenInv'
<1>1. DOMAIN pr = Prs /\ DOMAIN pr[p] = DOMAIN NoPr /\ pr[p].tree \in Tree
  BY DEF GatesInv, PrKnows
<1>2. PrTyped(pr[p]) /\ FiledAs(p, pr[p], incidents) /\ DodAs(pr[p])
  BY DEF GreenInv, PrGreen
<1>3. CASE OpenPr(p)
  <2>1. PICK c \in Changes :
          pr' = [pr EXCEPT ![p] = [NoPr EXCEPT !.state = "open", !.change = c,
                                               !.tree = Apply(main, c)]]
    BY <1>3 DEF OpenPr
  <2> DEFINE x == [NoPr EXCEPT !.state = "open", !.change = c, !.tree = Apply(main, c)]
  <2>2. \A i \in incidents : i.pr # p
    <3>1. pr[p] = NoPr
      BY <1>2, <1>3 DEF OpenPr, PrTyped
    <3>2. \A i \in incidents : i.attempt \in 1..MaxAttempts
      BY DEF GreenInv, Incident
    <3>3. QED
      BY <1>2, <3>1, <3>2, NoPrFields DEF FiledAs
  <2>3. /\ x.step = "queued" /\ x.status = Failed /\ x.dod = "queued" /\ x.gates = "queued"
        /\ x.attempt = 1 /\ x.state = "open"
    BY NoPrFields
  <2> HIDE DEF x
  <2>4. PrGreen(p, x, incidents)
    BY <2>2, <2>3, NothingYet
  <2>5. pr' = [pr EXCEPT ![p] = x] /\ UNCHANGED <<incidents, completion>>
    BY <2>1, <1>3 DEF OpenPr, x
  <2>6. QED
    BY <2>4, <2>5, OneMovesQuietly
<1>4. CASE RtmGates(p)
  <2>1. PICK v \in {"success", "failure"} :
          pr' = [pr EXCEPT ![p].gates = v] /\ UNCHANGED <<incidents, completion>>
    BY <1>4 DEF RtmGates
  <2> DEFINE x == [pr[p] EXCEPT !.gates = v]
  <2>2. PrGreen(p, x, incidents)
    BY <1>1, <1>2, <1>4, NoPrFields
    DEF RtmGates, PrGreen, PrTyped, FiledAs, DodAs, BlockedIn, Job
  <2>3. pr' = [pr EXCEPT ![p] = x]
    BY <1>1, <2>1
  <2> HIDE DEF x
  <2>4. QED
    BY <2>1, <2>2, <2>3, OneMovesQuietly
<1>5. CASE DodAggregator(p)
  <2>1. PICK s \in EnvStatuses, e \in BOOLEAN, lint \in {"success", "failure"} :
          Aggregate(p, s, e, lint)
    BY <1>5 DEF DodAggregator
  <2> DEFINE o == StepOutcomes(pr[p].tree, s, lint)
             x == [pr[p] EXCEPT !.dod = DodVerdict(o, EnvGate(e, s)), !.coverage = o.RTM_COVERAGE,
                                !.specs = SpecCases(pr[p].tree), !.env = EnvGate(e, s),
                                !.log = LogOf(o)]
  <2>2. /\ x.dod = DodVerdict(o, EnvGate(e, s)) /\ x.env = EnvGate(e, s)
        /\ x.specs = SpecCases(pr[p].tree) /\ x.log = LogOf(o) /\ x.tree = pr[p].tree
        /\ x.state = pr[p].state /\ x.step = pr[p].step /\ x.gates = pr[p].gates
        /\ x.attempt = pr[p].attempt /\ x.status = pr[p].status
        /\ x.filing = pr[p].filing /\ x.links = pr[p].links /\ x.red = pr[p].red
    BY <1>1, NoPrFields
  <2>3. pr' = [pr EXCEPT ![p] = x] /\ UNCHANGED <<incidents, completion>>
        /\ pr[p].state = "open"
    BY <1>1, <2>1 DEF Aggregate
  <2>4. DodVerdict(o, EnvGate(e, s)) \in Job
    BY DEF DodVerdict, Job
  <2> HIDE DEF x
  <2>5. DodAs(x)
    BY <2>2 DEF DodAs
  <2> HIDE DEF o
  <2>6. PrTyped(x) /\ FiledAs(p, x, incidents)
    BY <1>2, <2>2, <2>3, <2>4 DEF PrTyped, FiledAs, BlockedIn
  <2>7. QED
    BY <2>3, <2>5, <2>6, OneMovesQuietly DEF PrGreen
<1>6. CASE WriteReports(p)
  <2>1. PICK v : /\ pr' = [pr EXCEPT ![p].step = "written",
                                     ![p].status = StatusReport(pr[p].tree), ![p].red = v]
                 /\ UNCHANGED <<incidents, completion>>
                 /\ pr[p].state # "none" /\ pr[p].step = "queued"
    BY <1>6 DEF WriteReports, AtStep
  <2> DEFINE x == [pr[p] EXCEPT !.step = "written", !.status = StatusReport(pr[p].tree), !.red = v]
  <2>2. PrGreen(p, x, incidents)
    BY <1>1, <1>2, <2>1, NoPrFields DEF PrGreen, PrTyped, FiledAs, DodAs, ReportStep
  <2>3. pr' = [pr EXCEPT ![p] = x]
    BY <1>1, <2>1
  <2> HIDE DEF x
  <2>4. QED
    BY <2>1, <2>2, <2>3, OneMovesQuietly
<1>7. CASE FileIncidents(p)
  <2> DEFINE a == pr[p].attempt
             todo == CriticalBlocked(p)
  <2>1. PICK opened \in SUBSET todo :
          LET Ok == opened = todo
              new == {IssueOf(p, a, r) : r \in opened}
          IN /\ incidents' = incidents \union new
             /\ pr' = [pr EXCEPT ![p].step = "filed", ![p].red = @ \/ ~Ok,
                                 ![p].filing = IF Ok THEN "success" ELSE "failure",
                                 ![p].links = IF Ok THEN new ELSE {}]
    BY <1>7 DEF FileIncidents, IssueOf
  <2> DEFINE Ok == opened = todo
             new == {IssueOf(p, a, r) : r \in opened}
             x == [pr[p] EXCEPT !.step = "filed", !.red = pr[p].red \/ ~Ok,
                                !.filing = IF Ok THEN "success" ELSE "failure",
                                !.links = IF Ok THEN new ELSE {}]
  <2>2. pr[p].state # "none" /\ pr[p].step = "written" /\ UNCHANGED completion
    BY <1>7 DEF FileIncidents, AtStep
  <2>3. pr' = [pr EXCEPT ![p] = x] /\ incidents' = incidents \union new
    BY <1>1, <2>1
  <2>4. /\ x.step = "filed" /\ x.red = (pr[p].red \/ ~Ok)
        /\ x.filing = (IF Ok THEN "success" ELSE "failure")
        /\ x.links = (IF Ok THEN new ELSE {})
        /\ x.tree = pr[p].tree /\ x.state = pr[p].state /\ x.gates = pr[p].gates
        /\ x.dod = pr[p].dod /\ x.env = pr[p].env /\ x.specs = pr[p].specs
        /\ x.log = pr[p].log /\ x.attempt = a /\ x.status = pr[p].status
    BY <1>1, NoPrFields
  <2>5. todo = BlockedIn(x) /\ opened \subseteq Rows /\ a \in 1..MaxAttempts
        /\ x.status = StatusReport(x.tree)
    BY <1>2, <2>2, <2>4 DEF CriticalBlocked, BlockedIn, PrTyped, FiledAs
  <2>6. \A i \in new : i.pr = p /\ i.attempt = a /\ i.row \in opened
    BY DEF IssueOf
  <2>7. new \in SUBSET Incident
    BY <2>5 DEF Incident, IssueOf
  <2>8. \A r \in opened : x.tree.rtm[r].priority = "critical" /\ Gap(x.tree, r)
    BY <1>1, <2>4, <2>5, BlockedIsGap DEF BlockedIn
  <2>9. Ok => new = {IssueOf(p, a, r) : r \in BlockedIn(x)}
    BY <2>5
  <2>10. new = OpenedBy(p, a, incidents \union new)
    <3>1. \A i \in incidents : i.pr = p => i.attempt # a
      <4>1. \A i \in incidents : i.pr = p => i.attempt < a
        BY <1>2, <2>2 DEF FiledAs
      <4>2. \A i \in incidents : i.attempt \in Int
        BY DEF GreenInv, Incident
      <4>3. QED
        BY <2>5, <4>1, <4>2
    <3>2. QED
      BY <2>6, <3>1 DEF OpenedBy
  <2> HIDE DEF x, new, Ok
  <2>11. \A i \in incidents \union new : i.pr = p =>
           /\ i.attempt <= a
           /\ x.tree.rtm[i.row].priority = "critical" /\ Gap(x.tree, i.row)
    <3>1. \A i \in incidents : i.pr = p =>
            /\ i.attempt <= a
            /\ x.tree.rtm[i.row].priority = "critical" /\ Gap(x.tree, i.row)
      BY <1>2, <2>4 DEF FiledAs
    <3>2. QED
      BY <2>5, <2>6, <2>8, <3>1
  <2>12. FiledAs(p, x, incidents \union new)
    <3>1. CASE Ok
      BY <2>4, <2>5, <2>9, <2>10, <2>11, <3>1 DEF FiledAs
    <3>2. CASE ~Ok
      BY <2>4, <2>5, <2>11, <3>2 DEF FiledAs
    <3>3. QED
      BY <3>1, <3>2
  <2>13. PrTyped(x) /\ DodAs(x)
    BY <1>2, <2>2, <2>4 DEF PrTyped, DodAs, ReportStep
  <2>14. QED
    BY <2>2, <2>3, <2>6, <2>7, <2>12, <2>13, OneMoves DEF PrGreen
<1>8. CASE WriteStatusAgain(p)
  <2>1. PICK v \in BOOLEAN :
               /\ pr' = [pr EXCEPT ![p].step = "done",
                                   ![p].status = StatusReport(pr[p].tree),
                                   ![p].red = pr[p].red \/ v]
               /\ UNCHANGED <<incidents, completion>>
               /\ pr[p].state # "none" /\ pr[p].step = "filed"
    BY <1>1, <1>8 DEF WriteStatusAgain, AtStep
  <2> DEFINE x == [pr[p] EXCEPT !.step = "done", !.status = StatusReport(pr[p].tree),
                                !.red = pr[p].red \/ v]
  <2>2. pr' = [pr EXCEPT ![p] = x]
    BY <1>1, <2>1
  <2>3. /\ x.step = "done" /\ x.status = StatusReport(pr[p].tree) /\ x.red = (pr[p].red \/ v)
        /\ x.tree = pr[p].tree /\ x.state = pr[p].state /\ x.gates = pr[p].gates
        /\ x.dod = pr[p].dod /\ x.env = pr[p].env /\ x.specs = pr[p].specs
        /\ x.log = pr[p].log /\ x.attempt = pr[p].attempt
        /\ x.filing = pr[p].filing /\ x.links = pr[p].links
    BY <1>1, NoPrFields
  <2> HIDE DEF x
  <2>4. pr[p].status = StatusReport(pr[p].tree)
    BY <1>2, <2>1 DEF FiledAs
  <2>5. BlockedIn(x) = BlockedIn(pr[p])
    BY <2>3, <2>4 DEF BlockedIn
  <2>6. PrTyped(x) /\ DodAs(x)
    BY <1>2, <2>1, <2>3 DEF PrTyped, DodAs, ReportStep
  <2>7. FiledAs(p, x, incidents)
    BY <1>2, <2>1, <2>3, <2>5 DEF FiledAs
  <2>8. QED
    BY <2>1, <2>2, <2>6, <2>7, OneMovesQuietly DEF PrGreen
<1>9. CASE RerunTestReport(p)
  <2> DEFINE a == pr[p].attempt
             x == [pr[p] EXCEPT !.step = "queued", !.attempt = a + 1, !.red = FALSE,
                                !.status = Failed, !.filing = "none", !.links = {}]
  <2>1. /\ pr' = [pr EXCEPT ![p] = x] /\ UNCHANGED <<incidents, completion>>
        /\ pr[p].state # "none" /\ a < MaxAttempts
    BY <1>1, <1>9 DEF RerunTestReport, AtStep
  <2>2. /\ x.step = "queued" /\ x.status = Failed /\ x.attempt = a + 1
        /\ x.tree = pr[p].tree /\ x.state = pr[p].state /\ x.gates = pr[p].gates
        /\ x.dod = pr[p].dod /\ x.env = pr[p].env /\ x.specs = pr[p].specs
        /\ x.log = pr[p].log
    BY <1>1, NoPrFields
  <2> HIDE DEF x
  <2>3. PrTyped(x) /\ DodAs(x)
    BY <1>2, <2>1, <2>2 DEF PrTyped, DodAs, ReportStep
  <2>4. \A i \in incidents : i.attempt \in Int
    BY DEF GreenInv, Incident
  <2>5. a \in Int
    BY <1>2 DEF PrTyped
  <2>6. FiledAs(p, x, incidents)
    BY <1>2, <2>2, <2>4, <2>5 DEF FiledAs
  <2>7. QED
    BY <2>1, <2>3, <2>6, OneMovesQuietly DEF PrGreen
<1>10. CASE Merge(p)
  <2> DEFINE x == [pr[p] EXCEPT !.state = "merged"]
  <2>1. PrGreen(p, x, incidents)
    BY <1>1, <1>2, <1>10, NoPrFields
    DEF Merge, PrGreen, PrTyped, FiledAs, DodAs, BlockedIn
  <2>2. pr' = [pr EXCEPT ![p] = x] /\ UNCHANGED <<incidents, completion>>
    BY <1>1, <1>10 DEF Merge
  <2> HIDE DEF x
  <2>3. QED
    BY <2>1, <2>2, OneMovesQuietly
<1>11. QED
  BY <1>3, <1>4, <1>5, <1>6, <1>7, <1>8, <1>9, <1>10 DEF PrStep

LEMMA GreenStep ==
    ASSUME GatesInv, GreenInv, [Next]_vars
    PROVE  GreenInv'
<1>1. ASSUME UNCHANGED <<pr, incidents, completion>> PROVE GreenInv'
  BY <1>1 DEF GreenInv, CompletionBlocks, Gap
<1>2. ASSUME NEW n \in DOMAIN pushes, MainCi(n) \/ DraftRelease(n) PROVE GreenInv'
  BY <1>1, <1>2 DEF MainCi, DraftRelease
<1>3. ASSUME NEW rel \in releases, Complete(rel) PROVE GreenInv'
  <2>1. PICK i \in PerfInputs, j \in PortInputs, elsewhere \in BOOLEAN :
          LET c == CompletionReport(rel.tag, i, Baseline, j, elsewhere)
              wrote == c # Failed
          IN completion' =
               [runs |-> completion.runs + 1, exit |-> c.exit,
                report |-> IF wrote THEN c.verdict ELSE completion.report,
                tree |-> IF wrote THEN rel.tag ELSE completion.tree,
                slow |-> /\ i.file = "list"
                         /\ \E k \in Metrics : i.value[k] = "over" /\ Baseline[k] = "some",
                broken |-> j.file = "list" /\ \E b \in Archs : j.status[b] = "fail"]
    BY <1>3 DEF Complete
  <2> DEFINE c == CompletionReport(rel.tag, i, Baseline, j, elsewhere)
  <2>2. completion'.runs \in 0..MaxCompletions
    BY <1>3, <2>1 DEF Complete, GreenInv
  <2>3. CompletionBlocks'
    <3> SUFFICES ASSUME completion'.exit = 0
                 PROVE  /\ completion'.report = "PASS"
                        /\ \A r \in Rows : ~Gap(completion'.tree, r)
                        /\ ~completion'.slow /\ ~completion'.broken
      BY DEF CompletionBlocks, Gap
    <3>1. c.exit = 0
      BY <2>1
    <3>2. /\ c # Failed /\ c.verdict = "PASS" /\ \A r \in Rows : ~Gap(rel.tag, r)
          /\ ~(i.file = "list" /\ \E k \in Metrics : i.value[k] = "over" /\ Baseline[k] = "some")
          /\ ~(j.file = "list" /\ \E b \in Archs : j.status[b] = "fail")
      BY <3>1, CompletionIsGood
    <3> DEFINE slow == /\ i.file = "list"
                       /\ \E k \in Metrics : i.value[k] = "over" /\ Baseline[k] = "some"
               broken == j.file = "list" /\ \E b \in Archs : j.status[b] = "fail"
    <3>3. completion' = [runs |-> completion.runs + 1, exit |-> c.exit,
                         report |-> IF c # Failed THEN c.verdict ELSE completion.report,
                         tree |-> IF c # Failed THEN rel.tag ELSE completion.tree,
                         slow |-> slow, broken |-> broken]
      BY <2>1
    <3>4. slow = FALSE /\ broken = FALSE
      BY <3>2
    <3> HIDE DEF c, slow, broken
    <3>5. completion' = [runs |-> completion.runs + 1, exit |-> c.exit, report |-> c.verdict,
                         tree |-> rel.tag, slow |-> FALSE, broken |-> FALSE]
      BY <3>2, <3>3, <3>4
    <3>6. QED
      BY <3>2, <3>5
  <2>4. QED
    BY <1>3, <2>2, <2>3 DEF Complete, GreenInv
<1>4. CASE UNCHANGED vars
  BY <1>1, <1>4 DEF vars
<1>5. QED
  BY <1>2, <1>3, <1>4, GreenPrStep DEF Next

LEMMA GreenInit == Init => GreenInv
<1> SUFFICES ASSUME Init PROVE GreenInv
  OBVIOUS
<1>1. ASSUME NEW p \in Prs PROVE PrGreen(p, pr[p], incidents)
  BY NothingYet, NoPrFields DEF Init
<1>2. QED
  BY <1>1 DEF Init, GreenInv, CompletionBlocks

LEMMA GreenHolds == Spec => [](GatesInv /\ GreenInv)
<1>1. Init => GreenInv
  BY GreenInit
<1>2. GatesInv /\ GreenInv /\ [Next]_vars => GreenInv'
  BY GreenStep
<1>3. QED
  BY <1>1, <1>2, GatesHold, PTL DEF Spec

-----------------------------------------------------------------------------

\* Every variable has its type; an incident is opened for a critical row without a
\* test and for no other; unless a cell keeps the results from being written, for
\* each of them; and the report lists those of its attempt, or the job is red.
THEOREM IncidentsAreTheGaps == Spec => []IncidentsMatchGaps
<1>1. GatesInv /\ GreenInv => IncidentsMatchGaps
  <2> SUFFICES ASSUME GatesInv, GreenInv PROVE IncidentsMatchGaps
    OBVIOUS
  <2>1. TypeOK
    <3>1. ASSUME NEW p \in Prs, NEW r \in Rows
          PROVE  pr[p].status.results[r] \in {"none", "unknown", "blocked"}
      <4>1. pr[p].status \in {Failed, StatusReport(pr[p].tree)} /\ pr[p].tree \in Tree
        BY DEF GatesInv, PrKnows, GreenInv, PrGreen, FiledAs
      <4>2. Failed.results[r] = "none"
        BY DEF Failed
      <4>3. QED
        BY <4>1, <4>2, BlockedIsGap
    <3>2. ASSUME NEW p \in Prs PROVE PrTyped(pr[p]) /\ pr[p].tree \in Tree
      BY DEF GatesInv, PrKnows, GreenInv, PrGreen
    <3>3. main \in Tree /\ completion.runs \in 0..MaxCompletions
          /\ \A i \in incidents : i.pr \in Prs /\ i.attempt \in 1..MaxAttempts /\ i.row \in Rows
      BY DEF GatesInv, GreenInv, Incident
    <3>4. QED
      BY <3>1, <3>2, <3>3 DEF TypeOK, PrTyped
  <2>2. IncidentsAreGaps
    <3>1. ASSUME NEW i \in incidents
          PROVE  pr[i.pr].tree.rtm[i.row].priority = "critical" /\ Gap(pr[i.pr].tree, i.row)
      <4>1. i.pr \in Prs
        BY DEF GreenInv, Incident
      <4>2. FiledAs(i.pr, pr[i.pr], incidents)
        BY <4>1 DEF GreenInv, PrGreen
      <4>3. QED
        BY <4>2 DEF FiledAs
    <3>2. QED
      BY <3>1 DEF IncidentsAreGaps
  <2>3. GapsAreFiled
    <3> SUFFICES ASSUME NEW p \in Prs, pr[p].step = "done", pr[p].filing = "success",
                        pr[p].tree.header,
                        \A r \in Rows : pr[p].tree.rtm[r].test \notin {Blank, Outside},
                        NEW r \in Rows, pr[p].tree.rtm[r].priority = "critical",
                        Gap(pr[p].tree, r)
                 PROVE  IssueOf(p, pr[p].attempt, r) \in incidents
      BY DEF GapsAreFiled, IssueOf
    <3>1. FiledAs(p, pr[p], incidents) /\ pr[p].tree \in Tree
      BY DEF GatesInv, PrKnows, GreenInv, PrGreen
    <3>2. /\ pr[p].links = OpenedBy(p, pr[p].attempt, incidents)
          /\ pr[p].links = {IssueOf(p, pr[p].attempt, s) : s \in BlockedIn(pr[p])}
          /\ pr[p].status = StatusReport(pr[p].tree)
      BY <3>1 DEF FiledAs
    <3>3. ~CoverageRaises(pr[p].tree)
      BY DEF CoverageRaises, Missing
    <3>4. r \in BlockedIn(pr[p])
      BY <3>1, <3>2, <3>3, BlockedIsGap DEF BlockedIn
    <3>5. QED
      BY <3>2, <3>4 DEF OpenedBy
  <2>4. ReportListsIncidents
    BY DEF ReportListsIncidents, GreenInv, PrGreen, FiledAs, OpenedBy
  <2>5. QED
    BY <2>1, <2>2, <2>3, <2>4 DEF IncidentsMatchGaps
<1>2. QED
  BY <1>1, GreenHolds, PTL

\* A green aggregator has a case for every row and a log in which nothing blocks, a
\* red one has a log that names the step, unless the gate of release refs did it;
\* a completion run that ends with 0 has written a report of a checkout without a
\* gap, and was given nothing that should have blocked it.
THEOREM GreenHasEarnedIt == Spec => []GreenIsEarned
<1>1. GatesInv /\ GreenInv => GreenIsEarned
  <2> SUFFICES ASSUME GatesInv, GreenInv PROVE GreenIsEarned
    OBVIOUS
  <2>1. ASSUME NEW p \in Prs, pr[p].dod \in {"success", "failure"}
        PROVE  LET blocks == {s \in DOMAIN pr[p].log : pr[p].log[s] # "No impact"} IN
               /\ pr[p].dod = "success" => /\ blocks = {}
                                           /\ \A r \in Rows : \E c \in pr[p].specs : c[2] = r
               /\ pr[p].dod = "failure" => blocks # {} \/ pr[p].env = "failure"
    <3>1. DodAs(pr[p]) /\ pr[p].dod # "queued"
      BY <2>1 DEF GreenInv, PrGreen
    <3>2. PICK s \in EnvStatuses, release \in BOOLEAN, lint \in {"success", "failure"} :
            LET o == StepOutcomes(pr[p].tree, s, lint)  gate == EnvGate(release, s) IN
            /\ pr[p].dod = DodVerdict(o, gate) /\ pr[p].env = gate
            /\ pr[p].specs = SpecCases(pr[p].tree) /\ pr[p].log = LogOf(o)
      BY <3>1 DEF DodAs
    <3> DEFINE o == StepOutcomes(pr[p].tree, s, lint)
               blocks == {st \in DOMAIN pr[p].log : pr[p].log[st] # "No impact"}
    <3>3. "RTM_VALIDATE" \in DOMAIN o /\ o["RTM_VALIDATE"] = Outcome(ValidateRtm(pr[p].tree))
      BY DEF StepOutcomes
    <3> HIDE DEF o
    <3>4. blocks = {st \in DOMAIN o : o[st] # "success"}
      BY <3>2 DEF LogOf, Impact, o
    <3>5. EnvGate(release, s) \in {"success", "failure"}
      BY DEF EnvGate
    <3>6. ASSUME pr[p].dod = "success"
          PROVE  \A r \in Rows : \E c \in pr[p].specs : c[2] = r
      <4>1. o["RTM_VALIDATE"] = "success"
        BY <3>2, <3>3, <3>6 DEF DodVerdict, o
      <4>2. ValidateRtm(pr[p].tree) = 0
        BY <3>3, <4>1 DEF Outcome
      <4>3. pr[p].tree.header /\ \A r \in Rows : pr[p].tree.rtm[r].model # Blank
        BY <4>2 DEF ValidateRtm, ModelsNamed
      <4>4. pr[p].specs = {<<pr[p].tree.rtm[r].model, r>> : r \in Rows}
        BY <3>2, <4>3 DEF SpecCases
      <4>5. ASSUME NEW r \in Rows PROVE \E c \in pr[p].specs : c[2] = r
        <5>1. <<pr[p].tree.rtm[r].model, r>> \in pr[p].specs
          BY <4>4
        <5>2. <<pr[p].tree.rtm[r].model, r>>[2] = r
          OBVIOUS
        <5>3. QED
          BY <5>1, <5>2
      <4>6. QED
        BY <4>5
    <3>7. QED
      BY <3>2, <3>4, <3>5, <3>6 DEF DodVerdict, o
  <2>2. GreenHasCases /\ LogExplainsVerdict
    BY <2>1 DEF GreenHasCases, LogExplainsVerdict
  <2>3. QED
    BY <2>2 DEF GreenIsEarned, GreenInv
<1>2. QED
  BY <1>1, GreenHolds, PTL
===============================================================================

--------------------------- MODULE TelemetryAlerts ---------------------------
(***************************************************************************)
(* The telemetry scripts over one directory of artifacts.  Tests, quality   *)
(* steps and rule runs leave telemetry; a job analyses one kind into a      *)
(* rolling history, compares the last two lines of the history, and tells   *)
(* the providers of Notify what got worse.  The job for tests is that of    *)
(* telemetry-aggregate.yml, whose last message is sent come what may; the   *)
(* other two are the two scripts in a row.                                  *)
(***************************************************************************)
EXTENDS Notify, Sequences

CONSTANTS
  Limit,     \* TELEMETRY_HISTORY_LIMIT and the like
  Observed,  \* per kind: what its first, second ... run may have counted
  MaxRuns    \* bound: runs that leave telemetry

ASSUME LimitAssumption == Limit \in Nat
ASSUME BoundAssumption == MaxRuns \in Nat

VARIABLES
  runs,     \* per kind: what each run has counted, oldest first
  history,  \* per kind: the lines of its summary history
  job       \* the job under way
vars == <<env, threads, inbox, results, runs, history, job>>

Kinds == {"test", "srs", "qa"}
Signals(k) == CASE k = "test" -> {"slow", "deps"} [] k = "srs" -> {"omitted"}
                [] k = "qa" -> {"step"}
AllSignals == UNION {Signals(k) : k \in Kinds}
ASSUME ObservedAssumption ==
  \A k \in Kinds : \A n \in 1..MaxRuns : Observed[k][n] \subseteq [Signals(k) -> Nat]

\* A line tells of a run; one that a killed writer cut short tells of none.
CutShort == 0
Line == 0..MaxRuns

Job == [kind : Kinds, at : {"idle", "analyze", "render", "alerting", "post", "posting"},
        told : SUBSET AllSignals]
Idle == [kind |-> "test", at |-> "idle", told |-> {}]

Init ==
  /\ env \in Environments
  /\ Quiet
  /\ runs = [k \in Kinds |-> <<>>]
  /\ history = [k \in Kinds |-> <<>>]
  /\ job = Idle

Newest(k) == Len(runs[k])

-----------------------------------------------------------------------------
(* analyze_telemetry.py, analyze_srs_telemetry.py, analyze_qa_telemetry.py *)

\* existing[-limit:], which for a limit of zero is all of it.
LastLines(h) == IF Limit = 0 \/ Len(h) <= Limit THEN h
                ELSE SubSeq(h, Len(h) - Limit + 1, Len(h))
Appended(k) == LastLines(Append(history[k], Newest(k)))

\* A dependency, a step or an omission over its threshold of zero; a slow test
\* is a warning only.
Fails(k) == \E s \in Signals(k) \ {"slow"} : runs[k][Newest(k)][s] > 0

-----------------------------------------------------------------------------
(* render_telemetry_dashboard.py, render_qa_telemetry_dashboard.py *)

Readable(k) == \A i \in DOMAIN history[k] : history[k][i] # CutShort
Count(k, i, s) == runs[k][history[k][i]][s]

\* What the last line has more of than the one before; a quality step is told
\* when it failed in both.
Bug_GotWorse(k) == IF Len(history[k]) <= Limit THEN {} ELSE Signals(k)
GotWorse(k) ==
  IF Len(history[k]) < 2 THEN {}
  ELSE LET n == Len(history[k]) IN
       {s \in Signals(k) : IF k = "qa" THEN Count(k, n, s) > 0 /\ Count(k, n - 1, s) > 0
                           ELSE Count(k, n, s) > Count(k, n - 1, s)}

\* The history of the job's kind must be there and readable; the omissions are
\* told with either of the first two kinds, and left out when unreadable.
RenderRaises(k) == ~Readable(k)
Omissions == IF Readable("srs") THEN GotWorse("srs") ELSE {}
Telling(k) == IF history[k] = <<>> \/ RenderRaises(k) THEN {}
              ELSE CASE k = "test" -> GotWorse("test") \union Omissions
                     [] k = "srs" -> Omissions
                     [] k = "qa" -> GotWorse("qa")

-----------------------------------------------------------------------------
(* The actions. *)

TestRun(k) ==
  /\ job.at = "idle"
  /\ Len(runs["test"]) + Len(runs["srs"]) + Len(runs["qa"]) < MaxRuns
  /\ \E c \in Observed[k][Len(runs[k]) + 1] : runs' = [runs EXCEPT ![k] = Append(@, c)]
  /\ UNCHANGED <<history, job, env, threads, inbox, results>>

\* A job may be run again over telemetry that was analysed before.
Begin(k) ==
  /\ job.at = "idle" /\ runs[k] # <<>>
  /\ job' = [kind |-> k, at |-> "analyze", told |-> {}]
  /\ UNCHANGED <<runs, history, env, threads, inbox, results>>

\* Only the workflow stops at an analysis that fails; its last step runs always.
Analyze ==
  /\ job.at = "analyze"
  /\ history' = [history EXCEPT ![job.kind] = Appended(job.kind)]
  /\ job' = [job EXCEPT !.at =
       IF job.kind = "test" /\ Fails("test") THEN "post" ELSE "render"]
  /\ UNCHANGED <<runs, env, threads, inbox, results>>

\* Killed between open("w") and the end of the write: no line is left, or the
\* first ones, the last of them cut short.
KilledInAnalyze ==
  /\ job.at = "analyze"
  /\ LET h == Appended(job.kind) IN
       \E n \in DOMAIN h : \E cut \in {<<>>, Append(SubSeq(h, 1, n - 1), CutShort)} :
         history' = [history EXCEPT ![job.kind] = cut]
  /\ job' = Idle
  /\ UNCHANGED <<runs, env, threads, inbox, results>>

\* After the dashboard: the workflow's last message, or the end.
AfterRender == IF job.kind = "test" THEN [job EXCEPT !.at = "post"] ELSE Idle

\* An exception of from_env is printed, and nobody is told.
Render ==
  /\ job.at = "render"
  /\ \/ /\ Telling(job.kind) # {} /\ ~DiscoveryRaises
        /\ job' = [job EXCEPT !.at = "alerting", !.told = Telling(job.kind)]
        /\ Dispatch
     \/ /\ Telling(job.kind) = {} \/ DiscoveryRaises
        /\ job' = AfterRender
        /\ UNCHANGED notifyVars
  /\ UNCHANGED <<runs, history>>

\* notify_all returns when every thread has ended.
Alerted ==
  /\ job.at = "alerting" /\ Returned
  /\ job' = AfterRender
  /\ Forget
  /\ UNCHANGED <<runs, history>>

\* Post aggregated summary: here the exception of from_env fails the step.
Post ==
  /\ job.at = "post"
  /\ IF DiscoveryRaises THEN job' = Idle /\ UNCHANGED notifyVars
     ELSE job' = [job EXCEPT !.at = "posting"] /\ Dispatch
  /\ UNCHANGED <<runs, history>>
Posted ==
  /\ job.at = "posting" /\ Returned
  /\ job' = Idle
  /\ Forget
  /\ UNCHANGED <<runs, history>>

Sending == \E p \in Providers : (Try(p) \/ Gather(p)) /\ UNCHANGED <<runs, history, job>>
JobStep == Analyze \/ Render \/ Alerted \/ Post \/ Posted

Next == \/ \E k \in Kinds : TestRun(k) \/ Begin(k)
        \/ JobStep \/ KilledInAnalyze \/ Sending

\* Every request has a timeout, and the scripts wait for nothing else.
Spec == Init /\ [][Next]_vars /\ WF_vars(JobStep) /\ WF_vars(Sending)

-----------------------------------------------------------------------------
(* Properties. *)

\* Every variable has its type, and a history keeps to its limit.
TypeOK ==
  /\ NotifyTypeOK
  /\ DOMAIN runs = Kinds /\ \A k \in Kinds : \A n \in DOMAIN runs[k] : runs[k][n] \in Observed[k][n]
  /\ DOMAIN history = Kinds /\ \A k \in Kinds : \A i \in DOMAIN history[k] : history[k][i] \in Line
  /\ \A k \in Kinds : Limit > 0 => Len(history[k]) <= Limit
  /\ job \in Job

\* What is told is so: of the runs of its kind, a later one has more of it than
\* an earlier one; a step that is told as failing again has failed in a run and
\* in that run or an earlier one (the same run may be analysed twice).
ToldIsTrue ==
  \A s \in job.told : \E k \in Kinds : s \in Signals(k) /\
    \E i, j \in DOMAIN runs[k] :
      IF k = "qa" THEN i <= j /\ runs[k][i][s] > 0 /\ runs[k][j][s] > 0
      ELSE i < j /\ runs[k][j][s] > runs[k][i][s]

\* A job that ends without telling of what got worse from the last run but one
\* to the last has one of these reasons: the workflow stopped at the failing
\* analysis (and so tells of no dependency, ever), a setting no provider can be
\* made from, a line that was cut short and is still in the history, or a
\* history whose last two lines are not those two runs.
EndExplained ==
  job.at \notin {"idle", "analyze"} /\ job'.at = "idle" =>
    LET k == job.kind  n == Len(runs[k])  h == history[k] IN
    \A s \in Signals(k) :
      (n > 1 /\ IF k = "qa" THEN runs[k][n][s] > 0 /\ runs[k][n - 1][s] > 0
                ELSE runs[k][n][s] > runs[k][n - 1][s])
      => \/ s \in job.told
         \/ k = "test" /\ runs[k][n]["deps"] > 0
         \/ "email" \in env.set \intersect env.badNumber
         \/ \E i \in DOMAIN h : h[i] = CutShort
         \/ Len(h) < 2 \/ SubSeq(h, Len(h) - 1, Len(h)) # <<n - 1, n>>
\* No step ends a job otherwise.
UntoldHasCause == [][EndExplained]_vars

\* An alert is sent for what got worse: for nothing else, and for all of it but
\* for the named reasons.
AlertsMatchRuns == []ToldIsTrue /\ UntoldHasCause

\* Every variable has its type, and what the providers answer may be trusted.
AnswersAreTrue == TypeOK /\ SuccessHasArrived /\ DryRunSpares

\* One provider that fails takes no other with it: when notify_all returns, it
\* has the answer of every provider that is configured with a number where one
\* is needed, and one that says no was misconfigured or has had its attempts.
AllAnswered ==
  job.at \in {"alerting", "posting"} /\ job'.at # job.at =>
    \A p \in env.set :
      \/ p = "github" /\ p \in env.badNumber
      \/ /\ p \in DOMAIN results
         /\ ~results[p] => \/ threads[p].attempt = (IF p = "email" THEN 1 ELSE 2)
                           \/ p = "email" /\ env.bothTls
\* No step goes on before that.
NobodyLeftOut == [][AllAnswered]_vars

\* A job that has begun ends, whatever the providers answer.
JobEnds == job.at # "idle" ~> job.at = "idle"
=============================================================================

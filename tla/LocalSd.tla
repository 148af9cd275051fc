------------------------------ MODULE LocalSd ------------------------------
(***************************************************************************)
(* Concurrent invocations of `OrchestrationCli local-sd` on one runner.     *)
(* They share the lock file (.locks/orchestration.lock), the artifacts/     *)
(* tree, the built distribution and builds-isolated/.  The lock is a plain  *)
(* file: TryAcquireLock reads it, decides, and writes it in separate file   *)
(* operations; ReleaseLock deletes whatever file is there.                  *)
(***************************************************************************)
EXTENDS Naturals, Sequences, FiniteSets

CONSTANTS
    Runs,       \* the invocations, each a process of its own
    NoRun,      \* "nobody": the writer of a file that does not exist
    Options,    \* the option records an invocation may be started with
    Keys,       \* run keys
    RunKey,     \* ORCH_RUN_KEY / --run-key of each invocation
    Ttl,        \* lockTtlSec, in clock ticks
    MaxClock    \* bound of the clock in the model

ASSUME RunsAssumption == NoRun \notin Runs
ASSUME OptionsAssumption ==
    Options \subseteq [force : BOOLEAN, keep : BOOLEAN, sim : BOOLEAN, skip : BOOLEAN]
ASSUME KeysAssumption == RunKey \in [Runs -> Keys]
ASSUME TtlAssumption == Ttl \in Nat \ {0} /\ MaxClock \in Nat

VARIABLES
    opts,        \* opts[r]: the options r was started with
    pc,          \* pc[r]: where r is (see Places)
    level,       \* level[r]: 1 in RunLocalSdOnce, 2 inside the nested RunLocalSdSim
    stamp,       \* stamp[r]: TimestampUtc of the metadata r is writing
    step,        \* step[r]: index of the next task of r's graph
    result,      \* result[r]: the CommandResult so far
    clock,       \* the runner's clock
    lock,        \* the lock file
    tree,        \* tree[f]: the run that last wrote file f of artifacts/
    sums,        \* sums[f]: the writer of the content sha256.txt records for f
    dist,        \* the built distribution: its builder and the index it used
    staged,      \* staged[k]: copies of tree and sums under builds-isolated/k
    intrusions,  \* history: how a run was let in beside another one
    faults       \* history: crashes and file errors so far

procVars == <<opts, pc, level, stamp, step, result>>
dataVars == <<tree, sums, dist, staged>>
vars == <<opts, pc, level, stamp, step, result, clock, lock,
          tree, sums, dist, staged, intrusions, faults>>

Files == {"index", "tooling", "harness", "stub"}
Writers == Runs \cup {NoRun}
Places == {"idle", "check", "write", "fill", "graph", "release", "done", "crashed"}
Results == {"none", "success", "fail", "busy", "lock-error"}
Contents == [Files -> Writers]

NoFile == [state |-> "absent", run |-> NoRun, time |-> 0]
Unreadable == [state |-> "unreadable", run |-> NoRun, time |-> 0]
Metadata(r) == [state |-> "written", run |-> r, time |-> stamp[r]]
Nobody == [f \in Files |-> NoRun]

(***************************************************************************)
(* The task graph: stepDefs of RunLocalSdOnce, or the three steps of        *)
(* RunLocalSdSim.  Operators named Bug_* are plausible mistakes; nothing    *)
(* uses them but the mutation runs.                                         *)
(***************************************************************************)
Bug_StageBeforeHash(o) ==
    IF o.sim THEN <<"sim-prepare", "stage-run", "hash-artifacts">>
    ELSE IF o.skip THEN <<"prepare-artifacts", "stage-run", "hash-artifacts">>
    ELSE <<"prereq", "commit-index-sd", "commit-index-tooling", "build-sd",
           "stage-run", "hash-artifacts">>

Bug_BuildBeforeIndex(o) ==
    IF o.sim THEN <<"sim-prepare", "hash-artifacts", "stage-run">>
    ELSE <<"prereq", "build-sd", "commit-index-sd", "commit-index-tooling",
           "hash-artifacts", "stage-run">>

Tasks(o) ==
    IF o.sim THEN <<"sim-prepare", "hash-artifacts", "stage-run">>
    ELSE IF o.skip THEN <<"prepare-artifacts", "hash-artifacts", "stage-run">>
    ELSE <<"prereq", "commit-index-sd", "commit-index-tooling", "build-sd",
           "hash-artifacts", "stage-run">>

Size(o) == Len(Tasks(o))
Task(r) == Tasks(opts[r])[step[r]]

\* The file of artifacts/ a task writes.
OutputOf == [t \in {"sim-prepare", "prepare-artifacts", "commit-index-sd",
                    "commit-index-tooling"} |->
    CASE t = "sim-prepare" -> "stub"
      [] t = "prepare-artifacts" -> "harness"
      [] t = "commit-index-sd" -> "index"
      [] t = "commit-index-tooling" -> "tooling"]

Init ==
    /\ opts \in [Runs -> Options]
    /\ pc = [r \in Runs |-> "idle"]
    /\ level = [r \in Runs |-> 1]
    /\ stamp = [r \in Runs |-> 0]
    /\ step = [r \in Runs |-> 1]
    /\ result = [r \in Runs |-> "none"]
    /\ clock = 0
    /\ lock = NoFile
    /\ tree = Nobody
    /\ sums = Nobody
    /\ dist = [by |-> NoRun, index |-> NoRun]
    /\ staged = [k \in Keys |-> [tree |-> Nobody, sums |-> Nobody]]
    /\ intrusions = {}
    /\ faults = {}

-----------------------------------------------------------------------------
(***************************************************************************)
(* TryAcquireLock                                                           *)
(***************************************************************************)

\* Which runs are past the check that admits them and have not left.
Admitted(r) ==
    \/ pc[r] \in {"write", "fill", "graph", "release"}
    \/ pc[r] = "check" /\ level[r] = 2

Bug_RefusesWhenExpired(r) ==
    /\ lock.state = "written"
    /\ clock - lock.time >= Ttl
    /\ ~opts[r].force

\* A readable lock younger than the TTL refuses an unforced run.
Refuses(r) ==
    /\ lock.state = "written"
    /\ clock - lock.time < Ttl
    /\ ~opts[r].force

\* How r, admitted now, comes to stand beside another admitted run.
IntrusionOf(r) ==
    LET others == {s \in Runs \ {r} : Admitted(s)}
        race == \E s \in others : pc[s] \in {"write", "fill"}
        over == others # {} /\ lock.state = "written"
    IN  (IF race THEN {"race"} ELSE {})
        \cup (IF over /\ clock - lock.time >= Ttl THEN {"expiry"} ELSE {})
        \cup (IF over /\ opts[r].force THEN {"force"} ELSE {})

\* The process starts and enters TryAcquireLock.
Begin(r) ==
    /\ pc[r] = "idle"
    /\ pc' = [pc EXCEPT ![r] = "check"]
    /\ UNCHANGED <<opts, level, stamp, step, result, clock, lock, dataVars,
                   intrusions, faults>>

\* The finally block also runs for the refused run.
Bug_BusyReleases(r) ==
    /\ pc[r] = "check"
    /\ Refuses(r)
    /\ pc' = [pc EXCEPT ![r] = "release"]
    /\ result' = [result EXCEPT ![r] = "busy"]
    /\ UNCHANGED <<opts, level, stamp, step, clock, lock, dataVars,
                   intrusions, faults>>

\* Busy: the command fails; neither try/finally has been entered, so nothing
\* is released, also when the outer level of a simulation owns the file.
CheckBusy(r) ==
    /\ pc[r] = "check"
    /\ Refuses(r)
    /\ pc' = [pc EXCEPT ![r] = "done"]
    /\ result' = [result EXCEPT ![r] = "busy"]
    /\ UNCHANGED <<opts, level, stamp, step, clock, lock, dataVars,
                   intrusions, faults>>

\* No file, an unreadable one (parse errors are swallowed), an expired one, or
\* the force flag: go on to overwrite it.
CheckPasses(r) ==
    /\ pc[r] = "check"
    /\ ~Refuses(r)
    /\ pc' = [pc EXCEPT ![r] = "write"]
    /\ intrusions' = intrusions \cup IntrusionOf(r)
    /\ UNCHANGED <<opts, level, stamp, step, result, clock, lock, dataVars,
                   faults>>

\* WriteAllText, first half: the metadata is stamped, the file opened and cut.
WriteTruncates(r) ==
    /\ pc[r] = "write"
    /\ pc' = [pc EXCEPT ![r] = "fill"]
    /\ stamp' = [stamp EXCEPT ![r] = clock]
    /\ lock' = Unreadable
    /\ UNCHANGED <<opts, level, step, result, clock, dataVars, intrusions, faults>>

\* What the file holds once r's text is written: nothing if it was deleted
\* under the open handle; r's text or a mixture if another writer filled it.
Filled(r) ==
    CASE lock.state = "absent" -> {NoFile}
      [] lock.state = "unreadable" -> {Metadata(r)}
      [] lock.state = "written" -> {Metadata(r), Unreadable}

\* WriteAllText, second half.  A simulation returns from its first acquisition
\* straight into RunLocalSdSim, which acquires again.
WriteFills(r) ==
    /\ pc[r] = "fill"
    /\ lock' \in Filled(r)
    /\ IF opts[r].sim /\ level[r] = 1
         THEN /\ level' = [level EXCEPT ![r] = 2]
              /\ pc' = [pc EXCEPT ![r] = "check"]
         ELSE /\ pc' = [pc EXCEPT ![r] = "graph"]
              /\ UNCHANGED level
    /\ UNCHANGED <<opts, stamp, step, result, clock, dataVars, intrusions, faults>>

\* The outer catch: opening or writing the file failed; it stays as it is.
AcquireFails(r) ==
    /\ pc[r] \in {"write", "fill"}
    /\ pc' = [pc EXCEPT ![r] = "done"]
    /\ result' = [result EXCEPT ![r] = "lock-error"]
    /\ faults' = faults \cup {"acquire"}
    /\ UNCHANGED <<opts, level, stamp, step, clock, lock, dataVars, intrusions>>

-----------------------------------------------------------------------------
(***************************************************************************)
(* The task graph                                                           *)
(***************************************************************************)

\* What task t, run by r, leaves behind.
Effect(r, t) ==
    /\ tree' = IF t \in DOMAIN OutputOf
                 THEN [tree EXCEPT ![OutputOf[t]] = r] ELSE tree
    /\ dist' = IF t = "build-sd" THEN [by |-> r, index |-> tree["index"]] ELSE dist
    /\ sums' = IF t # "hash-artifacts" THEN sums
               ELSE IF opts[r].sim THEN [Nobody EXCEPT !["stub"] = tree["stub"]]
               ELSE tree
    /\ staged' = IF t = "stage-run"
                   THEN [staged EXCEPT ![RunKey[r]] = [tree |-> tree, sums |-> sums]]
                   ELSE staged

Bug_OneTaskMore(r) == step[r] < Size(opts[r]) + 1

MoreTasks(r) == step[r] < Size(opts[r])

\* A task exits with zero: the next one, or the end of the graph.
TaskSucceeds(r) ==
    /\ pc[r] = "graph"
    /\ Effect(r, Task(r))
    /\ IF MoreTasks(r)
         THEN /\ step' = [step EXCEPT ![r] = @ + 1]
              /\ UNCHANGED <<pc, result>>
         ELSE /\ pc' = [pc EXCEPT ![r] = "release"]
              /\ result' = [result EXCEPT ![r] = IF @ = "fail" THEN @ ELSE "success"]
              /\ UNCHANGED step
    /\ UNCHANGED <<opts, level, stamp, clock, lock, intrusions, faults>>

\* A task fails, with or without its effect.  RunLocalSdOnce returns at once;
\* RunLocalSdSim goes on after a failing hash and reports it at the end.
TaskFails(r) ==
    /\ pc[r] = "graph"
    /\ Effect(r, Task(r)) \/ UNCHANGED dataVars
    /\ result' = [result EXCEPT ![r] = "fail"]
    /\ IF opts[r].sim /\ Task(r) = "hash-artifacts"
         THEN /\ step' = [step EXCEPT ![r] = @ + 1]
              /\ UNCHANGED pc
         ELSE /\ pc' = [pc EXCEPT ![r] = "release"]
              /\ UNCHANGED step
    /\ UNCHANGED <<opts, level, stamp, clock, lock, intrusions, faults>>

\* The release sits after the loop instead of in a finally block.
Bug_ReleasesOnSuccessOnly(r) ==
    /\ pc[r] = "release"
    /\ pc' = [pc EXCEPT ![r] = "done"]
    /\ lock' = IF opts[r].keep \/ result[r] # "success" THEN lock ELSE NoFile
    /\ UNCHANGED <<opts, level, stamp, step, result, clock, dataVars,
                   intrusions, faults>>

\* The finally block: ReleaseLock deletes the file, whoever wrote it, unless
\* ORCH_KEEP_LOCK is set.
Release(r) ==
    /\ pc[r] = "release"
    /\ pc' = [pc EXCEPT ![r] = "done"]
    /\ lock' = IF opts[r].keep THEN lock ELSE NoFile
    /\ UNCHANGED <<opts, level, stamp, step, result, clock, dataVars,
                   intrusions, faults>>

\* ReleaseLock swallows a failing delete.
ReleaseFails(r) ==
    /\ pc[r] = "release"
    /\ ~opts[r].keep
    /\ pc' = [pc EXCEPT ![r] = "done"]
    /\ faults' = faults \cup {"release"}
    /\ UNCHANGED <<opts, level, stamp, step, result, clock, lock, dataVars,
                   intrusions>>

\* The process is killed: no finally block runs.
Crash(r) ==
    /\ pc[r] \in {"check", "write", "fill", "graph", "release"}
    /\ pc' = [pc EXCEPT ![r] = "crashed"]
    /\ faults' = faults \cup {"crash"}
    /\ UNCHANGED <<opts, level, stamp, step, result, clock, lock, dataVars,
                   intrusions>>

Tick ==
    /\ clock < MaxClock
    /\ clock' = clock + 1
    /\ UNCHANGED <<procVars, lock, dataVars, intrusions, faults>>

\* One step of the process of r once it has begun.
Process(r) ==
    \/ CheckBusy(r) \/ CheckPasses(r)
    \/ WriteTruncates(r) \/ WriteFills(r) \/ AcquireFails(r)
    \/ TaskSucceeds(r) \/ TaskFails(r)
    \/ Release(r) \/ ReleaseFails(r)

Next ==
    \/ \E r \in Runs : Begin(r) \/ Process(r) \/ Crash(r)
    \/ Tick

Spec == Init /\ [][Next]_vars
-----------------------------------------------------------------------------
(***************************************************************************)
(* Properties                                                               *)
(***************************************************************************)

\* The values every variable ranges over.
TypeOK ==
    /\ opts \in [Runs -> Options]
    /\ pc \in [Runs -> Places]
    /\ level \in [Runs -> 1..2]
    /\ stamp \in [Runs -> Nat]
    /\ step \in [Runs -> 1..6]
    /\ \A r \in Runs : step[r] <= Size(opts[r])
    /\ result \in [Runs -> Results]
    /\ clock \in Nat
    /\ lock \in [state : {"absent", "unreadable", "written"},
                 run : Writers, time : Nat]
    /\ tree \in Contents
    /\ sums \in Contents
    /\ dist \in [by : Writers, index : Writers]
    /\ staged \in [Keys -> [tree : Contents, sums : Contents]]
    /\ intrusions \subseteq {"race", "expiry", "force"}
    /\ faults \subseteq {"acquire", "release", "crash"}

\* The file as an admitted run must find it while it is the only one.
LockMatches(r) ==
    /\ \/ pc[r] \in {"graph", "release"}
       \/ pc[r] \in {"check", "write"} /\ level[r] = 2
       => lock.state = "written" /\ lock.run = r
    /\ pc[r] = "fill" => lock.state = "unreadable"

\* The inductive strengthening of OverlapHasCause: without an intrusion at most
\* one run is past its check, and the lock file is the one that run wrote.
SoleAdmission ==
    /\ \A r \in Runs : pc[r] = "idle" => level[r] = 1
    /\ intrusions = {} =>
        \A r \in Runs :
            /\ LockMatches(r)
            /\ \A s \in Runs : Admitted(r) /\ Admitted(s) => r = s

\* Two task graphs overlap only if, at some admission, the check fell between
\* another run's check and its write, the TTL of a run still going had passed,
\* or --force-lock was given.  Nothing else -- a crash, a kept lock, an
\* unreadable file, a failed write or delete, the delete of a file whose owner
\* is never compared -- lets a second run in.
OverlapHasCause ==
    intrusions = {} =>
        \A r, s \in Runs : pc[r] = "graph" /\ pc[s] = "graph" => r = s

\* The files the graph of r writes.
OwnFiles(r) ==
    {OutputOf[t] : t \in {Tasks(opts[r])[i] : i \in 1..Size(opts[r])}
                         \cap DOMAIN OutputOf}

\* Without an intrusion, what a successful run leaves under builds-isolated/ is
\* its own output, and the hash list staged beside it describes that output.
StagesOwnWork ==
    intrusions = {} =>
        \A r \in Runs : \A f \in OwnFiles(r) :
            /\ result[r] = "success"
            /\ \A s \in Runs \ {r} : RunKey[s] # RunKey[r]
            => /\ staged[RunKey[r]].tree[f] = r
               /\ staged[RunKey[r]].sums[f] = r

\* Without an intrusion, build-sd consumes the commit index its own graph wrote.
BuildsFromOwnIndex ==
    intrusions = {} => dist.index = dist.by

\* No run is under way, and none was killed, met a file error or kept its lock.
AllEndedRegularly ==
    /\ \A r \in Runs : pc[r] \in {"idle", "done"} /\ ~opts[r].keep
    /\ faults = {}

\* However the runs overlapped and whoever deleted whose lock, no lock file is
\* left in the end, unless an unforced simulation locked itself out.
NoStaleLock ==
    AllEndedRegularly /\ (\A r \in Runs : opts[r].sim => opts[r].force)
    => lock = NoFile

\* LVSD-008 (a): unless forced, and setting aside checks that race a write,
\* two runs whose locks are both younger than the TTL never overlap.
FreshLockExcludes ==
    "race" \notin intrusions =>
        \A r, s \in Runs :
            /\ pc[r] = "graph" /\ clock - stamp[r] < Ttl
            /\ pc[s] = "graph" /\ clock - stamp[s] < Ttl
            => r = s
=============================================================================

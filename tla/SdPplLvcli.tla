----------------------------- MODULE SdPplLvcli -----------------------------
(***************************************************************************)
(* Invocations of `OrchestrationCli sd-ppl-lvcli`: build the Source          *)
(* Distribution in a fresh worktree, extract it, build the packed library    *)
(* (PPL) from the extracted tree and copy the outputs back to the clone.     *)
(*                                                                         *)
(* The lock is a file handle opened with FileShare.None, one per clone.  The *)
(* LabVIEW.ini token, the LabVIEW instance and the extract directory belong  *)
(* to the machine.  pc[r] is the phase r is executing: the child process of  *)
(* that phase is running, and the action of the phase is its completion.     *)
(***************************************************************************)
(* Operators named Bug_* are plausible mistakes that only the mutation runs   *)
(* put in place of the definition they precede.                              *)
EXTENDS Naturals, FiniteSets, DevModeOutcomes

CONSTANTS
    Runs,        \* the invocations; r also names the worktree of run r
    Clones,      \* the clones given as --repo
    CloneOf,     \* the clone of each run
    Options,     \* option records
    NoRun,       \* no run
    NoToken,     \* LabVIEW.ini without LocalHost.LibraryPaths
    Extract,     \* the extracted tree under <temp-root>\extract
    Shared       \* the file an absolute --source-dist-zip names

ASSUME NamesAssumption ==
    /\ NoRun \notin Runs
    /\ Runs \cap Clones = {}
    /\ {NoToken, Extract, Shared} \cap (Runs \cup Clones \cup {NoRun}) = {}
    /\ NoToken # Extract
ASSUME CloneAssumption == CloneOf \in [Runs -> Clones]
ASSUME OptionsAssumption ==
    Options \subseteq [copyOnFail : BOOLEAN, forceWorktree : BOOLEAN, sharedZip : BOOLEAN]

VARIABLES
    opts,       \* opts[r]: the options r was started with
    pc,         \* pc[r]: the phase r is in (see Places)
    ok,         \* ok[r]: pipelineOk
    clean,      \* clean[r]: every phase recorded so far is a "success"
    repoBound, extractedBound,    \* the flags of the same names
    thrown,     \* thrown[r]: an exception is on its way out
    orphan,     \* orphan[r]: the tool phase whose child outlives the killed run
    created,    \* created[r]: worktreeCreated
    lock,       \* lock[c]: the run whose handle keeps the clone's lock file open
    token,      \* the checkout LabVIEW.ini's LocalHost.LibraryPaths names
    dir,        \* dir[r]: what is at the worktree path of r
    sdFrom,     \* sdFrom[r]: the token r's Source Distribution was built under
                \* (NoRun: not built)
    zip,        \* zip[z]: the run whose Source Distribution the zip holds
    extract,    \* the run whose Source Distribution is extracted
    plugins,    \* plugins[t]: the run that built the PPL in resource/plugins of t
    pplFrom,    \* pplFrom[r]: the run whose distribution r's PPL was built from
    out,        \* out[c]: the outputs copied back to clone c
    overlap,    \* history: a run took its lock while another clone's run held
                \* one or a killed run's child was still at work
    left        \* history: runs with a bind or unbind that left their token set

\* Groups of variables that steps leave alone together.
steady == <<opts, orphan, overlap>>
outcome == <<ok, clean>>
bound == <<repoBound, extractedBound>>
bindings == <<token, left>>
data == <<dir, sdFrom, zip, extract, plugins, pplFrom, out>>
vars == <<opts, pc, ok, clean, repoBound, extractedBound, thrown, created, orphan,
          lock, token, dir, sdFrom, zip, extract, plugins, pplFrom, out, overlap, left>>

Writers == Runs \cup {NoRun}
Checkouts == Runs \cup Clones \cup {Extract}
Tokens == Checkouts \cup {NoToken}

\* Phases that run g-cli, LabVIEW or LabVIEWCLI.
ToolPhases ==
    {"unbind-current", "bind-repo", "build-sd", "close-sd", "unbind-repo",
     "bind-extracted", "build-ppl", "close-ppl", "unbind-extracted",
     "final-close-extracted", "final-unbind-extracted",
     "final-close-repo", "final-unbind-repo"}
Locked == ToolPhases \cup {"checks", "worktree-check", "worktree-add", "bundle",
                           "extract", "dispose"}
After == {"copy-sd", "copy-artifacts", "copy-ppl", "stash", "remove"}
Places == {"idle", "acquire"} \cup Locked \cup After
          \cup {"success", "fail", "exception", "crashed"}

Zip(r) == IF opts[r].sharedZip THEN Shared ELSE r

Init ==
    /\ opts \in [Runs -> Options]
    /\ pc = [r \in Runs |-> "idle"]
    /\ ok = [r \in Runs |-> TRUE]
    /\ clean = [r \in Runs |-> TRUE]
    /\ repoBound = [r \in Runs |-> FALSE]
    /\ extractedBound = [r \in Runs |-> FALSE]
    /\ thrown = [r \in Runs |-> FALSE]
    /\ created = [r \in Runs |-> FALSE]
    /\ orphan = [r \in Runs |-> "none"]
    /\ lock = [c \in Clones |-> NoRun]
    /\ token \in Clones \cup {NoToken}
    /\ dir \in [Runs -> {"absent", "leftover"}]
    /\ sdFrom = [r \in Runs |-> NoRun]
    /\ zip = [z \in Runs \cup {Shared} |-> NoRun]
    /\ extract = NoRun
    /\ plugins = [t \in Runs \cup {Extract} |-> NoRun]
    /\ pplFrom = [r \in Runs |-> NoRun]
    /\ out = [c \in Clones |-> [sd |-> NoRun, zip |-> NoRun, ppl |-> NoRun]]
    /\ overlap = FALSE
    /\ left = {}

Goto(r, place) == pc' = [pc EXCEPT ![r] = place]

\* Record: add the phase result; a phase that affects the outcome stops the rest.
Record(r, status, affectsOutcome) ==
    /\ clean' = [clean EXCEPT ![r] = @ /\ status = "success"]
    /\ ok' = [ok EXCEPT ![r] = @ /\ (affectsOutcome => status = "success")]

-----------------------------------------------------------------------------
(***************************************************************************)
(* RunBindUnbind: the dev-mode scripts, run as children                     *)
(***************************************************************************)

\* The exit code of Set_Development_Mode is trusted, the token not read back.
Bug_TrustsSetScript(target) == [status : {"success", "fail"}, token : {token, NoToken, target}]

\* BindDevelopmentMode.ps1 -Force.
BindResults(target) == BindOutcomes(target, NoToken, token)

\* A revert that blanks the entry instead of removing it.
Bug_RevertBlanksEntry(target) ==
    [status : {"success", "fail"}, token : {token, IF token = target THEN NoRun ELSE token}]

\* RevertDevelopmentMode.ps1.
UnbindResults(target) == UnbindOutcomes(target, NoToken, token)

\* The history of scripts that left r's own checkout in LabVIEW.ini.
NoteLeft(r, target, after) ==
    left' = IF target \in {r, Extract} /\ after = target THEN left \cup {r} ELSE left

Unbind(r, target, affectsOutcome) ==
    \E res \in UnbindResults(target) :
        /\ Record(r, res.status, affectsOutcome)
        /\ token' = res.token
        /\ NoteLeft(r, target, res.token)

\* RunLabviewCliClose: a missing LabVIEW is "skip"; the pipeline goes on, but the
\* result is recorded like any other.
Close(r) == \E status \in {"success", "skip", "fail"} : Record(r, status, FALSE)

-----------------------------------------------------------------------------
(***************************************************************************)
(* Preflight and the lock                                                   *)
(***************************************************************************)

\* --expect-sha, the repository checks, or an unresolvable port: fail at once.
Begin(r) ==
    /\ pc[r] = "idle"
    /\ Goto(r, "acquire") \/ Goto(r, "fail")
    /\ UNCHANGED <<steady, outcome, bound, bindings, thrown, created, lock, data>>

OthersAtWork(r) ==
    \/ \E c \in Clones \ {CloneOf[r]} : lock[c] # NoRun
    \/ \E s \in Runs : orphan[s] # "none"

\* The lock file is opened with FileShare.ReadWrite.
Bug_SharedLockFile(r) ==
    /\ pc[r] = "acquire"
    /\ Goto(r, "checks")
    /\ lock' = [lock EXCEPT ![CloneOf[r]] = r]
    /\ overlap' = (overlap \/ OthersAtWork(r))
    /\ UNCHANGED <<outcome, bound, bindings, opts, orphan, thrown, created, data>>

\* TryHandleStaleLock cannot delete a file another process holds open; opening
\* it FileShare.None succeeds iff nobody does.
Acquire(r) ==
    /\ pc[r] = "acquire"
    /\ lock[CloneOf[r]] = NoRun
    /\ Goto(r, "checks")
    /\ lock' = [lock EXCEPT ![CloneOf[r]] = r]
    /\ overlap' = (overlap \/ OthersAtWork(r))
    /\ UNCHANGED <<outcome, bound, bindings, opts, orphan, thrown, created, data>>

\* The open fails: held by another run, or for a reason of its own.
AcquireFails(r) ==
    /\ pc[r] = "acquire"
    /\ Goto(r, "fail")
    /\ UNCHANGED <<steady, outcome, bound, bindings, thrown, created, lock, data>>

\* Writable roots, LabVIEW.exe, port, LabVIEWCLI, g-cli.  A failed check returns
\* from inside the try block: only the finally block runs.
ChecksPass(r) ==
    /\ pc[r] = "checks"
    /\ Goto(r, "unbind-current")
    /\ UNCHANGED <<steady, outcome, bound, bindings, thrown, created, lock, data>>

\* The checks sit before the try block whose finally disposes of the handle.
Bug_ReturnKeepsLock(r) ==
    /\ pc[r] = "checks"
    /\ Goto(r, "fail")
    /\ UNCHANGED <<steady, outcome, bound, bindings, thrown, created, lock, data>>

ChecksFail(r) ==
    /\ pc[r] = "checks"
    /\ Goto(r, "fail")
    /\ lock' = [lock EXCEPT ![CloneOf[r]] = NoRun]
    /\ UNCHANGED <<steady, outcome, bound, bindings, thrown, created, data>>

-----------------------------------------------------------------------------
(***************************************************************************)
(* The phases.  A phase that fails sends the run past every phase guarded   *)
(* by pipelineOk, to the unbind its bound flag still demands or to the end. *)
(***************************************************************************)

UnbindCurrent(r) ==
    /\ pc[r] = "unbind-current"
    /\ Unbind(r, CloneOf[r], TRUE)
    /\ Goto(r, IF ok'[r] THEN "worktree-check" ELSE "dispose")
    /\ UNCHANGED <<steady, bound, thrown, created, lock, data>>

\* A path that exists is refused, or deleted (best effort) under --force-worktree.
\* Either way `git worktree add` is run next.
WorktreeCheck(r) ==
    /\ pc[r] = "worktree-check"
    /\ Goto(r, "worktree-add")
    /\ IF dir[r] = "leftover" /\ ~opts[r].forceWorktree
         THEN Record(r, "fail", TRUE) /\ UNCHANGED dir
         ELSE /\ dir' \in {dir, [dir EXCEPT ![r] = "absent"]}
              /\ UNCHANGED outcome
    /\ UNCHANGED <<steady, bound, bindings, thrown, created, lock, sdFrom, zip,
                   extract, plugins, pplFrom, out>>

WorktreeAdd(r) ==
    /\ pc[r] = "worktree-add"
    /\ \/ /\ dir[r] = "absent"
          /\ dir' = [dir EXCEPT ![r] = "worktree"]
          /\ created' = [created EXCEPT ![r] = TRUE]
          \* the LabVIEW path or port of the worktree's VIPB may not resolve
          /\ \E status \in {"success", "fail"} : Record(r, status, TRUE)
       \/ Record(r, "fail", TRUE) /\ UNCHANGED <<dir, created>>
    /\ Goto(r, IF ok'[r] THEN "bind-repo" ELSE "dispose")
    /\ UNCHANGED <<steady, bound, bindings, thrown, lock, sdFrom, zip, extract,
                   plugins, pplFrom, out>>

BindRepo(r) ==
    /\ pc[r] = "bind-repo"
    /\ \E res \in BindResults(r) :
        /\ Record(r, res.status, TRUE)
        /\ token' = res.token
        /\ repoBound' = [repoBound EXCEPT ![r] = res.status = "success"]
        /\ left' = IF res.status = "fail" /\ res.token = r THEN left \cup {r} ELSE left
    /\ Goto(r, IF ok'[r] THEN "build-sd" ELSE "dispose")
    /\ UNCHANGED <<steady, extractedBound, thrown, created, lock, data>>

\* A failed build returns at once.
Bug_BuildFailureDisposes(r) ==
    /\ pc[r] = "build-sd"
    /\ \E status \in {"success", "fail"} :
        /\ Record(r, status, TRUE)
        /\ sdFrom' = [sdFrom EXCEPT ![r] = token]
    /\ Goto(r, IF ok'[r] THEN "close-sd" ELSE "dispose")
    /\ UNCHANGED <<steady, bound, bindings, thrown, created, lock, dir, zip,
                   extract, plugins, pplFrom, out>>

\* RunLabviewCliBuild with its retries; a failed attempt may leave a partial
\* distribution, which nothing later in a failed run reads but the copy-back.
BuildSd(r) ==
    /\ pc[r] = "build-sd"
    /\ \E status \in {"success", "fail"} :
        /\ Record(r, status, TRUE)
        /\ sdFrom' \in IF status = "success" THEN {[sdFrom EXCEPT ![r] = token]}
                       ELSE {sdFrom, [sdFrom EXCEPT ![r] = token]}
    /\ Goto(r, IF ok'[r] THEN "close-sd" ELSE "unbind-repo")
    /\ UNCHANGED <<steady, bound, bindings, thrown, created, lock, dir, zip,
                   extract, plugins, pplFrom, out>>

CloseAfterSd(r) ==
    /\ pc[r] = "close-sd"
    /\ Close(r)
    /\ Goto(r, "unbind-repo")
    /\ UNCHANGED <<steady, bound, bindings, thrown, created, lock, data>>

UnbindRepo(r) ==
    /\ pc[r] = "unbind-repo"
    /\ Unbind(r, r, ok[r])
    /\ repoBound' = [repoBound EXCEPT ![r] = FALSE]
    /\ Goto(r, IF ok'[r] THEN "bundle" ELSE "dispose")
    /\ UNCHANGED <<steady, extractedBound, thrown, created, lock, data>>

\* requirements-summary, the bundling (whose errors are only logged) and
\* zip-source-dist, which runs whatever the summary did, keeps a zip that is
\* already there and leaves what it wrote when it fails.
Bundle(r) ==
    /\ pc[r] = "bundle"
    /\ \E summary \in {"success", "fail", "skip"}, zipped \in {"success", "fail"} :
        /\ zip[Zip(r)] # NoRun => zipped = "success"
        /\ clean' = [clean EXCEPT ![r] = @ /\ summary = "success" /\ zipped = "success"]
        /\ ok' = [ok EXCEPT ![r] = summary = "success" /\ zipped = "success"]
        /\ zip' \in CASE zip[Zip(r)] # NoRun -> {zip}
                      [] zip[Zip(r)] = NoRun /\ zipped = "success" ->
                             {[zip EXCEPT ![Zip(r)] = r]}
                      [] OTHER -> {zip, [zip EXCEPT ![Zip(r)] = r]}
    /\ Goto(r, IF ok'[r] THEN "extract" ELSE "dispose")
    /\ UNCHANGED <<steady, bound, bindings, thrown, created, lock, dir, sdFrom,
                   extract, plugins, pplFrom, out>>

\* An extract directory that is there already is used as it is.
Bug_ExtractKeepsOld(r) ==
    /\ pc[r] = "extract"
    /\ \/ /\ Record(r, "success", TRUE)
          /\ extract' = IF extract = NoRun THEN zip[Zip(r)] ELSE extract
          /\ plugins' = [plugins EXCEPT ![Extract] = NoRun]
       \/ /\ Record(r, "fail", TRUE)
          /\ UNCHANGED <<extract, plugins>>
    /\ Goto(r, IF ok'[r] THEN "bind-extracted" ELSE "dispose")
    /\ UNCHANGED <<steady, bound, bindings, thrown, created, lock, dir, sdFrom,
                   zip, pplFrom, out>>

\* The extract directory is emptied (as far as that works), filled from the zip
\* and flattened.
ExtractZip(r) ==
    /\ pc[r] = "extract"
    /\ \/ /\ Record(r, "success", TRUE)
          /\ extract' = zip[Zip(r)]
          /\ plugins' \in {plugins, [plugins EXCEPT ![Extract] = NoRun]}
       \/ /\ Record(r, "fail", TRUE)
          /\ extract' \in {extract, NoRun, zip[Zip(r)]}
          /\ plugins' \in {plugins, [plugins EXCEPT ![Extract] = NoRun]}
    /\ Goto(r, IF ok'[r] THEN "bind-extracted" ELSE "dispose")
    /\ UNCHANGED <<steady, bound, bindings, thrown, created, lock, dir, sdFrom,
                   zip, pplFrom, out>>

BindExtracted(r) ==
    /\ pc[r] = "bind-extracted"
    /\ \E res \in BindResults(Extract) :
        /\ Record(r, res.status, TRUE)
        /\ token' = res.token
        /\ extractedBound' = [extractedBound EXCEPT ![r] = res.status = "success"]
        /\ left' = IF res.status = "fail" /\ res.token = Extract
                     THEN left \cup {r} ELSE left
    /\ Goto(r, IF ok'[r] THEN "build-ppl" ELSE "dispose")
    /\ UNCHANGED <<steady, repoBound, thrown, created, lock, data>>

\* The project is the extracted one, so its build spec writes the PPL to
\* resource/plugins of the extracted tree.
BuildPpl(r) ==
    /\ pc[r] = "build-ppl"
    /\ \/ /\ Record(r, "success", TRUE)
          /\ plugins' = [plugins EXCEPT ![Extract] = r]
          /\ pplFrom' = [pplFrom EXCEPT ![r] = extract]
       \/ /\ Record(r, "fail", TRUE)
          /\ UNCHANGED <<plugins, pplFrom>>
    /\ Goto(r, "close-ppl")
    /\ UNCHANGED <<steady, bound, bindings, thrown, created, lock, dir, sdFrom,
                   zip, extract, out>>

CloseAfterPpl(r) ==
    /\ pc[r] = "close-ppl"
    /\ Close(r)
    /\ Goto(r, "unbind-extracted")
    /\ UNCHANGED <<steady, bound, bindings, thrown, created, lock, data>>

UnbindExtracted(r) ==
    /\ pc[r] = "unbind-extracted"
    /\ Unbind(r, Extract, ok[r])
    /\ extractedBound' = [extractedBound EXCEPT ![r] = FALSE]
    /\ Goto(r, "dispose")
    /\ UNCHANGED <<steady, repoBound, thrown, created, lock, data>>

-----------------------------------------------------------------------------
(***************************************************************************)
(* The finally block                                                        *)
(***************************************************************************)

\* What the finally block still has to close for a run with these flags.
Finally(rb, eb) ==
    CASE eb -> "final-close-extracted"
      [] ~eb /\ rb -> "final-close-repo"
      [] OTHER -> "dispose"

\* The finally block only disposes of the handle.
Bug_ThrowSkipsUnbind(r) ==
    /\ pc[r] \in Locked \ {"checks", "dispose"}
    /\ thrown' = [thrown EXCEPT ![r] = TRUE]
    /\ Goto(r, "dispose")
    /\ UNCHANGED <<steady, outcome, bound, bindings, created, lock, data>>

\* An exception no phase catches (logging to a redirected, full stdout).
Throw(r) ==
    /\ pc[r] \in Locked \ {"checks", "dispose"}
    /\ ~thrown[r]
    /\ thrown' = [thrown EXCEPT ![r] = TRUE]
    /\ Goto(r, Finally(repoBound[r], extractedBound[r]))
    /\ UNCHANGED <<steady, outcome, bound, bindings, created, lock, data>>

FinalClose(r) ==
    /\ \/ pc[r] = "final-close-extracted" /\ Goto(r, "final-unbind-extracted")
       \/ pc[r] = "final-close-repo" /\ Goto(r, "final-unbind-repo")
    /\ Close(r)
    /\ UNCHANGED <<steady, bound, bindings, thrown, created, lock, data>>

FinalUnbindExtracted(r) ==
    /\ pc[r] = "final-unbind-extracted"
    /\ Unbind(r, Extract, FALSE)
    /\ extractedBound' = [extractedBound EXCEPT ![r] = FALSE]
    /\ Goto(r, Finally(repoBound[r], FALSE))
    /\ UNCHANGED <<steady, repoBound, thrown, created, lock, data>>

FinalUnbindRepo(r) ==
    /\ pc[r] = "final-unbind-repo"
    /\ Unbind(r, r, FALSE)
    /\ repoBound' = [repoBound EXCEPT ![r] = FALSE]
    /\ Goto(r, "dispose")
    /\ UNCHANGED <<steady, extractedBound, thrown, created, lock, data>>

\* pipelineOk decides, which a failed close does not clear.
Bug_CopiesWhenPipelineOk(r) == created[r] /\ (ok[r] \/ opts[r].copyOnFail)

CopiesBack(r) == created[r] /\ (clean[r] \/ opts[r].copyOnFail)

\* lockStream.Dispose().  A thrown run leaves here, its worktree still in place;
\* any other goes on, without the lock.
Dispose(r) ==
    /\ pc[r] = "dispose"
    /\ lock' = [lock EXCEPT ![CloneOf[r]] = NoRun]
    /\ Goto(r, IF thrown[r] THEN "exception"
               ELSE IF CopiesBack(r) THEN "copy-sd" ELSE "stash")
    /\ UNCHANGED <<steady, outcome, bound, bindings, thrown, created, data>>

-----------------------------------------------------------------------------
(***************************************************************************)
(* Copy-back, log-stash and removal, after the lock is gone                 *)
(***************************************************************************)

\* One of the three copies; an error in any of them ends the copying.
Copy(r, from, to, part, writer) ==
    /\ pc[r] = from
    /\ \/ /\ out' = IF writer = NoRun THEN out
                    ELSE [out EXCEPT ![CloneOf[r]][part] = writer]
          /\ Goto(r, to)
       \/ UNCHANGED out /\ Goto(r, "stash")
    /\ UNCHANGED <<steady, outcome, bound, bindings, thrown, created, lock, dir,
                   sdFrom, zip, extract, plugins, pplFrom>>

CopySd(r) == Copy(r, "copy-sd", "copy-artifacts", "sd",
                  IF sdFrom[r] = NoRun THEN NoRun ELSE r)
CopyArtifacts(r) == Copy(r, "copy-artifacts", "copy-ppl", "zip", zip[r])
CopyPpl(r) == Copy(r, "copy-ppl", "stash", "ppl", plugins[r])

\* Write-LogStashEntry.ps1: its failures are only logged.
Stash(r) ==
    /\ pc[r] = "stash"
    /\ Goto(r, "remove")
    /\ UNCHANGED <<steady, outcome, bound, bindings, thrown, created, lock, data>>

\* git worktree remove --force, then a recursive delete; errors are logged.
Remove(r) ==
    /\ pc[r] = "remove"
    /\ dir' \in {dir, [dir EXCEPT ![r] = IF created[r] THEN "absent" ELSE @]}
    /\ Goto(r, IF clean[r] THEN "success" ELSE "fail")
    /\ UNCHANGED <<steady, outcome, bound, bindings, thrown, created, lock,
                   sdFrom, zip, extract, plugins, pplFrom, out>>

\* The process is killed, or its finally block throws: the system closes its lock
\* handle, nothing else.  A tool it was waiting for may run on.
Crash(r) ==
    /\ pc[r] \in {"acquire"} \cup Locked \cup After
    /\ Goto(r, "crashed")
    /\ lock' = [c \in Clones |-> IF lock[c] = r THEN NoRun ELSE lock[c]]
    /\ \E o \in {"none"} \cup ({pc[r]} \cap ToolPhases) :
           orphan' = [orphan EXCEPT ![r] = o]
    /\ UNCHANGED <<outcome, bound, bindings, opts, thrown, created, overlap, data>>

\* What the tool a killed run was waiting for may make of LabVIEW.ini.
OrphanTokens(r) ==
    CASE orphan[r] = "bind-repo" -> {res.token : res \in BindResults(r)}
      [] orphan[r] = "bind-extracted" -> {res.token : res \in BindResults(Extract)}
      [] orphan[r] = "unbind-current" -> {res.token : res \in UnbindResults(CloneOf[r])}
      [] orphan[r] \in {"unbind-repo", "final-unbind-repo"} ->
             {res.token : res \in UnbindResults(r)}
      [] orphan[r] \in {"unbind-extracted", "final-unbind-extracted"} ->
             {res.token : res \in UnbindResults(Extract)}
      [] OTHER -> {token}

\* That tool ends: a bind or unbind has set the token, a build its output.
OrphanEnds(r) ==
    /\ orphan[r] # "none"
    /\ orphan' = [orphan EXCEPT ![r] = "none"]
    /\ token' \in OrphanTokens(r)
    /\ sdFrom' \in IF orphan[r] = "build-sd" THEN {sdFrom, [sdFrom EXCEPT ![r] = token]}
                   ELSE {sdFrom}
    /\ \/ UNCHANGED <<plugins, pplFrom>>
       \/ /\ orphan[r] = "build-ppl"
          /\ plugins' = [plugins EXCEPT ![Extract] = r]
          /\ pplFrom' = [pplFrom EXCEPT ![r] = extract]
    /\ UNCHANGED <<outcome, bound, opts, pc, thrown, created, lock, dir, zip,
                   extract, out, overlap, left>>

Pipeline(r) ==
    \/ UnbindCurrent(r) \/ WorktreeCheck(r) \/ WorktreeAdd(r) \/ BindRepo(r)
    \/ BuildSd(r) \/ CloseAfterSd(r) \/ UnbindRepo(r) \/ Bundle(r)
    \/ ExtractZip(r) \/ BindExtracted(r) \/ BuildPpl(r) \/ CloseAfterPpl(r)
    \/ UnbindExtracted(r)
FinallyBlock(r) ==
    FinalClose(r) \/ FinalUnbindExtracted(r) \/ FinalUnbindRepo(r) \/ Dispose(r)
Epilogue(r) ==
    CopySd(r) \/ CopyArtifacts(r) \/ CopyPpl(r) \/ Stash(r) \/ Remove(r)
Process(r) ==
    \/ Acquire(r) \/ AcquireFails(r) \/ ChecksPass(r) \/ ChecksFail(r)
    \/ Pipeline(r) \/ FinallyBlock(r) \/ Epilogue(r)

Next == \E r \in Runs :
    Begin(r) \/ Process(r) \/ Throw(r) \/ Crash(r) \/ OrphanEnds(r)

Spec == Init /\ [][Next]_vars

\* Every child process ends or is killed at its timeout, so a run goes on.
FairSpec == Spec /\ \A r \in Runs : WF_vars(Process(r))
-----------------------------------------------------------------------------
(***************************************************************************)
(* Properties                                                               *)
(***************************************************************************)

\* The values every variable ranges over.
TypeOK ==
    /\ opts \in [Runs -> Options]
    /\ pc \in [Runs -> Places]
    /\ ok \in [Runs -> BOOLEAN]
    /\ clean \in [Runs -> BOOLEAN]
    /\ repoBound \in [Runs -> BOOLEAN] /\ extractedBound \in [Runs -> BOOLEAN]
    /\ thrown \in [Runs -> BOOLEAN] /\ created \in [Runs -> BOOLEAN]
    /\ lock \in [Clones -> Writers]
    /\ token \in Tokens
    /\ dir \in [Runs -> {"absent", "leftover", "worktree"}]
    /\ orphan \in [Runs -> ToolPhases \cup {"none"}]
    /\ sdFrom \in [Runs -> Tokens \cup {NoRun}]
    /\ zip \in [Runs \cup {Shared} -> Writers]
    /\ extract \in Writers
    /\ plugins \in [Runs \cup {Extract} -> Writers]
    /\ pplFrom \in [Runs -> Writers]
    /\ out \in [Clones -> [sd : Writers, zip : Writers, ppl : Writers]]
    /\ overlap \in BOOLEAN
    /\ left \subseteq Runs

\* A run is inside the locked section exactly while its clone's lock is its own,
\* so two runs of one clone never are, whatever is thrown or killed.
LockExcludes ==
    \A r \in Runs : pc[r] \in Locked <=> lock[CloneOf[r]] = r

\* ORCH-003: unless two clones' runs overlapped, LabVIEW.ini names the run's own
\* worktree while it builds the distribution and the extracted tree while it
\* builds the PPL, whatever tokens earlier runs and failed scripts left.
TokenIsOwn ==
    ~overlap =>
        \A r \in Runs :
            /\ pc[r] \in {"build-sd", "close-sd"} => token = r
            /\ pc[r] \in {"build-ppl", "close-ppl"} => token = Extract

\* Unless two clones' runs overlapped, every PPL is built from the distribution
\* of its own run -- if the zip is the worktree's own -- and that distribution
\* from the run's worktree.
BuildsOwnInputs ==
    ~overlap =>
        \A r \in Runs :
            /\ sdFrom[r] \in {NoRun, r}
            /\ ~opts[r].sharedZip => pplFrom[r] \in {NoRun, r}

\* ORCH-007: outputs in a clone come from runs all of whose recorded phases, the
\* closes that do not affect the pipeline included, succeeded, or that asked for
\* the copy on failure.
CopiesOnlyGood ==
    \A r \in Runs :
        out[CloneOf[r]].sd = r \/ out[CloneOf[r]].zip = r
        => clean[r] \/ opts[r].copyOnFail

\* LabVIEW.ini names the worktree of a run that has left the locked section only
\* if one of its own bind or unbind scripts ended with that token in place.
TokenLeftHasCause ==
    \A r \in Runs :
        pc[r] \in After \cup {"success", "fail", "exception"} /\ token = r
        => r \in left

\* Every run that takes the lock of its clone gives it back.
LockReleased ==
    \A r \in Runs : lock[CloneOf[r]] = r ~> lock[CloneOf[r]] # r

\* The run implements a session: enter alone, leave with nothing bound, publish
\* only then.
Session == INSTANCE SdPplSession WITH
    stage <- [r \in Runs |->
        CASE pc[r] \in {"idle", "acquire"} -> "out"
          [] pc[r] \in Locked -> "in"
          [] pc[r] \in After -> "after"
          [] OTHER -> "end"],
    held <- [r \in Runs |-> (IF repoBound[r] THEN {r} ELSE {})
                             \cup (IF extractedBound[r] THEN {Extract} ELSE {})],
    clean <- clean,
    mayPublish <- {r \in Runs : opts[r].copyOnFail},
    published <- [c \in Clones |-> {out[c].sd, out[c].zip} \ {NoRun}],
    killed <- {r \in Runs : pc[r] = "crashed"}
ImplementsSession == Session!Spec

=============================================================================

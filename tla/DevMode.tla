------------------------------- MODULE DevMode -------------------------------
(***************************************************************************)
(* Development-mode binding: BindDevelopmentMode.ps1 and the scripts it      *)
(* calls (Set_Development_Mode, AddTokenToLabVIEW, RevertDevelopmentMode),    *)
(* and DevModeAgentCli, which decides from the summary of an earlier call    *)
(* whether to run it.  Terminals start calls one after the other and at the  *)
(* same time; they share one LabVIEW.ini per bitness, which every helper     *)
(* reads whole, edits and writes back, and the checkouts.  What they share   *)
(* and what they promise is in DevModePromises.                              *)
(***************************************************************************)
(* Operators named Bug_* are plausible mistakes that only the mutation runs   *)
(* put in place of the definition they precede.                              *)
EXTENDS DevModePromises

progress == <<call, where, at, loaded, snap, results, ended>>
checkoutState == <<packed, prepared, summary>>
history == <<started, before, solo>>
vars == <<call, where, at, loaded, snap, results, ended, ini, packed, prepared,
          summary, started, before, solo>>

NoResult == [status |-> "none", current |-> NoPath]
Lowest(as) == CHOOSE a \in as : \A b \in as : a <= b

Init ==
    /\ call = [t \in Terminals |-> CHOOSE c \in Calls : TRUE]
    /\ where = [t \in Terminals |-> "idle"]
    /\ at = [t \in Terminals |-> 0]
    /\ loaded = [t \in Terminals |-> FALSE]
    /\ snap = [t \in Terminals |-> <<>>]
    /\ results = [t \in Terminals |-> [a \in Archs |-> NoResult]]
    /\ ended = [t \in Terminals |-> "none"]
    /\ ini \in Contents
    /\ packed \in SUBSET Repositories
    /\ prepared = {}
    /\ summary = [c \in Repositories |-> NoSummary]
    /\ started = 0
    /\ before = [t \in Terminals |-> ini]
    /\ solo = [t \in Terminals |-> FALSE]

Goto(t, place) == where' = [where EXCEPT ![t] = place]

\* expectedMatch: the target is among the entries of the bitness at hand.
Known(t) == Target(t) \in Entries(ini[at[t]])

\* The result object of the bitness at hand is complete: the next bitness.
ConcludeWith(t, status, current) ==
    LET rest == {a \in call[t].archs : a > at[t]}
    IN  /\ results' = [results EXCEPT ![t][at[t]] = [status |-> status, current |-> current]]
        /\ IF rest = {} THEN Goto(t, "report") /\ UNCHANGED at
           ELSE Goto(t, "state") /\ at' = [at EXCEPT ![t] = Lowest(rest)]
Conclude(t, status) == ConcludeWith(t, status, results[t][at[t]].current)

End(t, how) ==
    /\ Goto(t, "ended")
    /\ ended' = [ended EXCEPT ![t] = how]

-----------------------------------------------------------------------------
(***************************************************************************)
(* Starting a call; the agent's plan                                        *)
(***************************************************************************)

\* RevertDevelopmentMode.ps1 may also be called by itself.
Begin(t) ==
    /\ where[t] \in {"idle", "ended"}
    /\ started < MaxCalls
    /\ \E c \in Calls :
        /\ call' = [call EXCEPT ![t] = c]
        /\ at' = [at EXCEPT ![t] = Lowest(c.archs)]
        /\ Goto(t, IF c.by = "agent" THEN "plan"
                   ELSE IF c.mode = "revert" THEN "revert" ELSE "start")
    /\ started' = started + 1
    /\ before' = [before EXCEPT ![t] = ini]
    /\ solo' = [s \in Terminals |->
                  s = t /\ \A u \in Terminals \ {t} : where[u] \notin Running]
    /\ results' = [results EXCEPT ![t] = [a \in Archs |-> NoResult]]
    /\ ended' = [ended EXCEPT ![t] = "none"]
    /\ UNCHANGED <<loaded, snap, ini, checkoutState>>

\* BuildPlans: decided from current_path of the last summary, the path a call
\* found before it acted.
PlanBlocked(t) ==
    /\ ~call[t].force
    /\ \E a \in call[t].archs : summary[Target(t)][a] \notin {NoPath, Target(t)}
PlanSkips(t) ==
    \A a \in call[t].archs :
        summary[Target(t)][a] = IF call[t].mode = "bind" THEN Target(t) ELSE NoPath

\* A missing or unreadable summary, or a missing binder script, is an error.
Plan(t) ==
    /\ where[t] = "plan"
    /\ \/ End(t, "fail")
       \/ /\ summary[Target(t)] # NoSummary
          /\ CASE PlanBlocked(t) -> End(t, "blocked")
               [] ~PlanBlocked(t) /\ PlanSkips(t) -> End(t, "skip")
               [] OTHER -> Goto(t, "start") /\ UNCHANGED ended
    /\ UNCHANGED <<call, at, loaded, snap, results, ini, checkoutState, history>>

\* A missing script, g-cli or version is reported for every bitness.
Start(t) ==
    /\ where[t] = "start"
    /\ \/ Goto(t, "state") /\ UNCHANGED results
       \/ /\ Goto(t, "report")
          /\ results' = [results EXCEPT ![t] = [a \in Archs |->
                 IF a \in call[t].archs THEN [status |-> "fail", current |-> NoPath]
                                        ELSE NoResult]]
    /\ UNCHANGED <<call, at, loaded, snap, ended, ini, checkoutState, history>>

-----------------------------------------------------------------------------
(***************************************************************************)
(* The decision per bitness, on the state read from the file                 *)
(***************************************************************************)

Elsewhere(t) == First(ini[at[t]]) \notin {NoPath, Target(t)}

\* A token of another worktree of this repository is replaced in any case.
StaleWorktree(t) ==
    /\ Target(t) \in Worktrees /\ First(ini[at[t]]) \in Worktrees
    /\ First(ini[at[t]]) # Target(t)

\* forceApplied; autoFix is AutoFixOtherRepo, on unless it is switched off.
ForceApplied(t) ==
    call[t].force \/ (Elsewhere(t) /\ call[t].autoFix) \/ StaleWorktree(t)

\* Any entry counts as the expected one.
Bug_BoundByAnyEntry(t) == ini[at[t]] # <<>> /\ Target(t) \notin packed

AlreadyBound(t) == Known(t) /\ Target(t) \notin packed

\* What the bitness comes to without another step, or the step that is next.
Decision(t) ==
    LET c == call[t] IN
    CASE c.mode = "status" -> "success"
      [] c.mode # "status" /\ Elsewhere(t) /\ ~ForceApplied(t) -> "fail"
      [] OTHER ->
           CASE c.mode = "cleanup" -> IF c.dry THEN "dry-run" ELSE "cleanup"
             [] c.mode = "bind" ->
                  IF AlreadyBound(t) THEN "success"
                  ELSE IF ForceApplied(t) THEN "pre-clear"
                  ELSE IF c.dry THEN "dry-run" ELSE "remove"
             [] c.mode = "unbind" ->
                  IF ini[at[t]] = <<>> /\ ~c.force THEN "success"
                  ELSE IF ~Known(t) /\ ~c.force THEN "fail"
                  ELSE IF c.dry THEN "dry-run"
                  ELSE IF c.force THEN "force-remove" ELSE "tidy"

Inspect(t) ==
    /\ where[t] = "state"
    /\ LET current == First(ini[at[t]])
       IN  IF Decision(t) \in Statuses
             THEN ConcludeWith(t, Decision(t), current)
             ELSE /\ Goto(t, Decision(t))
                  /\ results' = [results EXCEPT ![t][at[t]] =
                                    [status |-> "pending", current |-> current]]
                  /\ UNCHANGED at
    /\ UNCHANGED <<call, loaded, snap, ended, ini, checkoutState, history>>

\* No LabVIEW.ini for this bitness, or it cannot be read.
InspectFails(t) ==
    /\ where[t] = "state"
    /\ ConcludeWith(t, "fail", NoPath)
    /\ UNCHANGED <<call, loaded, snap, ended, ini, checkoutState, history>>

-----------------------------------------------------------------------------
(***************************************************************************)
(* Edits of LabVIEW.ini                                                     *)
(***************************************************************************)

\* The unforced unbind clears as the forced bind does.
Bug_TidyClearsOthers(t, s) ==
    CASE where[t] \in {"pre-clear", "set-clear", "tidy"} -> Distinct(s, {Target(t)})
      [] where[t] \in {"remove", "force-remove", "cleanup"} -> <<>>
      [] where[t] \in {"add", "fix"} -> <<Target(t)>> \o Without(s, Target(t))

\* Clear-StaleLibraryPaths with and without -Force, Remove-LibraryPathsEntries and
\* Add-LibraryPathToken, applied to the entries s.
Edited(t, s) ==
    CASE where[t] \in {"pre-clear", "set-clear"} -> Distinct(s, {Target(t)})
      [] where[t] = "tidy" -> Distinct(s, Paths \ {Doubled})
      [] where[t] \in {"remove", "force-remove", "cleanup"} -> <<>>
      [] where[t] \in {"add", "fix"} -> <<Target(t)>> \o Without(s, Target(t))

\* The step after an edit; "fail" and "success" conclude the bitness.
AfterEdit(t) ==
    CASE where[t] = "pre-clear" -> IF call[t].dry THEN "dry-run" ELSE "remove"
      [] where[t] = "remove" -> "set"
      [] where[t] = "set-clear" -> "add"
      [] where[t] = "add" -> "prepare"
      [] where[t] = "fix" -> "reverify"
      [] where[t] \in {"tidy", "force-remove"} -> "revert"
      [] where[t] = "cleanup" -> "success"

\* The errors of pre-clear and of the forced removal are only logged; one inside
\* Set_Development_Mode makes the binder attempt a revert.
AfterFailedEdit(t) ==
    CASE where[t] \in {"pre-clear", "force-remove"} -> AfterEdit(t)
      [] where[t] \in {"set-clear", "add"} -> "revert"
      [] where[t] \in {"remove", "fix", "tidy", "cleanup"} -> "fail"

Proceed(t, place) ==
    IF place \in Statuses THEN Conclude(t, place)
    ELSE Goto(t, place) /\ UNCHANGED <<at, results>>

ReadIni(t) ==
    /\ where[t] \in Edits /\ ~loaded[t]
    /\ loaded' = [loaded EXCEPT ![t] = TRUE]
    /\ snap' = [snap EXCEPT ![t] = ini[at[t]]]
    /\ UNCHANGED <<call, where, at, results, ended, ini, checkoutState, history>>

\* The clearing helpers write only if they removed a line.
WriteIni(t) ==
    /\ where[t] \in Edits /\ loaded[t]
    /\ ini' = IF Edited(t, snap[t]) = snap[t] /\ where[t] \notin {"add", "fix"}
                THEN ini ELSE [ini EXCEPT ![at[t]] = Edited(t, snap[t])]
    /\ loaded' = [loaded EXCEPT ![t] = FALSE]
    /\ Proceed(t, AfterEdit(t))
    /\ UNCHANGED <<call, snap, ended, checkoutState, history>>

\* The file is locked or cannot be read.
EditFails(t) ==
    /\ where[t] \in Edits
    /\ loaded' = [loaded EXCEPT ![t] = FALSE]
    /\ Proceed(t, AfterFailedEdit(t))
    /\ UNCHANGED <<call, snap, ended, ini, checkoutState, history>>

-----------------------------------------------------------------------------
(***************************************************************************)
(* Set_Development_Mode and the verification                                *)
(***************************************************************************)

\* The packed libraries go first; AddTokenToLabVIEW is the two edits that follow.
SetDevelopmentMode(t) ==
    /\ where[t] = "set"
    /\ \/ Goto(t, "set-clear") /\ packed' = packed \ {Target(t)}
       \/ Goto(t, "revert") /\ packed' \in {packed, packed \ {Target(t)}}
    /\ UNCHANGED <<call, at, loaded, snap, results, ended, ini, prepared, summary, history>>

\* PrepareIESource.vi unpacks the sources and may set the token itself.
Prepare(t) ==
    /\ where[t] = "prepare"
    /\ \/ Goto(t, "close-set") /\ prepared' = prepared \cup {Target(t)}
       \/ Goto(t, "revert") /\ prepared' \in {prepared, prepared \cup {Target(t)}}
    /\ ini' \in {ini, [ini EXCEPT ![at[t]] = <<Target(t)>> \o Without(@, Target(t))]}
    /\ UNCHANGED <<call, at, loaded, snap, results, ended, packed, summary, history>>

CloseAfterSet(t) ==
    /\ where[t] = "close-set"
    /\ Goto(t, "verify") \/ Goto(t, "revert")
    /\ UNCHANGED <<call, at, loaded, snap, results, ended, ini, checkoutState, history>>

\* The token is read back; if it is not there it is written once more.
Verify(t) ==
    /\ where[t] = "verify"
    /\ Proceed(t, IF Known(t) THEN "success" ELSE IF call[t].autoFix THEN "fix" ELSE "fail")
    /\ UNCHANGED <<call, loaded, snap, ended, ini, checkoutState, history>>

Reverify(t) ==
    /\ where[t] = "reverify"
    /\ Conclude(t, "fail") \/ (Known(t) /\ Conclude(t, "success"))
    /\ UNCHANGED <<call, loaded, snap, ended, ini, checkoutState, history>>

-----------------------------------------------------------------------------
(***************************************************************************)
(* RevertDevelopmentMode, of an unbind, after a failed bind, or by itself    *)
(***************************************************************************)

\* Should-RunRestore searches the whole file for the path; it may occur outside
\* the entries, or the check fail, which counts as found.
ShouldRestore(t) ==
    /\ where[t] = "revert"
    /\ Goto(t, "restore") \/ (~Known(t) /\ Goto(t, "close-revert"))
    /\ UNCHANGED <<call, at, loaded, snap, results, ended, ini, checkoutState, history>>

\* How the script ends the part that called it.
RevertReturns(t, good) ==
    CASE call[t].mode = "bind" -> Conclude(t, "fail") /\ UNCHANGED ended
      [] call[t].mode = "unbind" ->
             Proceed(t, IF good THEN "unbound" ELSE "fail") /\ UNCHANGED ended
      [] call[t].mode = "revert" ->
             End(t, IF good THEN "success" ELSE "fail") /\ UNCHANGED <<at, results>>

\* restore-sources: RestoreSetupLVSource.vi removes the token and packs the
\* sources; without a CLI or a connection it is skipped with exit code zero.
Restore(t) ==
    /\ where[t] = "restore"
    /\ \/ /\ ini' = [ini EXCEPT ![at[t]] = Without(@, Target(t))]
          /\ prepared' = prepared \ {Target(t)}
       \/ UNCHANGED <<ini, prepared>>
    /\ \/ Goto(t, "close-revert") /\ UNCHANGED <<at, results, ended>>
       \/ RevertReturns(t, FALSE)
    /\ UNCHANGED <<call, loaded, snap, packed, summary, history>>

CloseAfterRevert(t) ==
    /\ where[t] = "close-revert"
    /\ \E good \in BOOLEAN : RevertReturns(t, good)
    /\ UNCHANGED <<call, loaded, snap, ini, checkoutState, history>>

\* The exit code of the revert script is trusted.
Bug_UnboundTrusted(t) ==
    /\ where[t] = "unbound"
    /\ Conclude(t, "success")
    /\ UNCHANGED <<call, loaded, snap, ended, ini, checkoutState, history>>

Unbound(t) ==
    /\ where[t] = "unbound"
    /\ Conclude(t, IF Known(t) THEN "fail" ELSE "success")
    /\ UNCHANGED <<call, loaded, snap, ended, ini, checkoutState, history>>

-----------------------------------------------------------------------------
(***************************************************************************)
(* The end of a call                                                        *)
(***************************************************************************)

\* One failure among the bitnesses decides the exit status.
ExitOf(t) ==
    IF \E a \in call[t].archs : results[t][a].status = "fail" THEN "fail" ELSE "success"

\* The summary is overwritten with the results of this call's bitnesses.
Report(t) ==
    /\ where[t] = "report"
    /\ summary' = [summary EXCEPT ![Target(t)] = [a \in Archs |-> results[t][a].current]]
    /\ End(t, ExitOf(t))
    /\ UNCHANGED <<call, at, loaded, snap, results, ini, packed, prepared, history>>

\* An error outside every try block: no summary is written.
Aborts(t) ==
    /\ where[t] \in {"start", "verify", "unbound", "report"}
    /\ End(t, "fail")
    /\ UNCHANGED <<call, at, loaded, snap, results, ini, checkoutState, history>>

\* The terminal is closed, or the call killed by a timeout of its caller.
Kill(t) ==
    /\ where[t] \in Running
    /\ End(t, "killed")
    /\ loaded' = [loaded EXCEPT ![t] = FALSE]
    /\ UNCHANGED <<call, at, snap, results, ini, checkoutState, history>>

Step(t) ==
    \/ Plan(t) \/ Start(t) \/ Inspect(t) \/ InspectFails(t)
    \/ ReadIni(t) \/ WriteIni(t) \/ EditFails(t)
    \/ SetDevelopmentMode(t) \/ Prepare(t) \/ CloseAfterSet(t)
    \/ Verify(t) \/ Reverify(t)
    \/ ShouldRestore(t) \/ Restore(t) \/ CloseAfterRevert(t) \/ Unbound(t)
    \/ Report(t) \/ Aborts(t)

Next == \E t \in Terminals : Begin(t) \/ Step(t) \/ Kill(t)

Spec == Init /\ [][Next]_vars
=============================================================================

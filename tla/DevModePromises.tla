--------------------------- MODULE DevModePromises ---------------------------
(***************************************************************************)
(* What the development-mode scripts share - one LabVIEW.ini per bitness,    *)
(* the checkouts, the summaries - what a call of them knows while it runs,   *)
(* and what they promise of it all.  DevMode says what they do.              *)
(***************************************************************************)
EXTENDS Naturals, Sequences, FiniteSets, DevModeOutcomes

CONSTANTS
    Terminals,    \* where calls are started, one at a time each
    Repositories, \* repositories a call may be given
    Worktrees,    \* those named lv-ie-worktree-<stamp>-<hash>, of different commits
    Strangers,    \* other paths LocalHost.LibraryPaths may name
    Doubled,      \* a double-rooted runner path
    NoPath,       \* no path: the file has no entry
    NoSummary,    \* no summary has been written
    Contents,     \* the entries the LabVIEW.ini files may hold at first
    Archs,        \* bitnesses, processed in increasing order
    Calls,        \* the calls that may be started
    MaxCalls      \* bound of the number of calls in the model

Paths == Repositories \cup Strangers \cup {Doubled}

ASSUME PathsAssumption ==
    /\ NoPath \notin Paths /\ NoSummary \notin [Archs -> Paths \cup {NoPath}]
    /\ Doubled \notin Repositories \cup Strangers
    /\ Repositories \cap Strangers = {} /\ Worktrees \subseteq Repositories
    /\ Contents \subseteq [Archs -> Seq(Paths)]
ASSUME ArchsAssumption == Archs \subseteq Nat /\ IsFiniteSet(Archs)
ASSUME CallsAssumption ==
    /\ Calls \subseteq
         [by : {"script", "agent"}, mode : {"bind", "unbind", "cleanup", "status", "revert"},
          force : BOOLEAN, autoFix : BOOLEAN, dry : BOOLEAN,
          target : Repositories, archs : (SUBSET Archs) \ {{}}]
    /\ Calls # {}
    /\ \A c \in Calls : c.mode = "revert" => Cardinality(c.archs) = 1
    /\ \A c \in Calls : c.by = "agent" => c.mode \in {"bind", "unbind"}
    /\ Terminals # {} /\ MaxCalls \in Nat

VARIABLES
    call,      \* call[t]: the call t runs or ran last
    where,     \* where[t]: where it is (see CallPlaces)
    at,        \* at[t]: the bitness being processed
    loaded,    \* loaded[t]: an edit has read the file and not yet written it
    snap,      \* snap[t]: the entries it read
    results,   \* results[t][a]: the result object of bitness a
    ended,     \* ended[t]: how the call ended
    ini,       \* ini[a]: the LocalHost.LibraryPaths entries, in file order
    packed,    \* checkouts with packed libraries in resource/plugins
    prepared,  \* checkouts whose sources PrepareIESource has unpacked
    summary,   \* summary[c]: current_path per bitness in reports/dev-mode-bind.json of c
    started,   \* number of calls started
    before,    \* history, before[t]: ini when the call of t began
    solo       \* history, solo[t]: nobody else was at work since then

\* Edits of LabVIEW.ini: Get-Content, a change, Set-Content.
Edits == {"pre-clear", "remove", "set-clear", "add", "fix", "tidy", "force-remove", "cleanup"}
Running == Edits \cup
    {"plan", "start", "state", "set", "prepare", "close-set", "verify", "reverify",
     "revert", "restore", "close-revert", "unbound", "report"}
CallPlaces == Running \cup {"idle", "ended"}
Statuses == {"none", "pending", "success", "fail", "dry-run"}
Outcomes == {"none", "success", "fail", "skip", "blocked", "killed"}

-----------------------------------------------------------------------------
(* The entries of a file. *)

Target(t) == call[t].target
Entries(s) == {s[i] : i \in 1..Len(s)}
First(s) == IF s = <<>> THEN NoPath ELSE s[1]

\* The entries of s at the positions in the set places, in file order.
Nth(places, n) == CHOOSE i \in places : Cardinality({j \in places : j < i}) = n - 1
Picked(s, places) == [n \in 1..Cardinality(places) |-> s[Nth(places, n)]]

Without(s, p) == Picked(s, {i \in 1..Len(s) : s[i] # p})

\* The first entry of every path in ps, as $seen has it.
Distinct(s, ps) ==
    Picked(s, {i \in 1..Len(s) : s[i] \in ps /\ \A j \in 1..(i - 1) : s[j] # s[i]})

-----------------------------------------------------------------------------
(***************************************************************************)
(* Properties                                                               *)
(***************************************************************************)

\* The values every variable ranges over.
StateTypes ==
    /\ call \in [Terminals -> Calls]
    /\ where \in [Terminals -> CallPlaces]
    /\ at \in [Terminals -> Archs \cup {0}]
    /\ loaded \in [Terminals -> BOOLEAN]
    /\ snap \in [Terminals -> Seq(Paths)]
    /\ results \in [Terminals -> [Archs -> [status : Statuses, current : Paths \cup {NoPath}]]]
    /\ ended \in [Terminals -> Outcomes]
    /\ ini \in [Archs -> Seq(Paths)]
    /\ packed \subseteq Repositories /\ prepared \subseteq Repositories
    /\ summary \in [Repositories -> [Archs -> Paths \cup {NoPath}] \cup {NoSummary}]
    /\ started \in 0..MaxCalls
    /\ before \in [Terminals -> [Archs -> Seq(Paths)]]
    /\ solo \in [Terminals -> BOOLEAN]

Succeeded(t, a) == results[t][a].status = "success"

\* Told to whoever reads the summary, or the exit status.
ToldDone(t, a) == Succeeded(t, a) \/ (ended[t] = "success" /\ ~call[t].dry)

\* BIND-006, BIND-016: what a call that nobody interfered with reports is so.  A
\* successful bind leaves its checkout in LabVIEW.ini, as the only entry unless
\* it changed nothing, and no packed library in the checkout; a successful unbind
\* leaves no entry of it, whatever was skipped or failed on the way.  (Besides,
\* every variable has its type.)
ReportedIsSo == StateTypes /\
    \A t \in Terminals : \A a \in call[t].archs :
        solo[t] /\ ToldDone(t, a) =>
            /\ call[t].mode = "bind" =>
                   /\ Target(t) \in Entries(ini[a])
                   /\ ini[a] \in {<<Target(t)>>, before[t][a]}
                   /\ Target(t) \notin packed
            /\ call[t].mode = "unbind" => Target(t) \notin Entries(ini[a])

\* On a file of at most one entry, a forced bind or a revert that nobody interfered
\* with leaves at most one entry, and one of the outcomes sd-ppl-lvcli counts on;
\* killed half-way, one of the tokens of those outcomes.
OutcomesCovered ==
    \A t \in Terminals : \A a \in call[t].archs :
        LET c == call[t]
            old == First(before[t][a])
            covered == IF c.mode = "revert" THEN UnbindOutcomes(c.target, NoPath, old)
                                            ELSE BindOutcomes(c.target, NoPath, old)
        IN  /\ solo[t] /\ where[t] = "ended" /\ c.archs = {a} /\ Len(before[t][a]) <= 1
            /\ c.mode = "revert" \/ (c.mode = "bind" /\ c.force /\ c.by = "script" /\ ~c.dry)
            => /\ Len(ini[a]) <= 1
               /\ \E res \in covered :
                      /\ res.token = First(ini[a])
                      /\ ended[t] \in {res.status, "killed"}

\* The other repositories named, in the order in which LabVIEW meets them.
Foreign(t, s) == Distinct(s, Paths \ {Target(t), Doubled})

\* BIND-005, BIND-013, as far as the code keeps it: without -Force an unbind, and
\* with the automatic fix switched off any call that finds another repository's
\* token first, leaves the other repositories that are named, and their order, as
\* they were, also half-way (the unbind drops a repeated entry).
ForeignSpared ==
    \A t \in Terminals : \A a \in Archs :
        LET first == First(before[t][a])
            guarded == /\ ~call[t].autoFix
                       /\ first \notin {NoPath, Target(t)} \cup Worktrees
        IN  solo[t] /\ ~call[t].force /\ (call[t].mode = "unbind" \/ guarded)
            => Foreign(t, ini[a]) = Foreign(t, before[t][a])

\* However binds overlap: when the last call of every terminal was a bind that
\* exited with zero, every LabVIEW.ini that all of them were to edit names the
\* checkout of one of them.
SomeBindHolds ==
    \A a \in Archs :
        LET Done(t) == /\ where[t] = "ended" /\ ended[t] = "success"
                       /\ call[t].mode = "bind" /\ ~call[t].dry /\ a \in call[t].archs
        IN  (\A t \in Terminals : Done(t))
            => \E t \in Terminals : Target(t) \in Entries(ini[a])

=============================================================================

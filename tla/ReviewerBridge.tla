--------------------------- MODULE ReviewerBridge ---------------------------
(***************************************************************************)
(* reviewer_bridge.py: one run of the reviewer of pull requests.  It runs   *)
(* on CI, in a checkout of its own, or in a developer's clone, one run      *)
(* after the other, where what it read may be frozen for later runs.  The  *)
(* pull request moves on between its requests.                             *)
(***************************************************************************)
EXTENDS ChatRepo

CONSTANTS
    Reviews,        \* runs of the reviewer
    Requests,       \* how they are called: see Flag
    Ignored,        \* whether git ignores .codex
    MaxHead,        \* bound: commits pushed to a pull request
    NoRequest, Nothing

VARIABLES
    cache,      \* frozen inputs and review of each pull request, in the clone
    posted,     \* reviews on GitHub
    saved,      \* critiques committed and pushed
    rev         \* the runs

reviewerVars == <<repo, branches, prs, cache, posted, saved, rev>>

\* where: "ci" or the branch the clone is on; event: what called the run.
Flag == {"commentOnly", "dryRun", "noPost", "noLabels", "freezeInputs", "freezeReview",
         "anyBranch", "otherBranch"}
Request == [pr : Nat, event : {"pull_request", "comment", "dispatch"},
            where : {"ci", "head", "main", "topic", "scratch"}, flags : SUBSET Flag]

ASSUME RequestsAssumption == Requests \subseteq Request

Local(c) == c.where # "ci"
Quiet(c) == {"commentOnly", "dryRun"} \cap c.flags # {}
NoPost(c) == {"noPost", "dryRun"} \cap c.flags # {}
NoLabels(c) == {"noLabels", "dryRun"} \cap c.flags # {}
FreezeInputs(c) == "freezeInputs" \in c.flags
Bug_FreezeReviewOnly(c) == "freezeReview" \in c.flags
FreezeReview(c) == {"freezeReview", "freezeInputs"} \cap c.flags # {}

Fresh == [pr |-> Nothing, diff |-> Nothing, files |-> Nothing, review |-> Nothing]
Unstarted == [call |-> NoRequest, at |-> "idle", seen |-> Fresh, base |-> 0, head |-> 0]

RAt(v, step) == rev[v].at = step
Call(v) == rev[v].call
RGoes(v, step) == rev' = [rev EXCEPT ![v].at = step]
\* The process ends with an exit status.
Exit(v, code) == rev' = [rev EXCEPT ![v] = [Unstarted EXCEPT !.call = Call(v), !.at = code]]
Ended(v) == rev[v].at \in {"idle", "0", "1", "2", "3"}

ReviewerInit ==
    /\ cache = <<>>
    /\ posted = {} /\ saved = {}
    /\ rev = [v \in Reviews |-> Unstarted]

Frozen(n) == IF n \in DOMAIN cache THEN cache[n] ELSE Fresh
Freeze(n, field, x) ==
    cache' = [k \in DOMAIN cache \cup {n} |->
                 IF k = n THEN [Frozen(n) EXCEPT ![field] = x] ELSE cache[k]]

\* A run starts; one that could not save ends before it asks GitHub anything.
RStart(v, c) ==
    /\ RAt(v, "idle")
    /\ c.pr \in Numbers
    /\ Local(c) => \A u \in {x \in Reviews : ~Ended(x)} : ~Local(Call(u))
    /\ rev' = [rev EXCEPT ![v] = [Unstarted EXCEPT !.call = c, !.base = repo.rev,
                                     !.head = prs[c.pr].head.rev,
                                     !.at = IF Ignored /\ ~Quiet(c) THEN "2" ELSE "label"]]
    /\ UNCHANGED <<repo, branches, prs, cache, posted, saved>>

\* Only a pull_request event needs the label of the bridge.
LabelGate(v) ==
    /\ RAt(v, "label")
    /\ \/ /\ Call(v).event = "pull_request"
          /\ \/ "codex-proposal" \notin prs[Call(v).pr].labels /\ Exit(v, "0")
             \/ Exit(v, "2")
             \/ "codex-proposal" \in prs[Call(v).pr].labels /\ RGoes(v, "pr")
       \/ Call(v).event # "pull_request" /\ RGoes(v, "pr")
    /\ UNCHANGED <<repo, branches, prs, cache, posted, saved>>

\* A clone may save only from the head branch of the pull request, unless a
\* flag says otherwise.
Unsafe(c) ==
    /\ Local(c) /\ ~Quiet(c)
    /\ \/ c.where \in {"main", "scratch"} /\ "anyBranch" \notin c.flags
       \/ c.where # "head" /\ "otherBranch" \notin c.flags

\* load_or_fetch_pr, _diff and _files: what an earlier run froze, or what
\* GitHub says now.
Load(v, field, next) ==
    LET n == Call(v).pr
        Reads(x) == IF next = "2" THEN Exit(v, next)
                    ELSE rev' = [rev EXCEPT ![v].seen[field] = x, ![v].at = next]
    IN  \/ /\ FreezeInputs(Call(v)) /\ Local(Call(v)) /\ Frozen(n)[field] # Nothing
           /\ Reads(Frozen(n)[field]) /\ UNCHANGED cache
        \/ /\ ~(FreezeInputs(Call(v)) /\ Local(Call(v)) /\ Frozen(n)[field] # Nothing)
           /\ \/ /\ Reads(prs[n].head)
                 /\ IF FreezeInputs(Call(v)) /\ Local(Call(v))
                    THEN Freeze(n, field, prs[n].head) ELSE UNCHANGED cache
              \/ Exit(v, "2") /\ UNCHANGED cache

LoadPr(v) ==
    /\ RAt(v, "pr")
    /\ Load(v, "pr", IF Unsafe(Call(v)) THEN "2" ELSE "diff")
    /\ UNCHANGED <<repo, branches, prs, posted, saved>>

LoadDiff(v) ==
    /\ RAt(v, "diff") /\ Load(v, "diff", "scan")
    /\ UNCHANGED <<repo, branches, prs, posted, saved>>

Refusal == [kind |-> "refused"]

\* A diff with something like a secret is refused in public, whatever the flags.
Scan(v) ==
    /\ RAt(v, "scan")
    /\ \/ /\ rev[v].seen.diff.secret
          /\ posted' = posted \cup {[pr |-> Call(v).pr, by |-> v, text |-> Refusal]}
          /\ Exit(v, "0")
       \/ rev[v].seen.diff.secret /\ Exit(v, "2") /\ UNCHANGED posted
       \/ ~rev[v].seen.diff.secret /\ RGoes(v, "files") /\ UNCHANGED posted
    /\ UNCHANGED <<repo, branches, prs, cache, saved>>

LoadFiles(v) ==
    /\ RAt(v, "files") /\ Load(v, "files", "llm")
    /\ UNCHANGED <<repo, branches, prs, posted, saved>>

\* Every answer of the model is another one.  When it refuses, the run ends as
\* if it had succeeded.
Critique(v) == [kind |-> "critique", diff |-> rev[v].seen.diff, files |-> rev[v].seen.files, by |-> v]

ReviewByLlm(v) ==
    LET n == Call(v).pr
        Has(x) == rev' = [rev EXCEPT ![v].seen.review = x, ![v].at = "post"]
        frozen == FreezeReview(Call(v)) /\ Local(Call(v))
    IN  /\ RAt(v, "llm")
        /\ \/ frozen /\ Frozen(n).review # Nothing /\ Has(Frozen(n).review) /\ UNCHANGED cache
           \/ /\ ~(frozen /\ Frozen(n).review # Nothing)
              /\ \/ /\ Has(Critique(v))
                    /\ IF frozen THEN Freeze(n, "review", Critique(v)) ELSE UNCHANGED cache
                 \/ Exit(v, "0") /\ UNCHANGED cache
                 \/ Exit(v, "3") /\ UNCHANGED cache
        /\ UNCHANGED <<repo, branches, prs, posted, saved>>

Review(v) == [pr |-> Call(v).pr, by |-> v, text |-> rev[v].seen.review]

Bug_PostUnchecked(v) ==
    /\ RAt(v, "post") /\ RGoes(v, "mark")
    /\ \/ posted' = posted \cup (IF NoPost(Call(v)) THEN {} ELSE {Review(v)})
       \/ UNCHANGED posted
    /\ UNCHANGED <<repo, branches, prs, cache, saved>>

\* A request that GitHub served can still fail for the run.
Post(v) ==
    /\ RAt(v, "post")
    /\ \/ NoPost(Call(v)) /\ RGoes(v, "mark") /\ UNCHANGED posted
       \/ /\ ~NoPost(Call(v))
          /\ \/ posted' = posted \cup {Review(v)} /\ (RGoes(v, "mark") \/ Exit(v, "2"))
             \/ Exit(v, "2") /\ UNCHANGED posted
    /\ UNCHANGED <<repo, branches, prs, cache, saved>>

MarkReviewed(v) ==
    /\ RAt(v, "mark")
    /\ \/ NoLabels(Call(v)) /\ RGoes(v, "save") /\ UNCHANGED prs
       \/ /\ ~NoLabels(Call(v))
          /\ \/ WithLabels(Call(v).pr, {"codex-reviewed"}) /\ RGoes(v, "save")
             \/ RGoes(v, "save") /\ UNCHANGED prs       \* the status is not looked at
             \/ Exit(v, "3") /\ UNCHANGED prs
    /\ UNCHANGED <<repo, branches, cache, posted, saved>>

\* The push goes to the branch that is checked out: the default branch for a
\* comment on CI, none for a pull_request event (the head is detached), the
\* head of the pull request in a clone.
SaveReview(v) ==
    LET c == Call(v)
        onMain == c.where = "main" \/ (c.where = "ci" /\ c.event # "pull_request")
    IN  /\ RAt(v, "save")
        /\ \/ Quiet(c) /\ Exit(v, "0") /\ UNCHANGED <<repo, prs, saved>>
           \/ /\ ~Quiet(c)
              /\ \/ Exit(v, "3") /\ UNCHANGED <<repo, prs, saved>>
                 \/ /\ onMain /\ rev[v].base = repo.rev
                    /\ repo' = [repo EXCEPT !.rev = @ + 1] /\ UNCHANGED prs
                    /\ saved' = saved \cup {Review(v)} /\ Exit(v, "0")
                 \/ /\ c.where = "head" /\ rev[v].head = prs[c.pr].head.rev
                    /\ prs' = [prs EXCEPT ![c.pr].head.rev = @ + 1] /\ UNCHANGED repo
                    /\ saved' = saved \cup {Review(v)} /\ Exit(v, "0")
                 \/ /\ c.where \in {"topic", "scratch"}
                    /\ saved' = saved \cup {Review(v)} /\ Exit(v, "0") /\ UNCHANGED <<repo, prs>>
        /\ UNCHANGED <<branches, cache, posted>>

ReviewerStep(v) ==
    \/ \E c \in Requests : RStart(v, c)
    \/ LabelGate(v) \/ LoadPr(v) \/ LoadDiff(v) \/ Scan(v) \/ LoadFiles(v)
    \/ ReviewByLlm(v) \/ Post(v) \/ MarkReviewed(v) \/ SaveReview(v)

\* The author pushes a commit.
PushHead(n) ==
    /\ prs[n].head.rev < MaxHead
    /\ \E secret \in BOOLEAN : prs' = [prs EXCEPT ![n].head = [rev |-> @.rev + 1, secret |-> secret]]
    /\ UNCHANGED <<repo, branches, cache, posted, saved, rev>>

---------------------------------------------------------------------------
(* What has to hold *)

Critiques == [kind : {"critique"}, diff : PrHead, files : PrHead, by : Reviews]
ASSUME NothingAssumption == Nothing \notin Critiques

Inputs == [pr : PrHead \cup {Nothing}, diff : PrHead \cup {Nothing}, files : PrHead \cup {Nothing},
           review : Critiques \cup {Nothing}]
ReviewRun == [call : Requests \cup {NoRequest},
              at : {"idle", "label", "pr", "diff", "scan", "files", "llm", "post", "mark", "save",
                    "0", "2", "3"},
              seen : Inputs, base : Nat, head : Nat]

ReviewerTypeOK ==
    /\ DOMAIN cache \subseteq Numbers /\ \A n \in DOMAIN cache : cache[n] \in Inputs
    /\ saved \cup posted \subseteq [pr : Numbers, by : Reviews, text : {Refusal} \cup Critiques]
    /\ rev \in [Reviews -> ReviewRun]
    /\ \A v \in Reviews :
          /\ rev[v].at # "idle" => (Call(v) \in Requests /\ Call(v).pr \in Numbers)
          /\ rev[v].at \in {"scan", "files", "llm"} => rev[v].seen.diff \in PrHead
          /\ rev[v].at = "llm" => rev[v].seen.files \in PrHead
          /\ rev[v].at \in {"post", "mark", "save"} => rev[v].seen.review \in Critiques

\* "freeze review output across cycles": whatever is pushed between two runs of
\* a clone that freezes its inputs or its review, and wherever a run fails, the
\* runs that post a critique of a pull request all post the same one.
FrozenCyclesAgree ==
    \A x, y \in {r \in posted : r.text # Refusal /\ Local(Call(r.by))
                                /\ {"freezeReview", "freezeInputs"} \cap Call(r.by).flags # {}} :
        x.pr = y.pr => x.text = y.text

\* The record in the repository and the label follow the review on GitHub: a
\* critique is only saved, and a pull request only marked as reviewed, when the
\* critique is there to read, unless the run was told not to post it.
RecordFollowsReview ==
    /\ \A r \in saved : r \in posted \/ NoPost(Call(r.by))
    /\ \A n \in Numbers : "codex-reviewed" \in prs[n].labels =>
          \/ \E r \in posted : r.pr = n /\ r.text # Refusal
          \/ \E v \in {u \in Reviews : ~RAt(u, "idle")} :
                Call(v).pr = n /\ NoPost(Call(v)) /\ ~NoLabels(Call(v))
=============================================================================

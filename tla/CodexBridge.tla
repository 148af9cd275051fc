---------------------------- MODULE CodexBridge ----------------------------
(***************************************************************************)
(* codex_bridge.py: one run for each comment "/codex <verb>".  A run works  *)
(* on a checkout of its own, taken when it starts; nothing keeps two runs  *)
(* from overlapping.  The result of git add, commit and push is ignored     *)
(* when a session or a proposal is saved, so a push that the server refuses *)
(* (it moved on since the checkout) or that never arrives is lost silently. *)
(***************************************************************************)
EXTENDS ChatRepo

CONSTANTS
    Runs,           \* runs of the bridge; each serves one comment
    Comments,       \* records [verb, arg, actor, thread, jobToken]: arg is the proposal to
                    \* apply, 0 the latest; jobToken, whether GITHUB_TOKEN is set
    AllowedUsers,   \* CODEX_ALLOWED_USERS; empty: anyone
    LabelRequired,  \* whether CODEX_LABEL_REQUIRED is set
    NoComment, NoPatch

Verbs == {"policy", "ping", "state", "other", "init", "end", "say", "propose", "apply"}

ASSUME CommentsAssumption ==
    \A c \in Comments : c.verb \in Verbs /\ c.arg \in Nat /\ c.thread \in Threads /\ c.jobToken \in BOOLEAN

VARIABLES
    marked,     \* threads that carry the required label
    run         \* the runs

bridgeVars == <<repo, branches, prs, marked, run>>

Idle == [comment |-> NoComment, at |-> "idle", base |-> 0, ahead |-> FALSE, hurt |-> FALSE,
         session |-> NoSession, file |-> NoSession, patches |-> <<>>,
         pid |-> 0, patch |-> NoPatch, pr |-> 0, told |-> "nothing"]

At(w, step) == run[w].at = step
Becomes(w, r) == run' = [run EXCEPT ![w] = r]
Goes(w, step) == Becomes(w, [run[w] EXCEPT !.at = step])
Answers(w, text) == Becomes(w, [run[w] EXCEPT !.at = "answer", !.told = text])
\* The process has ended and the runner with its checkout is gone.
Crashes(w) == Becomes(w, [Idle EXCEPT !.at = "crashed"])
Completes(w) ==
    LET r == run[w]
    IN  Becomes(w, [Idle EXCEPT !.comment = r.comment, !.at = "answered", !.told = r.told,
                                !.pid = r.pid, !.patch = r.patch, !.hurt = r.hurt])
Thread(w) == run[w].comment.thread
Verb(w) == run[w].comment.verb

BridgeInit ==
    /\ marked = {}
    /\ run = [w \in Runs |-> Idle]

Loaded(s) == IF s.status = "none" THEN [status |-> "open", msgs |-> <<>>] ELSE s

\* A comment arrives; the runner checks the default branch out and loads the
\* session, even for a command it then refuses.
Start(w, c) ==
    /\ At(w, "idle")
    /\ Becomes(w, [Idle EXCEPT !.comment = c, !.at = "gate", !.base = repo.rev,
                               !.session = Loaded(repo.sessions[c.thread]),
                               !.file = repo.sessions[c.thread],
                               !.patches = repo.patches[c.thread]])
    /\ UNCHANGED <<repo, branches, prs, marked>>

Bug_ClosedToSay(w) == run[w].session.status = "closed" /\ Verb(w) = "say"
Closed(w) == run[w].session.status = "closed"
Restricted(c) == AllowedUsers # {} /\ c.actor \notin AllowedUsers
Unmarked(c) == LabelRequired /\ c.thread \notin marked

\* "policy" is answered to anyone; then the user and the label are checked,
\* then the verb decides.
Gate(w) ==
    LET c == run[w].comment
    IN  /\ At(w, "gate")
        /\ \/ c.verb = "policy" /\ Answers(w, "policy")
           \/ c.verb # "policy" /\ LabelRequired /\ Crashes(w)  \* GitHub did not answer
           \/ c.verb # "policy" /\ (Restricted(c) \/ Unmarked(c)) /\ Answers(w, "refused")
           \/ /\ c.verb # "policy" /\ ~Restricted(c) /\ ~Unmarked(c)
              /\ \/ c.verb \in {"ping", "state", "other"} /\ Answers(w, c.verb)
                 \/ /\ c.verb = "init"
                    /\ Becomes(w, [run[w] EXCEPT !.at = "session", !.session.status = "open"])
                 \/ /\ c.verb = "end"
                    /\ Becomes(w, [run[w] EXCEPT !.at = "session", !.session.status = "closed"])
                 \/ /\ c.verb \in {"say", "propose"}
                    /\ IF Closed(w) THEN Answers(w, "closed") ELSE Goes(w, "llm")
                 \/ c.verb = "apply" /\ Goes(w, "apply")
        /\ UNCHANGED <<repo, branches, prs, marked>>

\* "say" appends the question and the answer; "propose" hands the session to
\* the model and takes the diff out of its answer.
CallLlm(w) ==
    /\ At(w, "llm")
    /\ \/ Answers(w, "llm failed")
       \/ /\ Verb(w) = "say"
          /\ Becomes(w, [run[w] EXCEPT !.at = "session",
                                       !.session.msgs = @ \o <<<<"user", w>>, <<"assistant", w>>>>])
       \/ Verb(w) = "propose" /\ Answers(w, "no diff")
       \/ /\ Verb(w) = "propose"
          /\ \E d \in Patches :
                IF Accepted(d) THEN Becomes(w, [run[w] EXCEPT !.at = "proposal", !.patch = d])
                ELSE Answers(w, "rejected")
    /\ UNCHANGED <<repo, branches, prs, marked>>

---------------------------------------------------------------------------
(* Saving *)

\* Proposals are numbered by how many files the checkout holds.
Bug_NumberFromZero(r) == IF Len(r.patches) = 0 THEN 1 ELSE Len(r.patches)
NextProposalId(r) == Len(r.patches) + 1

FastForward(r) == r.base = repo.rev

\* git push of the default branch, with r the run after its commit.  The
\* server refuses it unless it descends from what the server has.
Push(w, r) ==
    LET t == r.comment.thread
    IN  \/ /\ r.ahead /\ FastForward(r)
           /\ repo' = [repo EXCEPT !.rev = @ + 1, !.sessions[t] = r.file, !.patches[t] = r.patches]
           /\ Becomes(w, [r EXCEPT !.base = repo.rev + 1, !.ahead = FALSE, !.hurt = FALSE])
        \/ ~r.ahead /\ Becomes(w, r) /\ UNCHANGED repo
        \* refused, or the connection fails
        \/ r.ahead /\ Becomes(w, [r EXCEPT !.hurt = TRUE]) /\ UNCHANGED repo

\* The proposal is committed and pushed; the session's file is still the old one.
SaveProposal(w) ==
    LET n == NextProposalId(run[w])
        file(r) == IF n > Len(r.patches) THEN Append(r.patches, r.patch)
                   ELSE [r.patches EXCEPT ![n] = r.patch]
    IN  /\ At(w, "proposal")
        /\ Push(w, [run[w] EXCEPT !.at = "session", !.pid = n, !.ahead = TRUE,
                                  !.patches = file(run[w]),
                                  !.session.msgs = Append(@, <<"proposal", w>>)])
        /\ UNCHANGED <<branches, prs, marked>>

\* A session that did not change makes no commit, but what an earlier push
\* could not deliver goes with this one.
SaveSession(w) ==
    /\ At(w, "session")
    /\ Push(w, [run[w] EXCEPT !.at = "answer", !.told = Verb(w), !.file = run[w].session,
                              !.ahead = @ \/ run[w].file # run[w].session])
    /\ UNCHANGED <<branches, prs, marked>>

---------------------------------------------------------------------------
(* Applying a proposal *)

Candidates(w) == DOMAIN run[w].patches
Bug_FirstOfAll(w) == 1
\* The last file of the sorted directory.
Latest(w) == Len(run[w].patches)
Picked(w) == IF run[w].comment.arg = 0 THEN Latest(w) ELSE run[w].comment.arg

\* git diff --cached after the commit: the index is what was committed.
StagedAfterCommit(d) == {}
\* The lint of the SRS runs when one of its files is staged.
LintRejects(d) == StagedAfterCommit(d) \cap SrsPaths # {} /\ d \in FailsLint

\* The branch is made from the checkout, the patch tried, the maintenance hook
\* run, everything committed, the SRS linted.  A hook that fails raises: the
\* run ends without an answer.
Apply(w) ==
    LET d == run[w].patches[Picked(w)]
    IN  /\ At(w, "apply")
        /\ \/ Candidates(w) = {} /\ Answers(w, "no proposals")
           \/ Candidates(w) # {} /\ Picked(w) \notin Candidates(w) /\ Answers(w, "not found")
           \/ /\ Picked(w) \in Candidates(w)
              /\ \/ ~Accepted(d) /\ Answers(w, "refused by guardrails")
                 \/ /\ Accepted(d)
                    /\ \/ Answers(w, "failed")
                       \/ Crashes(w)
                       \/ /\ ~LintRejects(d)
                          /\ Becomes(w, [run[w] EXCEPT !.at = "branch", !.pid = Picked(w),
                                                       !.patch = d])
        /\ UNCHANGED <<repo, branches, prs, marked>>

Branch(w) == [thread |-> Thread(w), pid |-> run[w].pid]
Bug_PushIgnored(w) == TRUE
\* Another run's branch of that name is not an ancestor: git refuses.
BranchIsFree(w) == Branch(w) \notin branches

PushBranch(w) ==
    /\ At(w, "branch")
    /\ \/ BranchIsFree(w) /\ branches' = branches \cup {Branch(w)} /\ Goes(w, "pr")
       \/ Answers(w, "failed") /\ UNCHANGED branches
    /\ UNCHANGED <<repo, prs, marked>>

\* The draft is opened with GITHUB_TOKEN of the environment: without it, or
\* when GitHub refuses, the run ends with its branch pushed.
OpenPr(w) ==
    /\ At(w, "pr")
    /\ \/ Crashes(w) /\ UNCHANGED prs
       \/ /\ run[w].comment.jobToken
          /\ prs' = Append(prs, [thread |-> Thread(w), pid |-> run[w].pid, patch |-> run[w].patch,
                                 labels |-> {}, head |-> [rev |-> 0, secret |-> FALSE]])
          /\ Becomes(w, [run[w] EXCEPT !.at = "label", !.pr = Len(prs) + 1])
    /\ UNCHANGED <<repo, branches, marked>>

\* The answer of the request is not looked at; only a lost connection raises.
LabelPr(w) ==
    /\ At(w, "label")
    /\ \/ Answers(w, "apply") /\ WithLabels(run[w].pr, {"codex-proposal", "needs-human-review"})
       \/ Answers(w, "apply") /\ UNCHANGED prs
       \/ Crashes(w) /\ UNCHANGED prs
    /\ UNCHANGED <<repo, branches, marked>>

\* Posting the answer is the last thing a run does; it raises when it fails.
Respond(w) ==
    /\ At(w, "answer")
    /\ \/ Completes(w)
       \/ Crashes(w)
    /\ UNCHANGED <<repo, branches, prs, marked>>

\* Somebody adds the label that the gate asks for.
Mark(t) ==
    /\ t \notin marked
    /\ marked' = marked \cup {t}
    /\ UNCHANGED <<repo, branches, prs, run>>

BridgeStep(w) ==
    \/ \E c \in Comments : Start(w, c)
    \/ Gate(w) \/ CallLlm(w) \/ SaveProposal(w) \/ SaveSession(w) \/ Apply(w)
    \/ PushBranch(w) \/ OpenPr(w) \/ LabelPr(w) \/ Respond(w)

---------------------------------------------------------------------------
(* What has to hold *)

Messages == {"user", "assistant", "proposal"} \X Runs
BegunSession == [status : {"open", "closed"}, msgs : Seq(Messages)]
Session == BegunSession \cup {NoSession}
Told == Verbs \cup {"nothing", "refused", "closed", "llm failed", "no diff", "rejected",
                    "no proposals", "not found", "refused by guardrails", "failed"}
BridgeRun == [comment : Comments \cup {NoComment},
              at : {"idle", "gate", "llm", "proposal", "session", "apply", "branch", "pr", "label",
                    "answer", "answered", "crashed"},
              base : Nat, ahead : BOOLEAN, hurt : BOOLEAN, session : Session, file : Session,
              patches : Seq(Patches), pid : Nat, patch : Patches \cup {NoPatch}, pr : Nat,
              told : Told]

\* Steps that have a thread, and those that have a patch to write or to apply.
Threaded == {"gate", "llm", "proposal", "session", "apply", "branch", "pr", "label", "answer", "answered"}

BridgeTypeOK ==
    /\ marked \subseteq Threads
    /\ run \in [Runs -> BridgeRun]
    /\ \A w \in Runs :
          /\ run[w].at \in Threaded => run[w].comment \in Comments
          /\ run[w].at \in {"gate", "llm", "proposal", "session"} => run[w].session \in BegunSession
          /\ run[w].at \in {"proposal", "branch", "pr"} => run[w].patch \in Patches
          /\ run[w].at \in {"branch", "pr"} => run[w].pid # 0
          /\ run[w].at = "label" => run[w].pr \in Numbers

Extends(later, earlier) == IsPrefix(earlier, later)

\* The record of a thread only grows: two runs that save at the same time, each
\* with its own copy of the session and its own idea of the next number, never
\* drop a message or replace a proposal that the branch has already.
TrailGrows ==
    [][\A t \in Threads : /\ Extends(repo'.sessions[t].msgs, repo.sessions[t].msgs)
                          /\ Extends(repo'.patches[t], repo.patches[t])]_repo

\* Nothing is added to a closed session, not even by a run that loaded the
\* session while it was open: only init, with the messages as they are, opens
\* it again.
ClosedIsClosed ==
    [][\A t \in Threads : repo.sessions[t].status = "closed" =>
          /\ repo'.sessions[t].msgs = repo.sessions[t].msgs
          /\ repo'.patches[t] = repo.patches[t]]_repo

\* The record of a thread grows while it is open and stays as it is once closed.
TrailHolds == TrailGrows /\ ClosedIsClosed

\* The branch and the pull request of a proposal carry the patch that the
\* default branch records under that number, and no proposal has two of them,
\* however many runs apply it.
PrCarriesProposal ==
    \A n \in {k \in Numbers : prs[k].thread \in Threads} :
        /\ prs[n].pid \in DOMAIN repo.patches[prs[n].thread]
        /\ prs[n].patch = repo.patches[prs[n].thread][prs[n].pid]
        /\ \A k \in Numbers : (prs[k].thread = prs[n].thread /\ prs[k].pid = prs[n].pid) => k = n

\* "Proposal saved" is only wrong when a push was refused or lost: otherwise the
\* proposal that was announced is on the branch under the announced number.
LossHasCause ==
    \A w \in Runs :
        (At(w, "answered") /\ Verb(w) = "propose" /\ run[w].told = "propose" /\ ~run[w].hurt) =>
            /\ run[w].pid \in DOMAIN repo.patches[Thread(w)]
            /\ repo.patches[Thread(w)][run[w].pid] = run[w].patch

=============================================================================

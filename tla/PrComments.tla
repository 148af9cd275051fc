----------------------------- MODULE PrComments ------------------------------
(***************************************************************************)
(* The comments pre-commit.yml keeps on a pull request.  Every push starts  *)
(* a run of its own, and runs are not serialised: a run lints the           *)
(* pre-commit templates, runs the hooks, and on failure two scripts each    *)
(* keep one comment, recognised by a marker, by listing the first page of   *)
(* comments and then updating the one found or creating one.  A third       *)
(* script of the kind is run by hand.                                       *)
(***************************************************************************)
EXTENDS Naturals, Sequences, FiniteSets

CONSTANTS
  StdLinks,      \* hooks the template of precommit_hook_links.json has links for
  FirstContent,  \* what the first push may hold
  EditedContent, \* what a later push may hold
  PageSize,      \* comments of a listed page (100 in the code)
  MaxPushes,     \* bound: pushes to the pull request
  MaxComments    \* bound: comments ever made

ASSUME BoundsAssumption ==
       /\ PageSize \in Nat \ {0} /\ MaxPushes \in Nat \ {0} /\ MaxComments \in Nat

\* What a push holds: what the hooks check, whether the local hooks are under
\* their comment, and the hook links (a file that may not be JSON).
Problems == {"srs", "agent", "spaces"}
Content == [problems : SUBSET Problems, noted : BOOLEAN, links : SUBSET (StdLinks \union {"own"}),
            readable : BOOLEAN]

\* The template has links to add.
ASSUME LinksAssumption == StdLinks # {}
ASSUME ContentAssumption == FirstContent \subseteq Content /\ EditedContent \subseteq Content

VARIABLES
  content,   \* per push: what it holds
  runs,      \* per push: where its run is
  comments,  \* the pull request's comments, oldest first
  made,      \* how many comments there ever were: the last id
  hand       \* post_srs_ascii_comment.py, run by hand: as a run
vars == <<content, runs, comments, made, hand>>

Pushes == 1..Len(content)

HookIds == {"srs-title-ascii", "agent-feedback", "precommit-hook-links"}

Markers == {"pre-commit-template-sync", "pre-commit-aggregated-suggestions",
            "srs-title-ascii-lint", "none"}

\* A comment: who wrote it last, what it lists, and what its creator had seen.
Comment == [id : 1..MaxComments, marker : Markers, of : 0..MaxPushes,
            hooks : SUBSET HookIds, fixes : SUBSET Problems,
            saw : 0..MaxComments, page : 0..PageSize]

Steps == {"lint", "syncList", "syncWrite", "hooks", "hintList", "hintWrite", "done"}
Run == [at : Steps, json : BOOLEAN, target : 0..MaxComments,
        saw : 0..MaxComments, page : 0..PageSize]
Started(at) == [at |-> at, json |-> FALSE, target |-> 0, saw |-> 0, page |-> 0]
NewRun == Started("lint")

Init ==
  /\ content \in {<<c>> : c \in FirstContent}
  /\ runs = <<NewRun>>
  /\ comments = <<>>
  /\ made = 0
  /\ hand = Started("done")

-----------------------------------------------------------------------------
(* sync_precommit_templates.py and check_srs_title_ascii.py. *)

\* merge_hook_links: a file that does not parse counts as having no links.
ExistingLinks(c) == IF c.readable THEN c.links ELSE {}
AddedLinks(c) == StdLinks \ ExistingLinks(c)

\* main --dry-run: does anything have to change.
SyncNeeded(c) == ~c.noted \/ AddedLinks(c) # {}

\* main: the comment is inserted, the links merged; a file without anything to
\* add is left as it is.
Synced(c) ==
  [c EXCEPT !.noted = TRUE,
            !.links = IF AddedLinks(c) = {} THEN @ ELSE ExistingLinks(c) \union StdLinks,
            !.readable = @ \/ AddedLinks(c) # {}]

\* srs-title-ascii-fix: the lint finds nothing in what the fix has written.
TitlesFixed(c) == [c EXCEPT !.problems = @ \ {"srs"}]

\* The hooks that fail: check_srs_title_ascii.py, check_agent_feedback.py and
\* check_precommit_hook_links.py.  The file patterns of the YAML hooks, among
\* them trailing-whitespace, match no path: those are skipped.
FailingHooks(c) ==
  {h \in HookIds : \/ h = "srs-title-ascii" /\ "srs" \in c.problems
                   \/ h = "agent-feedback" /\ "agent" \in c.problems
                   \/ h = "precommit-hook-links"
                        /\ ~(StdLinks \union {"own"} \subseteq ExistingLinks(c))}

-----------------------------------------------------------------------------
(* Pushes. *)

Push(c) ==
  /\ Len(content) < MaxPushes
  /\ content' = Append(content, c)
  /\ runs' = Append(runs, NewRun)
  /\ UNCHANGED <<comments, made, hand>>

Edit == \E c \in EditedContent : Push(c)
SyncTemplates == SyncNeeded(content[Len(content)]) /\ Push(Synced(content[Len(content)]))
FixTitles ==
  /\ "srs" \in content[Len(content)].problems
  /\ Push(TitlesFixed(content[Len(content)]))

-----------------------------------------------------------------------------
(* post_or_update_comment, in two calls. *)

\* The first page, oldest first, and the first comment there with the marker.
Page == SubSeq(comments, 1, IF Len(comments) < PageSize THEN Len(comments) ELSE PageSize)
WithMarker(m) == {i \in DOMAIN Page : Page[i].marker = m}
Existing(m) ==
  IF WithMarker(m) = {} THEN 0
  ELSE Page[CHOOSE i \in WithMarker(m) : \A j \in WithMarker(m) : i <= j].id

Bug_Listed(r, m, next) == [r EXCEPT !.at = next, !.saw = made, !.page = Len(Page),
                           !.target = 0]
Listed(r, m, next) == [r EXCEPT !.at = next, !.saw = made, !.page = Len(Page),
                                !.target = Existing(m)]

\* PATCH of the comment found (404 if it was deleted since), or POST.
Written(r, m, n, hooks, fixes) ==
  LET New == [id |-> made + 1, marker |-> m, of |-> n, hooks |-> hooks,
              fixes |-> fixes, saw |-> r.saw, page |-> r.page] IN
  \/ /\ r.target # 0
     /\ comments' = [i \in DOMAIN comments |->
                      IF comments[i].id = r.target
                      THEN [comments[i] EXCEPT !.of = n, !.hooks = hooks, !.fixes = fixes]
                      ELSE comments[i]]
     /\ UNCHANGED made
  \/ /\ r.target = 0 /\ made < MaxComments
     /\ comments' = Append(comments, New)
     /\ made' = made + 1

-----------------------------------------------------------------------------
(* A run of pre-commit.yml. *)

\* Lint pre-commit templates (dry-run): a failure skips the hooks.
Lint(n) ==
  /\ runs[n].at = "lint"
  /\ runs' = [runs EXCEPT ![n] =
       [@ EXCEPT !.at = IF SyncNeeded(content[n]) THEN "syncList" ELSE "hooks"]]
  /\ UNCHANGED <<content, comments, made, hand>>

\* post_precommit_template_sync_comment.py: lists, or fails to; either way the
\* aggregation, which runs on failure, is next.
SyncList(n) ==
  /\ runs[n].at = "syncList"
  /\ runs' = [runs EXCEPT ![n] = Listed(@, "pre-commit-template-sync", "syncWrite")]
  /\ UNCHANGED <<content, comments, made, hand>>
SyncWrite(n) ==
  /\ runs[n].at = "syncWrite"
  /\ runs' = [runs EXCEPT ![n] = Started("hintList")]
  /\ Written(runs[n], "pre-commit-template-sync", n, {}, {})
  /\ UNCHANGED <<content, hand>>

\* Run pre-commit (all files), parse the log to JSON.
Hooks(n) ==
  /\ runs[n].at = "hooks"
  /\ runs' = [runs EXCEPT ![n] =
       IF FailingHooks(content[n]) = {} THEN Started("done")
       ELSE [@ EXCEPT !.at = "hintList", !.json = TRUE]]
  /\ UNCHANGED <<content, comments, made, hand>>

\* run_precommit_capture: the hooks of the JSON, or of a run of its own when
\* the lint kept the hooks from running.
Bug_Captured(n) == IF runs[n].json THEN FailingHooks(content[n]) ELSE {}
Captured(n) == FailingHooks(content[n])

\* main: what it can suggest a fix for, hooks that fail or not; the parse of
\* YAML files is called without any file and never finds one.
Suggested(n) == content[n].problems

HintList(n) ==
  /\ runs[n].at = "hintList"
  /\ runs' = [runs EXCEPT ![n] =
       IF Captured(n) = {} /\ Suggested(n) = {}
       THEN Started("done")
       ELSE Listed(@, "pre-commit-aggregated-suggestions", "hintWrite")]
  /\ UNCHANGED <<content, comments, made, hand>>
HintWrite(n) ==
  /\ runs[n].at = "hintWrite"
  /\ runs' = [runs EXCEPT ![n] = Started("done")]
  /\ Written(runs[n], "pre-commit-aggregated-suggestions", n, Captured(n), Suggested(n))
  /\ UNCHANGED <<content, hand>>

\* A call to the API that is refused or times out raises and ends its script.
ApiFails(n) ==
  /\ runs[n].at \in {"syncList", "syncWrite", "hintList", "hintWrite"}
  /\ runs' = [runs EXCEPT ![n] =
       Started(IF @.at \in {"syncList", "syncWrite"} THEN "hintList" ELSE "done")]
  /\ UNCHANGED <<content, comments, made, hand>>

-----------------------------------------------------------------------------
(* By hand: post_srs_ascii_comment.py, github_comment.py; and deletions. *)

HandList ==
  /\ hand.at = "done"
  /\ hand' = Listed(hand, "srs-title-ascii-lint", "hintWrite")
  /\ UNCHANGED <<content, runs, comments, made>>
HandWrite ==
  /\ hand.at = "hintWrite"
  /\ hand' = Started("done")
  /\ Written(hand, "srs-title-ascii-lint", 0, {}, {"srs"})
  /\ UNCHANGED <<content, runs>>

\* github_comment.py never looks for a comment of its own.
PostComment ==
  /\ Written([NewRun EXCEPT !.saw = made], "none", 0, {}, {})
  /\ UNCHANGED <<content, runs, hand>>

DeleteComment ==
  /\ \E i \in DOMAIN comments :
       comments' = [j \in 1..(Len(comments) - 1) |-> comments[IF j < i THEN j ELSE j + 1]]
  /\ UNCHANGED <<content, runs, made, hand>>

Next ==
  \/ Edit \/ SyncTemplates \/ FixTitles
  \/ \E n \in Pushes : \/ Lint(n) \/ SyncList(n) \/ SyncWrite(n) \/ Hooks(n)
                       \/ HintList(n) \/ HintWrite(n) \/ ApiFails(n)
  \/ HandList \/ HandWrite \/ PostComment \/ DeleteComment

Spec == Init /\ [][Next]_vars

-----------------------------------------------------------------------------
(* Properties. *)

\* Every variable has its type.
TypeOK ==
  /\ content \in Seq(Content) /\ Len(content) \in 1..MaxPushes
  /\ runs \in Seq(Run) /\ Len(runs) = Len(content)
  /\ hand \in Run /\ made \in 0..MaxComments
  /\ comments \in Seq(Comment)

\* A script keeps one comment: where there are two with its marker, the younger
\* was made by a script that had listed the comments before the older was
\* written (post_or_update_comment is not atomic), or by one that was shown a
\* full page and looked at no second one.
DuplicateHasCause ==
  \A i, j \in DOMAIN comments :
    i < j /\ comments[i].marker = comments[j].marker /\ comments[i].marker # "none"
      => comments[i].id > comments[j].saw \/ comments[j].page = PageSize

\* The aggregated comment lists the hooks that fail on the push it was last
\* written for, whether the hooks' step ran, failed, or was skipped because
\* the templates are out of sync; and it is not written for a push that passes.
SaysWhatFailed ==
  \A i \in DOMAIN comments :
    comments[i].marker = "pre-commit-aggregated-suggestions" =>
      /\ comments[i].hooks = FailingHooks(content[comments[i].of])
      /\ \/ comments[i].hooks # {}
         \/ ~content[comments[i].of].noted
         \/ ~(StdLinks \subseteq content[comments[i].of].links)

\* Doing what the comment on the templates asks for is enough: the next run's
\* dry run finds nothing left to do, and no link that could be read is lost
\* (merge_hook_links does not overwrite).
SyncSettles ==
  [][SyncTemplates =>
       LET c == content[Len(content)]  d == content'[Len(content')] IN
         /\ d.noted /\ StdLinks \subseteq d.links /\ d.readable
         /\ c.readable => c.links \subseteq d.links]_vars

\* The variables keep their types, what the comments tell is right, and doing
\* what they ask for is enough.
CommentsHelp == [](TypeOK /\ SaysWhatFailed) /\ SyncSettles
=============================================================================

------------------------------ MODULE ChatRepo ------------------------------
(***************************************************************************)
(* What the two chat bots of x-cli share on GitHub: the default branch with *)
(* the sessions and the proposed patches, the branches the bridge pushes,  *)
(* the pull requests and their labels.  A patch is a model value with a    *)
(* size, the paths it names and whether it holds something like a secret.  *)
(***************************************************************************)
EXTENDS Naturals, Sequences, SequencesExt

CONSTANTS
    Threads,                            \* issues and pull requests with a chat
    Patches, PatchLines, PatchPaths,    \* what the model may propose
    Secretive,                          \* patches with a secret-like token
    FailsLint, SrsPaths,                \* patches lint_srs_29148.py fails; docs/srs/
    AllowedPaths, MaxLines,             \* CODEX_ALLOWED_GLOBS, CODEX_MAX_LINES
    EarlierPatches, EarlierPrs          \* what earlier runs and authors left

Labels == {"codex-proposal", "needs-human-review", "codex-reviewed"}
PrHead == [rev : Nat, secret : BOOLEAN]
PullRequest == [thread : Threads \cup {"human"}, pid : Nat, patch : Patches,
                labels : SUBSET Labels, head : PrHead]

\* Earlier pull requests are those of authors, and not reviewed yet.
ASSUME EarlierAssumption ==
    /\ "human" \notin Threads
    /\ EarlierPatches \in [Threads -> Seq(Patches)]
    /\ EarlierPrs \in Seq(PullRequest)
    /\ \A n \in DOMAIN EarlierPrs : /\ EarlierPrs[n].thread = "human"
                                    /\ "codex-reviewed" \notin EarlierPrs[n].labels

VARIABLES
    repo,       \* default branch: rev, and a session and patches for each thread
    branches,   \* pushed branches codex/<thread>-<proposal>
    prs         \* pull requests, by number

\* validate_patch_text; which of the checks failed is only in the message.
Accepted(d) ==
    /\ PatchLines[d] <= MaxLines
    /\ PatchPaths[d] # {}
    /\ PatchPaths[d] \subseteq AllowedPaths
    /\ d \notin Secretive

NoSession == [status |-> "none", msgs |-> <<>>]

RepoInit ==
    /\ repo = [rev |-> 0, sessions |-> [t \in Threads |-> NoSession],
               patches |-> EarlierPatches]
    /\ branches = {}
    /\ prs = EarlierPrs

Numbers == DOMAIN prs
WithLabels(n, labels) == prs' = [prs EXCEPT ![n].labels = @ \cup labels]
=============================================================================

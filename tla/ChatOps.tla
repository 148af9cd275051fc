------------------------------ MODULE ChatOps ------------------------------
(***************************************************************************)
(* The bridge and the reviewer on one repository: the bridge opens the pull *)
(* requests that the reviewer criticises, under the label it asks for, and  *)
(* both push to branches that the other has checked out.                   *)
(***************************************************************************)
EXTENDS CodexBridge, ReviewerBridge, FiniteSets

CONSTANT MaxRuns        \* bound: runs of the two, in all

vars == <<repo, branches, prs, marked, run, cache, posted, saved, rev>>

Init == RepoInit /\ BridgeInit /\ ReviewerInit

Begun == Cardinality({w \in Runs : ~At(w, "idle")}) + Cardinality({v \in Reviews : ~RAt(v, "idle")})

Bridge(w) ==
    /\ At(w, "idle") => Begun < MaxRuns
    /\ BridgeStep(w)
    /\ UNCHANGED <<cache, posted, saved, rev>>

Reviewer(v) ==
    /\ RAt(v, "idle") => Begun < MaxRuns
    /\ ReviewerStep(v)
    /\ UNCHANGED <<marked, run>>

Others ==
    \/ \E t \in Threads : Mark(t) /\ UNCHANGED <<cache, posted, saved, rev>>
    \/ \E n \in Numbers : PushHead(n) /\ UNCHANGED <<marked, run>>

Next == (\E w \in Runs : Bridge(w)) \/ (\E v \in Reviews : Reviewer(v)) \/ Others

Spec == Init /\ [][Next]_vars

TypeOK ==
    /\ repo \in [rev : Nat, sessions : [Threads -> Session], patches : [Threads -> Seq(Patches)]]
    /\ branches \subseteq [thread : Threads, pid : Nat \ {0}]
    /\ prs \in Seq(PullRequest)
    /\ BridgeTypeOK /\ ReviewerTypeOK

\* Every variable has its type, and what the reviewer records follows what it
\* has posted.
RecordsAreTrue == TypeOK /\ RecordFollowsReview
=============================================================================

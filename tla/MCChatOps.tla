----------------------------- MODULE MCChatOps -----------------------------
(* One thread, which has a proposal, and a pull request of an author.  The  *)
(* bridge serves two comments and the reviewer runs twice; a clone keeps   *)
(* the inputs of the first run for the second.                             *)
EXTENDS ChatOps, TLC

CONSTANTS w1, w2, v1, v2, small, vague, leaky

MCRuns == {w1, w2}
MCReviews == {v1, v2}
MCThreads == {"7"}
MCPatches == {small, vague, leaky}
MCPatchLines == [d \in MCPatches |-> 2]
MCPatchPaths == [d \in MCPatches |-> {"docs/srs"}]
MCEarlierPatches == [t \in MCThreads |-> <<small>>]
MCEarlierPrs == <<[thread |-> "human", pid |-> 0, patch |-> small, labels |-> {},
                   head |-> [rev |-> 0, secret |-> FALSE]]>>

Say(verb, arg) == [verb |-> verb, arg |-> arg, actor |-> "maintainer", thread |-> "7",
                   jobToken |-> TRUE]
MCComments == {Say("say", 0), Say("propose", 0), Say("apply", 0), Say("apply", 1),
               Say("init", 0), Say("end", 0), [Say("apply", 0) EXCEPT !.jobToken = FALSE]}

Ask(event, where, flags) == [pr |-> 1, event |-> event, where |-> where, flags |-> flags]
MCRequests == {Ask("comment", "ci", {}), Ask("dispatch", "head", {"freezeInputs"}),
               [Ask("pull_request", "ci", {}) EXCEPT !.pr = 2]}
Sym == Permutations(MCRuns) \cup Permutations(MCReviews)
=============================================================================

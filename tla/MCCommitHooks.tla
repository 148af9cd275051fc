--------------------------- MODULE MCCommitHooks ---------------------------
(* Three attempts; a requirement with one specification, one that a second   *)
(* file mentions, one that is only in the traceability file, and one nobody  *)
(* knows.  A short summary has room for every token, a long one for none.    *)
EXTENDS CommitHooks

MCBases == {"short", "long"}
MCBaseLen == [short |-> 40, long |-> 50]
MCTags == {"perf"}
MCTagsLen == [tags \in SUBSET MCTags |-> 5 * Cardinality(tags)]
MCIds == {"one", "two", "traced", "stray"}
MCFiles == {"a", "b"}
MCIdsIn == [a |-> {"one", "two"}, b |-> {"two"}]
MCTrace == {<<"one", "a">>, <<"traced", "gone">>}

MCEnvironments == {[r |-> 0, tags |-> {}], [r |-> 3, tags |-> {"perf"}]}

Issue(base, labels, ids) == [number |-> 1, base |-> base, labels |-> labels, ids |-> ids]
MCIssues == {Issue("short", {"impl", "bug"}, {"one", "two"}), Issue("long", {"spec"}, {"traced"})}

Draft(base, form, refs) ==
    [base |-> base, tokens |-> NoTokens, form |-> form, trailer |-> {},
     meta |-> [type |-> "impl", refs |-> refs, issue |-> 1]]
MCDrafts == {Draft("short", "full", {<<"two", 0>>, <<"stray", 0>>}), Draft("short", "merge", {})}
=============================================================================

--------------------------- MODULE MCRulesEngine ---------------------------
(* Five pull requests, two components and a path of none; thresholds scaled *)
(* down so that two failing pull requests make a rule.                      *)
EXTENDS RulesEngine

CONSTANTS w1, w2

MCProcs == {w1, w2}
MCPrs == 1 .. 5
MCPaths == {"ui", "io", "misc"}
MCGlobs == <<<<"c1", {"ui"}>>, <<"c2", {"ui", "io"}>>>>
MCTests == {"t"}
MCCommands == {"test c1", "test c1 -v", "test c2"}
MCCommandOf == [c1 |-> "test c1"]
MCGeneric == [t |-> "test c2"]
MCCovers == {<<c, c>> : c \in MCCommands} \cup {<<"test c1 -v", "test c1">>}
MCFileConfig == [window_days |-> 0, min_occurrences |-> 2, alpha |-> Ratio(1, 3)]

\* Pull request 1 changed the UI and failed, 2 changed something else and
\* failed too; 3 and 5 passed.
MCEarlierFiles == [p \in MCPrs |-> CASE p = 1 -> {"ui"} [] p = 2 -> {"io"} [] p = 4 -> {}
                                     [] OTHER -> {"misc"}]
Earlier(p, path, status) ==
    [pr |-> p, test |-> "t", component |-> ComponentOf[path], status |-> status, day |-> 0]
MCEarlierEvents == SetToBag({Earlier(1, "ui", "failed"), Earlier(2, "ui", "failed"),
                             Earlier(3, "ui", "passed"), Earlier(5, "ui", "passed")})

Fail == [test |-> "t", hint |-> "ui", outcome |-> "error"]
Pass == [test |-> "t", hint |-> "ui", outcome |-> "passed"]
Stray == [test |-> "t", hint |-> "misc", outcome |-> "failed"]
Call(cmd, args) == [cmd |-> cmd] @@ args @@ Default

Full == Call("run-workflow", [pr |-> 4, paths |-> {"ui"}, results |-> {Fail}, prune |-> TRUE,
             manifest |-> {"test c1 -v"}, fail_on_violation |-> TRUE, telemetry |-> TRUE,
             memory |-> TRUE])
Unrun == Call("run-workflow", [pr |-> 4, paths |-> {"ui", "io"}, results |-> {Fail, Stray},
              manifest |-> {"test c2"}, fail_on_violation |-> TRUE, telemetry |-> TRUE])
Lenient == Call("run-workflow", [pr |-> 4, paths |-> {"ui"}, results |-> {Fail}, prune |-> TRUE,
                manifest |-> {"test c2"}, telemetry |-> TRUE])
Passing == Call("run-workflow", [pr |-> 3, paths |-> {"ui"}, results |-> {Pass}, prune |-> TRUE])
Listed == Call("run-workflow", [pr |-> 5, results |-> {Pass}, prune |-> TRUE, docs |-> TRUE])
Python == Call("ingest-tests", [pr |-> 4, format |-> "pytest-json", results |-> {Fail}])
Gate == Call("check-compliance", [pr |-> 1, manifest |-> {"test c1"}])
Warn == Call("emit-warnings", [pr |-> 1, telemetry |-> TRUE, require_any |-> TRUE, manifest |-> {}])
BadArgs == Call("emit-warnings", [feedback |-> TRUE])
MCCalls == {Full, Unrun, Lenient, Passing, Listed, Python, Gate, Warn, BadArgs,
            Call("prune", Default), Call("update-docs", Default), Call("export", Default),
            Call("memory", Default), Call("analyze", Default),
            Call("ingest-tests", [pr |-> 4, results |-> {Fail}]),
            Call("record-pr", [pr |-> 3, paths |-> {"ui"}])}
Sym == Permutations(MCProcs)
=============================================================================

----------------------------- MODULE MCTestGates -----------------------------
(* Four requirements, two pull requests. *)
EXTENDS TestGates, TLC

PrSymmetry == Permutations(Prs)
MCRows == {"c", "d", "h", "m"}
MCFiles == {"a", "b", "spare", "trw"}
RowOf(priority, test) ==
  [priority |-> priority, test |-> test, procedure |-> "trw", code |-> "b",
   model |-> "tm", item |-> TRUE]
MCFirstTree ==
  [header |-> TRUE, files |-> MCFiles,
   rtm |-> [r \in MCRows |->
     CASE r \in {"c", "d"} -> RowOf("critical", "a")
       [] r = "h" -> RowOf("high", "trw")
       [] OTHER   -> RowOf("medium", "b")]]
Cell(R, f, v) == [kind |-> "cell", rows |-> R, field |-> f, to |-> v]
Delete(f) == [kind |-> "delete", file |-> f]
MCChanges ==
  {Cell({"m"}, "test", Blank), Cell({"m"}, "model", Blank), Cell({"c"}, "test", Outside),
   Cell({"c", "d"}, "test", "spare"), Delete("spare"), Delete("trw"), [kind |-> "header"]}
MCBaseline == [k \in {"load", "save"} |-> IF k = "load" THEN "some" ELSE "bad"]
Sample(l, s) == [file |-> "list", value |-> [k \in {"load", "save"} |-> IF k = "load" THEN l ELSE s]]
MCPerfInputs ==
  {[Sample("absent", "absent") EXCEPT !.file = "missing"], Sample("over", "within"),
   Sample("nan", "over"), Sample("within", "absent")}
Ran(x, y) == [file |-> "list", status |-> [a \in {"x64", "x86"} |-> IF a = "x64" THEN x ELSE y]]
MCPortInputs ==
  {[Ran("absent", "absent") EXCEPT !.file = "notList"], Ran("pass", "fail"), Ran("skipped", "bad")}
=============================================================================

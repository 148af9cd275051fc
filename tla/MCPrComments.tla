---------------------------- MODULE MCPrComments ----------------------------
(* Two pushes, so that two runs and a script run by hand overlap; a page of  *)
(* two comments, so that a third comment is out of sight; templates in sync, *)
(* out of sync, and with a links file that does not parse.                   *)
EXTENDS PrComments

MCStdLinks == {"actionlint"}

Pushed(problems, noted, links, readable) ==
    [problems |-> problems, noted |-> noted, links |-> links, readable |-> readable]
MCFirstContent == {Pushed({"srs", "spaces"}, TRUE, {"actionlint", "own"}, TRUE),
                   Pushed({"agent"}, FALSE, {"own"}, TRUE)}
MCEditedContent == {Pushed({"srs"}, TRUE, {"own"}, FALSE)}
=============================================================================

------------------------- MODULE RulesEngineProofs -------------------------
(***************************************************************************)
(* Proofs about RulesEngine, for any number of processes, any commands,    *)
(* components, tests and thresholds, and any earlier contents of the       *)
(* tables.                                                                 *)
(***************************************************************************)
EXTENDS RulesEngine, SequenceTheorems, FiniteSetTheorems, TLAPS

-----------------------------------------------------------------------------
(* What a process may hold *)

Codes == {"none", "0", "1", "2", "error", "killed"}
Places == {"start", "rows", "events", "next", "touched", "failed", "universe", "upsert",
           "deactivate", "guidance", "load", "truncate", "fill", "stage", "total"}
Candidates == [rule : Rules, support : Nat \ {0}]
Tables == [rule : Rules \cup {<<>>}, cutoff : Nat, touched : SUBSET Prs, failed : SUBSET Prs]
Process == [call : Calls \cup {NoCall}, todo : Seq(Steps), at : Places,
            left : SUBSET (Paths \cup Result \cup Rules \cup Components),
            picked : SUBSET (Candidates \cup Rules), table : Tables,
            buf : Seq(Procs \cup Entries \cup Parts \cup Nat), exit : Codes, alone : BOOLEAN]

\* What a file holds when it is whole.
ContentOf(f) ==
    IF f = "memory" THEN Seq(Procs) ELSE IF f = "docs" THEN Seq(Parts) ELSE Seq(Entries)

-----------------------------------------------------------------------------
(* Scripts *)

\* Where a step may stand in run-workflow: update-docs at two places.
Low(s) ==
    CASE s = "record-pr" -> 1 [] s = "ingest-tests" -> 2 [] s = "analyze" -> 3
      [] s = "update-docs" -> 4 [] s = "prune" -> 5 [] s = "telemetry" -> 8
      [] s = "summary" -> 9 [] s = "memory" -> 10 [] OTHER -> 7
High(s) == IF s = "update-docs" THEN 6 ELSE Low(s)

Ordered(t) == \A i, j \in DOMAIN t : i < j => Low(t[i]) < High(t[j])
Paired(t) == \A i \in DOMAIN t : t[i] = "telemetry" => i + 1 \in DOMAIN t /\ t[i + 1] = "summary"
Holds(t, x) == \E i \in DOMAIN t : t[i] = x
TodoOK(t) == t \in Seq(Steps) /\ Ordered(t) /\ Paired(t)

\* A part of a script, whose steps may stand from m to n.
Block(t, m, n) == TodoOK(t) /\ \A i \in DOMAIN t : m <= High(t[i]) /\ Low(t[i]) <= n

LEMMA ConcatOfBlocks ==
    ASSUME NEW s, NEW t, NEW m1 \in Nat, NEW n1 \in Nat, NEW m2 \in Nat, NEW n2 \in Nat,
           NEW m \in Nat, NEW n \in Nat, Block(s, m1, n1), Block(t, m2, n2), n1 < m2,
           m <= m1, m <= m2, n1 <= n, n2 <= n
    PROVE  Block(s \o t, m, n) /\ \A x : Holds(s \o t, x) <=> Holds(s, x) \/ Holds(t, x)
<1> DEFINE u == s \o t
<1>1. s \in Seq(Steps) /\ t \in Seq(Steps) /\ Len(s) \in Nat /\ Len(t) \in Nat
      /\ DOMAIN s = 1..Len(s) /\ DOMAIN t = 1..Len(t)
  BY LenProperties DEF Block, TodoOK
<1>2. /\ u \in Seq(Steps) /\ Len(u) = Len(s) + Len(t) /\ DOMAIN u = 1..Len(u)
      /\ \A i \in 1..Len(s) : u[i] = s[i]
      /\ \A i \in 1..Len(t) : u[Len(s) + i] = t[i]
  BY <1>1, ConcatProperties, LenProperties
<1> HIDE DEF u
<1>3. \A i \in DOMAIN u : \/ i \in DOMAIN s /\ u[i] = s[i]
                          \/ i > Len(s) /\ i - Len(s) \in DOMAIN t /\ u[i] = t[i - Len(s)]
  <2> TAKE i \in DOMAIN u
  <2>1. CASE i <= Len(s)
    BY <1>1, <1>2, <2>1
  <2>2. CASE i > Len(s)
    <3>1. i - Len(s) \in 1..Len(t) /\ Len(s) + (i - Len(s)) = i
      BY <1>1, <1>2, <2>2
    <3>2. QED
      BY <1>1, <1>2, <2>2, <3>1
  <2>3. QED
    BY <1>1, <1>2, <2>1, <2>2
<1>4. \A x : Low(x) \in Nat /\ High(x) \in Nat
  BY DEF Low, High
<1>5. /\ \A i \in DOMAIN s : m1 <= High(s[i]) /\ Low(s[i]) <= n1
      /\ \A i \in DOMAIN t : m2 <= High(t[i]) /\ Low(t[i]) <= n2
      /\ Ordered(s) /\ Ordered(t) /\ Paired(s) /\ Paired(t)
  BY DEF Block, TodoOK
<1>6. \A i \in DOMAIN u : m <= High(u[i]) /\ Low(u[i]) <= n
  BY <1>3, <1>4, <1>5
<1>7. Ordered(u)
  <2> SUFFICES ASSUME NEW i \in DOMAIN u, NEW j \in DOMAIN u, i < j PROVE Low(u[i]) < High(u[j])
    BY DEF Ordered
  <2>1. CASE i \in DOMAIN s /\ u[i] = s[i] /\ j \in DOMAIN s /\ u[j] = s[j]
    BY <1>5, <2>1 DEF Ordered
  <2>2. CASE i \in DOMAIN s /\ u[i] = s[i] /\ j > Len(s) /\ j - Len(s) \in DOMAIN t /\ u[j] = t[j - Len(s)]
    BY <1>4, <1>5, <2>2
  <2>3. CASE i > Len(s) /\ i - Len(s) \in DOMAIN t /\ u[i] = t[i - Len(s)]
    <3>1. j > Len(s) /\ j - Len(s) \in DOMAIN t /\ u[j] = t[j - Len(s)] /\ i - Len(s) < j - Len(s)
      BY <1>1, <1>2, <1>3, <2>3
    <3>2. QED
      BY <1>5, <2>3, <3>1 DEF Ordered
  <2>4. QED
    BY <1>3, <2>1, <2>2, <2>3
<1>8. Paired(u)
  <2> SUFFICES ASSUME NEW i \in DOMAIN u, u[i] = "telemetry" PROVE i + 1 \in DOMAIN u /\ u[i + 1] = "summary"
    BY DEF Paired
  <2>1. CASE i \in DOMAIN s /\ u[i] = s[i]
    <3>1. i + 1 \in DOMAIN s /\ s[i + 1] = "summary"
      BY <1>5, <2>1 DEF Paired
    <3>2. QED
      BY <1>1, <1>2, <3>1
  <2>2. CASE i > Len(s) /\ i - Len(s) \in DOMAIN t /\ u[i] = t[i - Len(s)]
    <3>1. (i - Len(s)) + 1 \in DOMAIN t /\ t[(i - Len(s)) + 1] = "summary"
      BY <1>5, <2>2 DEF Paired
    <3>2. Len(s) + ((i - Len(s)) + 1) = i + 1
      BY <1>1, <1>2
    <3>3. QED
      BY <1>1, <1>2, <3>1, <3>2
  <2>3. QED
    BY <1>3, <2>1, <2>2
<1>9. \A x : Holds(u, x) <=> Holds(s, x) \/ Holds(t, x)
  <2> SUFFICES ASSUME NEW x PROVE Holds(u, x) <=> Holds(s, x) \/ Holds(t, x)
    OBVIOUS
  <2>1. Holds(u, x) => Holds(s, x) \/ Holds(t, x)
    BY <1>3 DEF Holds
  <2>2. Holds(s, x) => Holds(u, x)
    BY <1>1, <1>2 DEF Holds
  <2>3. ASSUME NEW i \in DOMAIN t, t[i] = x PROVE Holds(u, x)
    <3>1. Len(s) + i \in DOMAIN u /\ u[Len(s) + i] = x
      BY <1>1, <1>2, <2>3
    <3>2. QED
      BY <3>1 DEF Holds
  <2>4. QED
    BY <2>1, <2>2, <2>3 DEF Holds
<1>10. QED
  BY <1>2, <1>6, <1>7, <1>8, <1>9 DEF u, Block, TodoOK

LEMMA NoBlock == \A m, n : Block(<<>>, m, n) /\ \A x : ~Holds(<<>>, x)
<1>1. <<>> \in Seq(Steps) /\ DOMAIN <<>> = {}
  BY EmptySeq
<1>2. QED
  BY <1>1 DEF Block, TodoOK, Ordered, Paired, Holds

LEMMA OneStepBlock ==
    ASSUME NEW x \in Steps, x # "telemetry"
    PROVE  Block(<<x>>, High(x), Low(x)) /\ \A y : Holds(<<x>>, y) <=> y = x
<1>1. <<x>> \in Seq(Steps) /\ DOMAIN <<x>> = {1} /\ <<x>>[1] = x
  OBVIOUS
<1>2. Low(x) \in Nat /\ High(x) \in Nat
  BY DEF Low, High
<1>3. QED
  BY <1>1, <1>2 DEF Block, TodoOK, Ordered, Paired, Holds

LEMMA TelemetryBlock ==
    LET t == <<"telemetry", "summary">>
    IN  Block(t, 8, 9) /\ \A y : Holds(t, y) <=> y \in {"telemetry", "summary"}
<1> DEFINE t == <<"telemetry", "summary">>
<1>1. t \in Seq(Steps) /\ DOMAIN t = {1, 2} /\ t[1] = "telemetry" /\ t[2] = "summary"
  BY DEF Steps
<1> HIDE DEF t
<1>2. Low("telemetry") = 8 /\ High("telemetry") = 8 /\ Low("summary") = 9 /\ High("summary") = 9
  BY DEF Low, High
<1>3. Ordered(t) /\ Paired(t) /\ \A i \in DOMAIN t : 8 <= High(t[i]) /\ Low(t[i]) <= 9
  BY <1>1, <1>2 DEF Ordered, Paired
<1>4. \A y : Holds(t, y) <=> y \in {"telemetry", "summary"}
  BY <1>1 DEF Holds
<1>5. QED
  BY <1>1, <1>3, <1>4 DEF t, Block, TodoOK

LEMMA OptBlock ==
    ASSUME NEW b \in BOOLEAN, NEW t, NEW m, NEW n, Block(t, m, n)
    PROVE  Block(Opt(b, t), m, n) /\ \A x : Holds(Opt(b, t), x) <=> b /\ Holds(t, x)
BY NoBlock DEF Opt

LEMMA WorkflowIs ==
    ASSUME NEW c \in CallType
    PROVE  /\ TodoOK(Workflow(c)) /\ Holds(Workflow(c), "analyze") /\ Holds(Workflow(c), "emit-warnings")
           /\ c.prune => Holds(Workflow(c), "prune")
<1> DEFINE a == <<"record-pr", "ingest-tests", "analyze">>
           docs == <<"update-docs">>
           b == Opt(c.docs, docs)
           d == Opt(c.prune, <<"prune">> \o b)
           e == <<"emit-warnings">>
           t == Telemetry(c)
           y == Opt(c.memory, <<"memory">>)
<1>1. /\ {"record-pr", "ingest-tests", "analyze", "update-docs", "prune", "emit-warnings", "memory"} \subseteq Steps
      /\ c.docs \in BOOLEAN /\ c.prune \in BOOLEAN /\ c.telemetry \in BOOLEAN /\ c.memory \in BOOLEAN
  BY DEF Steps, Single, CallType
<1>2. /\ Low("record-pr") = 1 /\ High("record-pr") = 1 /\ Low("ingest-tests") = 2 /\ High("ingest-tests") = 2
      /\ Low("analyze") = 3 /\ High("analyze") = 3 /\ Low("update-docs") = 4 /\ High("update-docs") = 6
      /\ Low("prune") = 5 /\ High("prune") = 5 /\ Low("emit-warnings") = 7 /\ High("emit-warnings") = 7
      /\ Low("memory") = 10 /\ High("memory") = 10
  BY DEF Low, High
<1>3. Block(a, 1, 3) /\ Holds(a, "analyze")
  <2>1. a \in Seq(Steps) /\ DOMAIN a = {1, 2, 3} /\ a[1] = "record-pr" /\ a[2] = "ingest-tests" /\ a[3] = "analyze"
    BY <1>1
  <2> HIDE DEF a
  <2>2. Ordered(a) /\ Paired(a) /\ \A i \in DOMAIN a : 1 <= High(a[i]) /\ Low(a[i]) <= 3
    BY <1>2, <2>1 DEF Ordered, Paired
  <2>3. QED
    BY <2>1, <2>2 DEF Block, TodoOK, Holds
<1>4. Block(b, 6, 4)
  BY <1>1, <1>2, OneStepBlock, OptBlock
<1>5. Block(d, 5, 5) /\ (c.prune => Holds(d, "prune"))
  <2>1. Block(<<"prune">>, 5, 5) /\ Holds(<<"prune">>, "prune")
    BY <1>1, <1>2, OneStepBlock
  <2> HIDE DEF b
  <2>2. Block(<<"prune">> \o b, 5, 5) /\ Holds(<<"prune">> \o b, "prune")
    BY <1>4, <2>1, ConcatOfBlocks
  <2>3. QED
    BY <1>1, <2>2, OptBlock
<1>6. Block(e, 7, 7) /\ Holds(e, "emit-warnings")
  BY <1>1, <1>2, OneStepBlock
<1>7. Block(t, 8, 9)
  BY <1>1, TelemetryBlock, OptBlock DEF Telemetry
<1>8. Block(y, 10, 10)
  BY <1>1, <1>2, OneStepBlock, OptBlock
<1>9. Workflow(c) = a \o b \o d \o e \o t \o y
  BY DEF Workflow
<1> HIDE DEF a, b, d, e, t, y
<1>10. Block(a \o b, 1, 4) /\ \A x : Holds(a \o b, x) <=> Holds(a, x) \/ Holds(b, x)
  BY <1>3, <1>4, ConcatOfBlocks
<1>11. Block(a \o b \o d, 1, 5) /\ \A x : Holds(a \o b \o d, x) <=> Holds(a \o b, x) \/ Holds(d, x)
  BY <1>5, <1>10, ConcatOfBlocks
<1>12. Block(a \o b \o d \o e, 1, 7) /\ \A x : Holds(a \o b \o d \o e, x) <=> Holds(a \o b \o d, x) \/ Holds(e, x)
  BY <1>6, <1>11, ConcatOfBlocks
<1>13. /\ Block(a \o b \o d \o e \o t, 1, 9)
       /\ \A x : Holds(a \o b \o d \o e \o t, x) <=> Holds(a \o b \o d \o e, x) \/ Holds(t, x)
  BY <1>7, <1>12, ConcatOfBlocks
<1>14. /\ Block(Workflow(c), 1, 10)
       /\ \A x : Holds(Workflow(c), x) <=> Holds(a \o b \o d \o e \o t, x) \/ Holds(y, x)
  BY <1>8, <1>9, <1>13, ConcatOfBlocks
<1>15. QED
  BY <1>3, <1>5, <1>6, <1>10, <1>11, <1>12, <1>13, <1>14 DEF Block

\* What the command line has started in the process runs in order.
LEMMA ScriptIs ==
    ASSUME NEW c \in Calls
    PROVE  /\ TodoOK(Script(c)) /\ Script(c) # <<>> /\ c # NoCall /\ c \in CallType
           /\ c.cmd = "run-workflow" =>
                 /\ Holds(Script(c), "analyze") /\ Holds(Script(c), "emit-warnings")
                 /\ c.prune => Holds(Script(c), "prune")
           /\ c.cmd = "check-compliance" => Script(c) = <<"check-compliance">>
<1>1. c \in CallType /\ c # NoCall
  BY CallsAssumption
<1>2. CASE c.cmd = "run-workflow"
  <2>1. Script(c) = Workflow(c)
    BY <1>2 DEF Script
  <2>2. Script(c) # <<>>
    BY <1>1, <2>1, WorkflowIs, NoBlock
  <2>3. QED
    BY <1>1, <1>2, <2>1, <2>2, WorkflowIs
<1>3. CASE c.cmd # "run-workflow"
  <2>1. c.cmd \in Steps /\ c.cmd # "telemetry" /\ Low(c.cmd) \in Nat /\ High(c.cmd) \in Nat
    BY <1>1, <1>3 DEF CallType, Steps, Single, Low, High
  <2>2. Block(<<c.cmd>>, High(c.cmd), Low(c.cmd)) /\ Holds(<<c.cmd>>, c.cmd)
    BY <2>1, OneStepBlock
  <2>3. CASE c.cmd = "emit-warnings"
    <3>1. Low(c.cmd) = 7 /\ High(c.cmd) = 7
      BY <2>3 DEF Low, High
    <3>2. c.telemetry \in BOOLEAN
      BY <1>1 DEF CallType
    <3>3. Block(Telemetry(c), 8, 9)
      BY <3>2, TelemetryBlock, OptBlock DEF Telemetry
    <3>4. Block(<<c.cmd>> \o Telemetry(c), 7, 9) /\ Holds(<<c.cmd>> \o Telemetry(c), c.cmd)
      BY <2>2, <3>1, <3>3, ConcatOfBlocks
    <3>5. Script(c) = <<c.cmd>> \o Telemetry(c)
      BY <2>3 DEF Script
    <3>6. QED
      BY <1>1, <2>3, <3>4, <3>5, NoBlock DEF Block
  <2>4. CASE c.cmd # "emit-warnings"
    <3>1. Script(c) = <<c.cmd>> \o <<>>
      BY <1>3, <2>4 DEF Script
    <3>2. <<c.cmd>> \o <<>> = <<c.cmd>>
      BY <2>1, ConcatEmptySeq
    <3>3. QED
      BY <1>1, <1>3, <2>2, <3>1, <3>2 DEF Block
  <2>5. QED
    BY <2>3, <2>4
<1>4. QED
  BY <1>2, <1>3

\* What is left of a script after its first step.
LEMMA RestOfScript ==
    ASSUME NEW t, TodoOK(t), t # <<>>
    PROVE  /\ Head(t) \in Steps /\ TodoOK(Tail(t))
           /\ \A x : Holds(t, x) <=> Head(t) = x \/ Holds(Tail(t), x)
           /\ Head(t) = "telemetry" => Tail(t) # <<>> /\ Head(Tail(t)) = "summary"
           /\ \A i \in DOMAIN Tail(t) : Low(Head(t)) < High(Tail(t)[i])
<1> DEFINE r == Tail(t)
<1>1. t \in Seq(Steps) /\ Len(t) \in Nat /\ Len(t) >= 1 /\ DOMAIN t = 1..Len(t)
  BY LenProperties, EmptySeq DEF TodoOK
<1>2. /\ Head(t) = t[1] /\ Head(t) \in Steps
      /\ r \in Seq(Steps) /\ Len(r) = Len(t) - 1 /\ \A i \in 1..Len(r) : r[i] = t[i + 1]
  BY <1>1, HeadTailProperties
<1>3. DOMAIN r = 1..Len(r)
  BY <1>2, LenProperties
<1> HIDE DEF r
<1>4. Ordered(r) /\ Paired(r)
  <2>1. ASSUME NEW i \in DOMAIN r, NEW j \in DOMAIN r, i < j PROVE Low(r[i]) < High(r[j])
    <3>1. i + 1 \in DOMAIN t /\ j + 1 \in DOMAIN t /\ i + 1 < j + 1
      BY <1>1, <1>2, <1>3, <2>1
    <3>2. QED
      BY <1>2, <1>3, <3>1 DEF TodoOK, Ordered
  <2>2. ASSUME NEW i \in DOMAIN r, r[i] = "telemetry" PROVE i + 1 \in DOMAIN r /\ r[i + 1] = "summary"
    <3>1. i + 1 \in DOMAIN t /\ t[i + 1] = "telemetry"
      BY <1>1, <1>2, <1>3, <2>2
    <3>2. i + 1 + 1 \in DOMAIN t /\ t[i + 1 + 1] = "summary"
      BY <3>1 DEF TodoOK, Paired
    <3>3. i + 1 \in DOMAIN r
      BY <1>1, <1>2, <1>3, <3>2
    <3>4. QED
      BY <1>2, <1>3, <3>2, <3>3
  <2>3. QED
    BY <2>1, <2>2 DEF Ordered, Paired
<1>5. \A x : Holds(t, x) <=> Head(t) = x \/ Holds(r, x)
  <2> SUFFICES ASSUME NEW x PROVE Holds(t, x) <=> Head(t) = x \/ Holds(r, x)
    OBVIOUS
  <2>1. ASSUME NEW i \in DOMAIN t, t[i] = x PROVE Head(t) = x \/ Holds(r, x)
    <3>1. CASE i = 1
      BY <1>2, <2>1, <3>1
    <3>2. CASE i # 1
      <4>1. i - 1 \in 1..Len(r) /\ (i - 1) + 1 = i
        BY <1>1, <1>2, <3>2
      <4>2. r[i - 1] = x
        BY <1>2, <2>1, <4>1
      <4>3. QED
        BY <1>3, <4>1, <4>2 DEF Holds
    <3>3. QED
      BY <3>1, <3>2
  <2>2. Head(t) = x => Holds(t, x)
    BY <1>1, <1>2 DEF Holds
  <2>3. ASSUME NEW i \in DOMAIN r, r[i] = x PROVE Holds(t, x)
    <3>1. i + 1 \in DOMAIN t /\ t[i + 1] = x
      BY <1>1, <1>2, <1>3, <2>3
    <3>2. QED
      BY <3>1 DEF Holds
  <2>4. QED
    BY <2>1, <2>2, <2>3 DEF Holds
<1>6. Head(t) = "telemetry" => r # <<>> /\ Head(r) = "summary"
  <2> SUFFICES ASSUME Head(t) = "telemetry" PROVE r # <<>> /\ Head(r) = "summary"
    OBVIOUS
  <2>1. 2 \in DOMAIN t /\ t[2] = "summary"
    <3>1. 1 \in DOMAIN t /\ t[1] = "telemetry"
      BY <1>1, <1>2
    <3>2. 1 + 1 \in DOMAIN t /\ t[1 + 1] = "summary"
      BY <3>1 DEF TodoOK, Paired
    <3>3. QED
      BY <3>2
  <2>2. Len(r) >= 1 /\ r[1] = "summary"
    BY <1>1, <1>2, <2>1
  <2>3. r # <<>>
    BY <2>2, EmptySeq
  <2>4. QED
    BY <1>2, <2>2, <2>3, HeadTailProperties
<1>7. \A i \in DOMAIN r : Low(Head(t)) < High(r[i])
  <2> TAKE i \in DOMAIN r
  <2>1. i + 1 \in DOMAIN t /\ 1 \in DOMAIN t /\ 1 < i + 1
    BY <1>1, <1>2, <1>3
  <2>2. QED
    BY <1>2, <1>3, <2>1 DEF TodoOK, Ordered
<1>8. QED
  BY <1>2, <1>4, <1>5, <1>6, <1>7 DEF TodoOK, r

\* Nothing is left to do twice.
LEMMA HeadIsGone ==
    ASSUME NEW t, TodoOK(t), t # <<>>
    PROVE  /\ Head(t) # "update-docs" => ~Holds(Tail(t), Head(t))
           /\ \A x \in {"record-pr", "ingest-tests"} :
                 Low(Head(t)) >= 3 => ~Holds(Tail(t), x)
<1>1. \A i \in DOMAIN Tail(t) : Low(Head(t)) < High(Tail(t)[i])
  BY RestOfScript
<1>2. Low(Head(t)) \in Nat
  BY DEF Low
<1>3. Head(t) # "update-docs" => High(Head(t)) = Low(Head(t))
  BY DEF High
<1>4. High("record-pr") = 1 /\ High("ingest-tests") = 2
  BY DEF High, Low
<1>5. QED
  BY <1>1, <1>2, <1>3, <1>4 DEF Holds

-----------------------------------------------------------------------------
(* Types *)

Stages(h) ==
    CASE h = "record-pr" -> {"start", "rows"} [] h = "ingest-tests" -> {"start", "events"}
      [] h = "analyze" -> {"start", "next", "touched", "failed", "universe", "upsert"}
      [] h = "prune" -> {"start", "next", "touched", "failed", "universe", "deactivate"}
      [] h = "telemetry" -> {"start", "guidance", "load", "truncate", "fill"}
      [] h \in {"summary", "memory"} -> {"start", "truncate", "fill", "stage"}
      [] h = "update-docs" -> {"start", "load", "truncate", "fill"}
      [] h = "export" -> {"start", "total"}
      [] OTHER -> {"start", "guidance"}

\* What a process holds in the middle of step h.
StepOK(p, h) ==
    /\ p.at \in Stages(h)
    /\ p.at = "rows" => p.left \subseteq Paths
    /\ p.at = "events" => p.left \subseteq p.call.results
    /\ h \in {"analyze", "prune"} => p.left \subseteq Rules
    /\ h = "analyze" => p.picked \subseteq Candidates
    /\ p.at \in {"touched", "failed", "universe", "deactivate"} => p.table.rule \in Rules
    /\ p.at = "guidance" => p.left \subseteq Components
    /\ p.at = "total" => \E n \in Nat : p.buf = <<n>>
    /\ h = "telemetry" /\ p.at = "load" => \E e \in Entries : p.buf = <<e>>
    /\ p.at \in {"truncate", "fill"} => /\ p.buf \in ContentOf(FileOf(h))
                                        /\ h # "summary" => p.buf # <<>>

ProcOK(p) ==
    /\ p \in Process /\ TodoOK(p.todo)
    /\ p.exit = "none" <=> p.call = NoCall \/ p.todo # <<>>
    /\ p.call = NoCall => p.todo = <<>>
    /\ p.todo # <<>> => /\ StepOK(p, Head(p.todo))
                        /\ p.call.cmd = "check-compliance" => p.todo = <<"check-compliance">>

LEMMA IdleOK == ProcOK(Idle)
<1>1. TodoOK(<<>>) /\ <<>> \in Seq(Steps) /\ <<>> \in Seq(Procs \cup Entries \cup Parts \cup Nat)
  BY NoBlock, EmptySeq DEF Block
<1>2. Table0 \in Tables
  BY DEF Table0, Tables
<1>3. Idle \in Process
  BY <1>1, <1>2 DEF Idle, Process, Codes, Places
<1>4. QED
  BY <1>1, <1>3 DEF Idle, ProcOK

LEMMA ExitsIs ==
    ASSUME NEW p \in Process, NEW code \in Codes \ {"none"}, p.call # NoCall
    PROVE  LET q == Exits(p, code)
           IN  /\ ProcOK(q) /\ q.todo = <<>> /\ q.call = p.call /\ q.alone = p.alone /\ q.exit = code
               /\ q.at = "start" /\ q.left = {} /\ q.picked = {} /\ q.table = Table0 /\ q.buf = <<>>
<1>1. Idle \in Process /\ TodoOK(<<>>)
  BY IdleOK DEF ProcOK, Idle
<1>2. Exits(p, code) \in Process
  BY <1>1 DEF Exits, Process
<1>3. QED
  BY <1>1, <1>2 DEF Exits, Idle, ProcOK

\* The step that ends need not be the one the process was in.
LEMMA NextStepIs ==
    ASSUME NEW p \in Process, TodoOK(p.todo), p.todo # <<>>, p.exit = "none", p.call # NoCall,
           p.call.cmd = "check-compliance" => Tail(p.todo) = <<>>
    PROVE  LET q == Done(p)
           IN  /\ ProcOK(q) /\ q.todo = Tail(p.todo) /\ q.call = p.call /\ q.alone = p.alone
               /\ q.exit = (IF Tail(p.todo) = <<>> THEN "0" ELSE "none")
               /\ q.at = "start" /\ q.left = {} /\ q.picked = {} /\ q.table = Table0 /\ q.buf = <<>>
<1> DEFINE q == [p EXCEPT !.todo = Tail(p.todo), !.at = "start", !.left = {}, !.picked = {},
                          !.table = Table0, !.buf = <<>>]
<1>1. p \in Process /\ p.exit = "none" /\ p.call # NoCall /\ p.call \in Calls
  BY DEF Process
<1>2. TodoOK(Tail(p.todo)) /\ Tail(p.todo) \in Seq(Steps)
  BY RestOfScript DEF TodoOK
<1>3. Table0 \in Tables /\ <<>> \in Seq(Procs \cup Entries \cup Parts \cup Nat)
  BY DEF Table0, Tables
<1>4. /\ q \in Process /\ q.todo = Tail(p.todo) /\ q.call = p.call /\ q.alone = p.alone /\ q.exit = "none"
      /\ q.at = "start" /\ q.left = {} /\ q.picked = {} /\ q.table = Table0 /\ q.buf = <<>>
  BY <1>1, <1>2, <1>3 DEF Process, Places
<1> HIDE DEF q
<1>5. Done(p) = IF q.todo = <<>> THEN Exits(q, "0") ELSE q
  BY DEF Done, q
<1>6. CASE q.todo = <<>>
  <2>1. "0" \in Codes \ {"none"}
    BY DEF Codes
  <2>2. /\ ProcOK(Exits(q, "0")) /\ Exits(q, "0").todo = <<>> /\ Exits(q, "0").call = q.call
        /\ Exits(q, "0").alone = q.alone /\ Exits(q, "0").exit = "0"
        /\ Exits(q, "0").at = "start" /\ Exits(q, "0").left = {} /\ Exits(q, "0").picked = {}
        /\ Exits(q, "0").table = Table0 /\ Exits(q, "0").buf = <<>>
    BY <1>1, <1>4, <2>1, ExitsIs
  <2>3. Done(p) = Exits(q, "0") /\ Tail(p.todo) = <<>>
    BY <1>4, <1>5, <1>6
  <2>4. QED
    BY <1>4, <2>2, <2>3
<1>7. CASE q.todo # <<>>
  <2>1. Head(q.todo) \in Steps
    BY <1>2, <1>4, <1>7, RestOfScript
  <2>2. StepOK(q, Head(q.todo))
    BY <1>4 DEF StepOK, Stages
  <2>3. p.call.cmd # "check-compliance"
    BY <1>4, <1>7
  <2>4. ProcOK(q)
    BY <1>1, <1>2, <1>4, <1>7, <2>2, <2>3 DEF ProcOK
  <2>5. QED
    BY <1>4, <1>5, <1>7, <2>4
<1>8. QED
  BY <1>6, <1>7

LEMMA DoneIs ==
    ASSUME NEW p, ProcOK(p), p.todo # <<>>
    PROVE  LET q == Done(p)
           IN  /\ ProcOK(q) /\ q.todo = Tail(p.todo) /\ q.call = p.call /\ q.alone = p.alone
               /\ q.exit = (IF Tail(p.todo) = <<>> THEN "0" ELSE "none")
               /\ q.at = "start" /\ q.left = {} /\ q.picked = {} /\ q.table = Table0 /\ q.buf = <<>>
<1>1. /\ p \in Process /\ TodoOK(p.todo) /\ p.exit = "none" /\ p.call # NoCall
      /\ p.call.cmd = "check-compliance" => p.todo = <<"check-compliance">>
  BY DEF ProcOK
<1>2. Tail(<<"check-compliance">>) = <<>>
  OBVIOUS
<1>3. QED
  BY <1>1, <1>2, NextStepIs

\* A step that goes on.
LEMMA GoesOn ==
    ASSUME NEW p, ProcOK(p), p.todo # <<>>, NEW q \in Process,
           q.todo = p.todo, q.call = p.call, q.exit = p.exit, StepOK(q, Head(p.todo))
    PROVE  ProcOK(q)
BY DEF ProcOK

\* The loops of analyze and prune.
LEMMA LoopIs ==
    ASSUME NEW p, ProcOK(p), p.todo # <<>>, Head(p.todo) \in {"analyze", "prune"}
    PROVE  LET q == Loop(p)
           IN  /\ ProcOK(q) /\ q.call = p.call /\ q.alone = p.alone
               /\ \/ /\ p.left # {} /\ q.at = "next"
                     /\ q.todo = p.todo /\ q.left = p.left /\ q.picked = p.picked /\ q.table = p.table
                  \/ /\ p.left = {} /\ Head(p.todo) = "analyze" /\ p.picked # {} /\ q.at = "upsert"
                     /\ q.todo = p.todo /\ q.left = p.left /\ q.picked = p.picked /\ q.table = p.table
                  \/ /\ p.left = {} /\ (Head(p.todo) = "analyze" => p.picked = {})
                     /\ q = Done(p)
<1>1. p \in Process /\ StepOK(p, Head(p.todo))
  BY DEF ProcOK
<1>2. CASE p.left # {}
  <2> DEFINE q == [p EXCEPT !.at = "next"]
  <2>1. /\ q \in Process /\ q.call = p.call /\ q.alone = p.alone /\ q.at = "next" /\ q.exit = p.exit
        /\ q.todo = p.todo /\ q.left = p.left /\ q.picked = p.picked /\ q.table = p.table
    BY <1>1 DEF Process, Places
  <2>2. Loop(p) = q
    BY <1>2 DEF Loop
  <2> HIDE DEF q
  <2>3. StepOK(q, Head(p.todo))
    BY <1>1, <2>1 DEF StepOK, Stages
  <2>4. ProcOK(q)
    BY <2>1, <2>3, GoesOn
  <2>5. QED
    BY <1>2, <2>1, <2>2, <2>4
<1>3. CASE p.left = {} /\ Head(p.todo) = "analyze" /\ p.picked # {}
  <2> DEFINE q == [p EXCEPT !.at = "upsert"]
  <2>1. /\ q \in Process /\ q.call = p.call /\ q.alone = p.alone /\ q.at = "upsert" /\ q.exit = p.exit
        /\ q.todo = p.todo /\ q.left = p.left /\ q.picked = p.picked /\ q.table = p.table
    BY <1>1 DEF Process, Places
  <2>2. Loop(p) = q
    BY <1>3 DEF Loop
  <2> HIDE DEF q
  <2>3. StepOK(q, Head(p.todo))
    BY <1>1, <1>3, <2>1 DEF StepOK, Stages
  <2>4. ProcOK(q)
    BY <2>1, <2>3, GoesOn
  <2>5. QED
    BY <1>3, <2>1, <2>2, <2>4
<1>4. CASE p.left = {} /\ (Head(p.todo) = "analyze" => p.picked = {})
  <2>1. Loop(p) = Done(p)
    BY <1>4 DEF Loop
  <2>2. QED
    BY <1>4, <2>1, DoneIs
<1>5. QED
  BY <1>2, <1>3, <1>4

EventOK(e) == /\ e.pr \in Prs /\ e.test \in Tests /\ e.component \in Components \cup {"unknown"}
              /\ e.status \in {"passed", "failed"}
EventsOK(t) == IsABag(t) /\ IsFiniteSet(DOMAIN t) /\ \A e \in DOMAIN t : EventOK(e)

\* What a process knows to be in the tables.
InTables(p, P, G) ==
    p.todo # <<>> =>
        /\ p.at = "rows" => p.call.pr \in P
        /\ Head(p.todo) = "prune" =>
              /\ \A r \in p.left : G[r] # NoRow
              /\ p.at \in {"touched", "failed", "universe", "deactivate"} => G[p.table.rule] # NoRow

TablesOK == /\ day \in 0 .. MaxDay
            /\ prs \subseteq Prs /\ prFiles \in [Prs -> SUBSET Paths]
            /\ \A n \in Prs : prFiles[n] # {} => n \in prs
            /\ EventsOK(events) /\ guidance \in [Rules -> Rows \cup {NoRow}]
            /\ exported \in [failed : Nat, total : Nat]
FilesOK == /\ files = [f \in Files |-> files[f]] /\ kept = [f \in Files |-> kept[f]]
           /\ harmed \in [Files -> BOOLEAN]
           /\ \A f \in Files : files[f] \in ContentOf(f) \cup {Torn} /\ kept[f] \in ContentOf(f)
ProcsOK == /\ proc \in [Procs -> Process]
           /\ \A w \in Procs : ProcOK(proc[w]) /\ InTables(proc[w], prs, guidance)
TypeInv == TablesOK /\ FilesOK /\ ProcsOK

LEMMA OneMoves ==
    ASSUME ProcsOK, NEW w \in Procs, NEW q, Becomes(w, q), ProcOK(q), InTables(q, prs', guidance'),
           prs \subseteq prs', \A r \in Rules : guidance[r] # NoRow => guidance'[r] # NoRow
    PROVE  /\ ProcsOK' /\ proc'[w] = q /\ \A v \in Procs \ {w} : proc'[v] = proc[v]
<1>1. proc' = [proc EXCEPT ![w] = q] /\ proc \in [Procs -> Process] /\ q \in Process
  BY DEF Becomes, ProcsOK, ProcOK
<1>2. proc' \in [Procs -> Process] /\ proc'[w] = q /\ \A v \in Procs \ {w} : proc'[v] = proc[v]
  BY <1>1
<1>3. ASSUME NEW v \in Procs PROVE ProcOK(proc'[v]) /\ InTables(proc'[v], prs', guidance')
  <2>1. CASE v = w
    BY <1>2, <2>1
  <2>2. CASE v # w
    <3>1. proc'[v] = proc[v] /\ ProcOK(proc[v]) /\ InTables(proc[v], prs, guidance)
      BY <1>2, <2>2 DEF ProcsOK
    <3>2. CASE proc[v].todo = <<>>
      BY <3>1, <3>2 DEF InTables
    <3>3. CASE proc[v].todo # <<>>
      <4>1. StepOK(proc[v], Head(proc[v].todo))
        BY <3>1, <3>3 DEF ProcOK
      <4>2. Head(proc[v].todo) = "prune" =>
              /\ proc[v].left \subseteq Rules
              /\ proc[v].at \in {"touched", "failed", "universe", "deactivate"} => proc[v].table.rule \in Rules
        BY <4>1 DEF StepOK
      <4>3. QED
        BY <3>1, <3>3, <4>2 DEF InTables
    <3>4. QED
      BY <3>2, <3>3
  <2>3. QED
    BY <2>1, <2>2
<1>4. QED
  BY <1>2, <1>3 DEF ProcsOK

\* A step that changes no more than its process.
LEMMA OnlyMoves ==
    ASSUME TypeInv, NEW w \in Procs, NEW q, Becomes(w, q), ProcOK(q), InTables(q, prs, guidance),
           UNCHANGED <<day, tables, stores, exported>>
    PROVE  TypeInv' /\ proc'[w] = q /\ \A v \in Procs \ {w} : proc'[v] = proc[v]
<1>1. UNCHANGED <<day, prs, prFiles, events, guidance, files, kept, harmed, exported>>
  BY DEF tables, stores
<1>2. ProcsOK' /\ proc'[w] = q /\ \A v \in Procs \ {w} : proc'[v] = proc[v]
  BY <1>1, OneMoves DEF TypeInv
<1>3. TablesOK' /\ FilesOK'
  BY <1>1 DEF TypeInv, TablesOK, FilesOK
<1>4. QED
  BY <1>2, <1>3 DEF TypeInv

LEMMA AtMeans ==
    ASSUME TypeInv, NEW w \in Procs, Running(w)
    PROVE  /\ ProcOK(proc[w]) /\ proc[w] \in Process /\ proc[w].todo # <<>> /\ proc[w].call \in CallType
           /\ proc[w].call \in Calls /\ proc[w].call # NoCall /\ proc[w].exit = "none"
           /\ StepOK(proc[w], Head(proc[w].todo)) /\ InTables(proc[w], prs, guidance)
           /\ TodoOK(proc[w].todo)
BY CallsAssumption DEF TypeInv, ProcsOK, ProcOK, Running, Process

LEMMA DoneInTables ==
    ASSUME NEW p, ProcOK(p), p.todo # <<>>, NEW P, NEW G
    PROVE  InTables(Done(p), P, G)
<1>1. Done(p).at = "start" /\ Done(p).left = {}
  BY DoneIs
<1>2. QED
  BY <1>1 DEF InTables

LEMMA ExitsInTables ==
    ASSUME NEW p \in Process, NEW code \in Codes \ {"none"}, p.call # NoCall, NEW P, NEW G
    PROVE  InTables(Exits(p, code), P, G)
<1>1. Exits(p, code).todo = <<>>
  BY ExitsIs
<1>2. QED
  BY <1>1 DEF InTables

-----------------------------------------------------------------------------
(* The types, step by step *)

LEMMA RecordPrType == ASSUME TypeInv, NEW w \in Procs, RecordPr(w) PROVE TypeInv'
<1> DEFINE p == proc[w]
           q == [p EXCEPT !.at = "rows", !.left = p.call.paths]
<1>1. /\ Running(w) /\ Head(p.todo) = "record-pr" /\ prs' = prs \cup {p.call.pr}
      /\ Becomes(w, IF p.call.paths = {} THEN Done(p) ELSE q)
      /\ UNCHANGED <<day, prFiles, events, guidance, files, kept, harmed, exported>>
  BY DEF RecordPr, At, stores
<1>2. /\ ProcOK(p) /\ p \in Process /\ p.todo # <<>> /\ p.call \in CallType /\ StepOK(p, Head(p.todo))
  BY <1>1, AtMeans
<1>3. p.call.pr \in Prs /\ p.call.paths \subseteq Paths
  BY <1>2 DEF CallType
<1>4. q \in Process /\ q.todo = p.todo /\ q.call = p.call /\ q.exit = p.exit /\ q.at = "rows" /\ q.left = p.call.paths
  BY <1>2, <1>3 DEF Process, Places
<1> HIDE DEF p, q
<1>5. StepOK(q, "record-pr")
  BY <1>3, <1>4 DEF StepOK, Stages
<1>6. ProcOK(q) /\ InTables(q, prs', guidance')
  BY <1>1, <1>2, <1>4, <1>5, GoesOn DEF InTables
<1>7. ProcOK(Done(p)) /\ InTables(Done(p), prs', guidance')
  BY <1>2, DoneIs, DoneInTables
<1>8. ProcsOK'
  BY <1>1, <1>6, <1>7, OneMoves DEF TypeInv
<1>9. TablesOK' /\ FilesOK'
  BY <1>1, <1>3 DEF TypeInv, TablesOK, FilesOK
<1>10. QED
  BY <1>8, <1>9 DEF TypeInv

\* What remains of a set of rows.
LEMMA OneLess ==
    ASSUME NEW p, ProcOK(p), p.todo # <<>>, NEW x
    PROVE  LET q == [p EXCEPT !.left = @ \ {x}]
           IN  /\ q \in Process /\ q.left = p.left \ {x} /\ q.todo = p.todo /\ q.call = p.call
               /\ q.at = p.at /\ q.exit = p.exit /\ q.picked = p.picked /\ q.table = p.table
               /\ q.buf = p.buf /\ q.alone = p.alone /\ ProcOK(q)
               /\ \A P, G : InTables(p, P, G) => InTables(q, P, G)
<1> DEFINE q == [p EXCEPT !.left = @ \ {x}]
<1>1. p \in Process /\ StepOK(p, Head(p.todo))
  BY DEF ProcOK
<1>2. /\ q \in Process /\ q.left = p.left \ {x} /\ q.todo = p.todo /\ q.call = p.call
      /\ q.at = p.at /\ q.exit = p.exit /\ q.picked = p.picked /\ q.table = p.table
      /\ q.buf = p.buf /\ q.alone = p.alone
  BY <1>1 DEF Process
<1> HIDE DEF q
<1>3. StepOK(q, Head(p.todo))
  BY <1>1, <1>2 DEF StepOK
<1>4. ProcOK(q)
  BY <1>2, <1>3, GoesOn
<1>5. \A P, G : InTables(p, P, G) => InTables(q, P, G)
  BY <1>2 DEF InTables
<1>6. QED
  BY <1>2, <1>4, <1>5 DEF q

LEMMA RecordFileType == ASSUME TypeInv, NEW w \in Procs, NEW f \in Paths, RecordFile(w, f) PROVE TypeInv'
<1> DEFINE p == proc[w]
           q == [p EXCEPT !.left = @ \ {f}]
<1>1. /\ Running(w) /\ p.at = "rows" /\ f \in p.left
      /\ prFiles' = [prFiles EXCEPT ![p.call.pr] = @ \cup {f}]
      /\ Becomes(w, IF q.left = {} THEN Done(q) ELSE q)
      /\ UNCHANGED <<day, prs, events, guidance, files, kept, harmed, exported>>
  BY DEF RecordFile, At, stores
<1>2. /\ ProcOK(p) /\ p \in Process /\ p.todo # <<>> /\ p.call \in CallType
      /\ InTables(p, prs, guidance)
  BY <1>1, AtMeans
<1>3. p.call.pr \in Prs /\ p.call.pr \in prs
  BY <1>1, <1>2 DEF CallType, InTables
<1>4. ProcOK(q) /\ q.todo = p.todo /\ InTables(q, prs', guidance')
  BY <1>1, <1>2, OneLess
<1> HIDE DEF p, q
<1>5. ProcOK(Done(q)) /\ InTables(Done(q), prs', guidance')
  BY <1>2, <1>4, DoneIs, DoneInTables
<1>6. ProcsOK'
  BY <1>1, <1>4, <1>5, OneMoves DEF TypeInv
<1>7. TablesOK' /\ FilesOK'
  BY <1>1, <1>3 DEF TypeInv, TablesOK, FilesOK
<1>8. QED
  BY <1>6, <1>7 DEF TypeInv

LEMMA FindResultsType == ASSUME TypeInv, NEW w \in Procs, FindResults(w) PROVE TypeInv'
<1> DEFINE p == proc[w]
           q == [p EXCEPT !.at = "events", !.left = p.call.results]
<1>1. /\ Running(w) /\ Head(p.todo) = "ingest-tests"
      /\ Becomes(w, IF p.call.results = {} THEN Done(p) ELSE q)
      /\ UNCHANGED <<day, tables, stores, exported>>
  BY DEF FindResults, At
<1>2. ProcOK(p) /\ p \in Process /\ p.todo # <<>> /\ p.call \in CallType
  BY <1>1, AtMeans
<1>3. p.call.results \subseteq Result
  BY <1>2 DEF CallType
<1>4. /\ q \in Process /\ q.todo = p.todo /\ q.call = p.call /\ q.exit = p.exit /\ q.at = "events"
      /\ q.left = p.call.results
  BY <1>2, <1>3 DEF Process, Places
<1> HIDE DEF p, q
<1>5. StepOK(q, "ingest-tests")
  BY <1>4 DEF StepOK, Stages
<1>6. ProcOK(q) /\ InTables(q, prs, guidance)
  BY <1>1, <1>2, <1>4, <1>5, GoesOn DEF InTables
<1>7. ProcOK(Done(p)) /\ InTables(Done(p), prs, guidance)
  BY <1>2, DoneIs, DoneInTables
<1>8. QED
  BY <1>1, <1>6, <1>7, OnlyMoves

\* The table of events with one row more.
OneMore(u, t, e) == u = t (+) SetToBag({e})
Grown(u, t, e) == /\ DOMAIN u = DOMAIN t \cup {e} /\ \A x \in DOMAIN t \ {e} : u[x] = t[x]
                  /\ e \in DOMAIN t => u[e] = t[e] + 1
                  /\ e \notin DOMAIN t => u[e] = 1

LEMMA OneEventMore ==
    ASSUME NEW t, EventsOK(t), NEW e, EventOK(e), NEW u, OneMore(u, t, e)
    PROVE  EventsOK(u) /\ Grown(u, t, e)
<1>1. t \in [DOMAIN t -> {n \in Nat : n > 0}] /\ IsFiniteSet(DOMAIN t)
  BY DEF EventsOK, IsABag
<1>2. u = [x \in DOMAIN t \cup {e} |->
             (IF x \in DOMAIN t THEN t[x] ELSE 0) + (IF x \in {e} THEN 1 ELSE 0)]
  BY DEF OneMore, SetToBag, (+)
<1>3. /\ DOMAIN u = DOMAIN t \cup {e} /\ \A x \in DOMAIN t \ {e} : u[x] = t[x]
      /\ e \in DOMAIN t => u[e] = t[e] + 1
      /\ e \notin DOMAIN t => u[e] = 1
  BY <1>1, <1>2
<1>4. IsABag(u)
  BY <1>1, <1>2, <1>3 DEF IsABag
<1>5. IsFiniteSet(DOMAIN u)
  BY <1>1, <1>3, FS_AddElement
<1>6. QED
  BY <1>3, <1>4, <1>5 DEF EventsOK, Grown

LEMMA EventType ==
    ASSUME NEW c \in CallType, NEW r \in Result
    PROVE  EventOK(Event(c, r))
<1>1. r.hint \in Paths /\ r.test \in Tests /\ c.pr \in Prs
  BY DEF Result, CallType
<1>2. ComponentOf[r.hint] \in Components \cup {"unknown"}
  BY <1>1 DEF Components
<1>3. Status(c.format, r) \in {"passed", "failed"}
  BY DEF Status
<1>4. QED
  BY <1>1, <1>2, <1>3 DEF EventOK, Event

LEMMA RecordTestEventType ==
    ASSUME TypeInv, NEW w \in Procs, NEW r, RecordTestEvent(w, r)
    PROVE  TypeInv' /\ r \in Result /\ proc[w].call \in CallType
<1> DEFINE p == proc[w]
           q == [p EXCEPT !.left = @ \ {r}]
<1>1. /\ Running(w) /\ p.at = "events" /\ r \in p.left
      /\ OneMore(events', events, Event(p.call, r))
      /\ Becomes(w, IF q.left = {} THEN Done(q) ELSE q)
      /\ UNCHANGED <<day, prs, prFiles, guidance, files, kept, harmed, exported>>
  BY DEF RecordTestEvent, At, stores, OneMore
<1>2. /\ ProcOK(p) /\ p \in Process /\ p.todo # <<>> /\ p.call \in CallType /\ StepOK(p, Head(p.todo))
      /\ InTables(p, prs, guidance)
  BY <1>1, AtMeans
<1>3. r \in Result
  BY <1>1, <1>2 DEF StepOK, CallType
<1>4. ProcOK(q) /\ q.todo = p.todo /\ InTables(q, prs', guidance')
  BY <1>1, <1>2, OneLess
<1>5. EventsOK(events')
  BY <1>1, <1>2, <1>3, EventType, OneEventMore DEF TypeInv, TablesOK
<1> HIDE DEF p, q
<1>6. ProcOK(Done(q)) /\ InTables(Done(q), prs', guidance')
  BY <1>2, <1>4, DoneIs, DoneInTables
<1>7. ProcsOK'
  BY <1>1, <1>4, <1>6, OneMoves DEF TypeInv
<1>8. TablesOK' /\ FilesOK'
  BY <1>1, <1>5 DEF TypeInv, TablesOK, FilesOK
<1>9. QED
  BY <1>2, <1>3, <1>7, <1>8 DEF TypeInv, p

LEMMA PairsAreRules ==
    ASSUME TablesOK, NEW cutoff
    PROVE  DistinctPairs(cutoff) \subseteq Rules
<1> SUFFICES ASSUME NEW e \in DOMAIN events, e.component # "unknown"
             PROVE  <<e.component, e.test>> \in Rules
  BY DEF DistinctPairs, Distinct, BagToSet
<1>1. EventOK(e)
  BY DEF TablesOK, EventsOK
<1>2. QED
  BY <1>1 DEF EventOK, Rules

LEMMA SelectPairsType ==
    ASSUME TypeInv, NEW w \in Procs, SelectPairs(w)
    PROVE  LET p == [proc[w] EXCEPT !.left = DistinctPairs(day)]
           IN  /\ TypeInv' /\ proc'[w] = Loop(p) /\ ProcOK(p) /\ p.todo = proc[w].todo /\ p.call = proc[w].call
               /\ p.left = DistinctPairs(day) /\ p.picked = proc[w].picked /\ p.table = proc[w].table
               /\ p.alone = proc[w].alone
<1> DEFINE p == proc[w]
           q == [p EXCEPT !.left = DistinctPairs(day)]
<1>1. /\ Running(w) /\ Head(p.todo) = "analyze" /\ p.at = "start" /\ Becomes(w, Loop(q))
      /\ UNCHANGED <<day, tables, stores, exported>>
  BY DEF SelectPairs, At
<1>2. ProcOK(p) /\ p \in Process /\ p.todo # <<>> /\ StepOK(p, "analyze")
  BY <1>1, AtMeans
<1>3. DistinctPairs(day) \subseteq Rules
  BY PairsAreRules DEF TypeInv
<1>4. /\ q \in Process /\ q.todo = p.todo /\ q.call = p.call /\ q.exit = p.exit /\ q.at = "start"
      /\ q.left = DistinctPairs(day) /\ q.picked = p.picked /\ q.table = p.table /\ q.alone = p.alone
  BY <1>1, <1>2, <1>3 DEF Process
<1> HIDE DEF q
<1>5. StepOK(q, "analyze")
  BY <1>2, <1>3, <1>4 DEF StepOK, Stages
<1>6. ProcOK(q)
  BY <1>1, <1>2, <1>4, <1>5, GoesOn
<1>7. /\ ProcOK(Loop(q))
      /\ \/ Loop(q).todo = q.todo /\ Loop(q).at \in {"next", "upsert"}
         \/ Loop(q) = Done(q)
  BY <1>1, <1>4, <1>6, <1>2, LoopIs
<1>8. InTables(Loop(q), prs, guidance)
  <2>1. CASE Loop(q) = Done(q)
    BY <1>2, <1>4, <1>6, <2>1, DoneInTables
  <2>2. CASE Loop(q).todo = q.todo /\ Loop(q).at \in {"next", "upsert"}
    BY <1>1, <1>4, <2>2 DEF InTables
  <2>3. QED
    BY <1>7, <2>1, <2>2
<1>9. QED
  BY <1>1, <1>4, <1>6, <1>7, <1>8, OnlyMoves DEF q

\* The loop of prune is over rules there are.
LEMMA LoopInTables ==
    ASSUME NEW p, ProcOK(p), p.todo # <<>>, Head(p.todo) \in {"analyze", "prune"},
           NEW P, NEW G, Head(p.todo) = "prune" => \A r \in p.left : G[r] # NoRow
    PROVE  InTables(Loop(p), P, G)
<1>1. \/ /\ Loop(p).at \in {"next", "upsert"} /\ Loop(p).todo = p.todo /\ Loop(p).left = p.left
      \/ Loop(p) = Done(p)
  BY LoopIs
<1>2. CASE Loop(p) = Done(p)
  BY <1>2, DoneInTables
<1>3. CASE Loop(p).at \in {"next", "upsert"} /\ Loop(p).todo = p.todo /\ Loop(p).left = p.left
  BY <1>3 DEF InTables
<1>4. QED
  BY <1>1, <1>2, <1>3

LEMMA SelectActiveRulesType ==
    ASSUME TypeInv, NEW w \in Procs, SelectActiveRules(w)
    PROVE  LET p == [proc[w] EXCEPT !.left = Active, !.table.cutoff = day]
           IN  /\ TypeInv' /\ proc'[w] = Loop(p) /\ ProcOK(p) /\ p.todo = proc[w].todo /\ p.call = proc[w].call
               /\ p.left = Active /\ p.table.cutoff = day /\ p.alone = proc[w].alone
<1> DEFINE p == proc[w]
           q == [p EXCEPT !.left = Active, !.table.cutoff = day]
<1>1. /\ Running(w) /\ Head(p.todo) = "prune" /\ p.at = "start" /\ Becomes(w, Loop(q))
      /\ UNCHANGED <<day, tables, stores, exported>>
  BY DEF SelectActiveRules, At
<1>2. ProcOK(p) /\ p \in Process /\ p.todo # <<>> /\ StepOK(p, "prune")
  BY <1>1, AtMeans
<1>3. Active \subseteq Rules /\ (\A r \in Active : guidance[r] # NoRow) /\ day \in Nat
  BY BlanksAssumption DEF Active, TypeInv, TablesOK
<1>4. /\ q \in Process /\ q.todo = p.todo /\ q.call = p.call /\ q.exit = p.exit /\ q.at = "start"
      /\ q.left = Active /\ q.picked = p.picked /\ q.table.cutoff = day /\ q.alone = p.alone
  BY <1>1, <1>2, <1>3 DEF Process, Tables
<1> HIDE DEF q
<1>5. StepOK(q, "prune")
  BY <1>2, <1>3, <1>4 DEF StepOK, Stages
<1>6. ProcOK(q)
  BY <1>1, <1>2, <1>4, <1>5, GoesOn
<1>7. ProcOK(Loop(q)) /\ InTables(Loop(q), prs, guidance)
  BY <1>1, <1>2, <1>3, <1>4, <1>6, LoopIs, LoopInTables
<1>8. QED
  BY <1>1, <1>4, <1>6, <1>7, OnlyMoves DEF q

LEMMA CountRecentType ==
    ASSUME TypeInv, NEW w \in Procs, NEW r \in Rules, CountRecent(w, r)
    PROVE  LET p == proc[w]  q == proc'[w]
           IN  /\ TypeInv' /\ q.todo = p.todo /\ q.call = p.call /\ q.alone = p.alone
               /\ q.left = p.left \ {r} /\ q.table.rule = r /\ q.table.cutoff = p.table.cutoff
               /\ q.at = IF Recent(r, p.table.cutoff) THEN "touched" ELSE "deactivate"
<1> DEFINE p == proc[w]
           q == [p EXCEPT !.left = @ \ {r}, !.table.rule = r,
                          !.at = IF Recent(r, p.table.cutoff) THEN "touched" ELSE "deactivate"]
<1>1. /\ Running(w) /\ Head(p.todo) = "prune" /\ p.at = "next" /\ r \in p.left
      /\ UNCHANGED <<day, tables, stores, exported>>
  BY DEF CountRecent, At
<1>2. ProcOK(p) /\ p \in Process /\ p.todo # <<>> /\ StepOK(p, "prune") /\ InTables(p, prs, guidance)
  BY <1>1, AtMeans
<1>3. Becomes(w, [[p EXCEPT !.left = @ \ {r}, !.table.rule = r]
                     EXCEPT !.at = IF Recent(r, p.table.cutoff) THEN "touched" ELSE "deactivate"])
  BY DEF CountRecent
<1>4. Becomes(w, q)
  BY <1>2, <1>3 DEF Process
<1>5. /\ q \in Process /\ q.todo = p.todo /\ q.call = p.call /\ q.exit = p.exit /\ q.alone = p.alone
      /\ q.left = p.left \ {r} /\ q.table.rule = r /\ q.table.cutoff = p.table.cutoff
      /\ q.at = IF Recent(r, p.table.cutoff) THEN "touched" ELSE "deactivate"
  BY <1>2 DEF Process, Tables, Places
<1> HIDE DEF q
<1>6. StepOK(q, "prune")
  BY <1>2, <1>5 DEF StepOK, Stages
<1>7. ProcOK(q)
  BY <1>1, <1>2, <1>5, <1>6, GoesOn
<1>8. InTables(q, prs, guidance)
  BY <1>1, <1>2, <1>5 DEF InTables
<1>9. QED
  BY <1>1, <1>4, <1>5, <1>7, <1>8, OnlyMoves

LEMMA NextPairType ==
    ASSUME TypeInv, NEW w \in Procs, NEW r \in Rules, NextPair(w, r)
    PROVE  LET p == proc[w]  q == proc'[w]
           IN  /\ TypeInv' /\ q.todo = p.todo /\ q.call = p.call /\ q.alone = p.alone
               /\ q.left = p.left \ {r} /\ q.table.rule = r /\ q.picked = p.picked
               /\ q.at = "touched"
<1> DEFINE p == proc[w]
           q == [p EXCEPT !.left = @ \ {r}, !.table.rule = r, !.at = "touched"]
<1>1. /\ Running(w) /\ Head(p.todo) = "analyze" /\ p.at = "next" /\ r \in p.left /\ Becomes(w, q)
      /\ UNCHANGED <<day, tables, stores, exported>>
  BY DEF NextPair, At
<1>2. ProcOK(p) /\ p \in Process /\ p.todo # <<>> /\ StepOK(p, "analyze")
  BY <1>1, AtMeans
<1>3. /\ q \in Process /\ q.todo = p.todo /\ q.call = p.call /\ q.exit = p.exit /\ q.alone = p.alone
      /\ q.left = p.left \ {r} /\ q.table.rule = r /\ q.picked = p.picked /\ q.at = "touched"
  BY <1>2 DEF Process, Tables, Places
<1> HIDE DEF q
<1>4. StepOK(q, "analyze")
  BY <1>2, <1>3 DEF StepOK, Stages
<1>5. ProcOK(q)
  BY <1>1, <1>2, <1>3, <1>4, GoesOn
<1>6. InTables(q, prs, guidance)
  BY <1>1, <1>3 DEF InTables
<1>7. QED
  BY <1>1, <1>3, <1>5, <1>6, OnlyMoves

LEMMA InLoopMeans ==
    ASSUME TypeInv, NEW w \in Procs, NEW at, InLoop(w, at)
    PROVE  /\ Running(w) /\ proc[w].at = at /\ Head(proc[w].todo) \in {"analyze", "prune"}
           /\ ProcOK(proc[w]) /\ proc[w] \in Process /\ proc[w].todo # <<>>
           /\ StepOK(proc[w], Head(proc[w].todo)) /\ InTables(proc[w], prs, guidance)
<1>1. Running(w) /\ proc[w].at = at /\ Head(proc[w].todo) \in {"analyze", "prune"}
  BY DEF InLoop, At
<1>2. QED
  BY <1>1, AtMeans

LEMMA SelectTouchedType ==
    ASSUME TypeInv, NEW w \in Procs, SelectTouched(w)
    PROVE  LET p == proc[w]  q == proc'[w]
           IN  /\ TypeInv' /\ q.todo = p.todo /\ q.call = p.call /\ q.alone = p.alone
               /\ q.left = p.left /\ q.picked = p.picked /\ q.at = "failed"
               /\ q.table.rule = p.table.rule /\ q.table.touched = PrsTouching(p.table.rule[1])
               /\ q.table.cutoff = IF Head(p.todo) = "analyze" THEN day ELSE p.table.cutoff
<1> DEFINE p == proc[w]
           q == [p EXCEPT !.at = "failed", !.table.touched = PrsTouching(p.table.rule[1]),
                          !.table.cutoff = IF Head(p.todo) = "analyze" THEN day ELSE @]
<1>1. Becomes(w, q) /\ UNCHANGED <<day, tables, stores, exported>>
  BY DEF SelectTouched
<1>2. /\ Head(p.todo) \in {"analyze", "prune"} /\ p.at = "touched"
      /\ ProcOK(p) /\ p \in Process /\ p.todo # <<>> /\ StepOK(p, Head(p.todo)) /\ InTables(p, prs, guidance)
  BY InLoopMeans DEF SelectTouched
<1>3. day \in Nat /\ PrsTouching(p.table.rule[1]) \subseteq Prs
  BY BlanksAssumption DEF PrsTouching, TypeInv, TablesOK
<1>4. /\ q \in Process /\ q.todo = p.todo /\ q.call = p.call /\ q.exit = p.exit /\ q.alone = p.alone
      /\ q.left = p.left /\ q.picked = p.picked /\ q.at = "failed"
      /\ q.table.rule = p.table.rule /\ q.table.touched = PrsTouching(p.table.rule[1])
      /\ q.table.cutoff = IF Head(p.todo) = "analyze" THEN day ELSE p.table.cutoff
  BY <1>2, <1>3 DEF Process, Tables, Places
<1> HIDE DEF q
<1>5. StepOK(q, Head(p.todo))
  BY <1>2, <1>4 DEF StepOK, Stages
<1>6. ProcOK(q) /\ InTables(q, prs, guidance)
  BY <1>2, <1>4, <1>5, GoesOn DEF InTables
<1>7. QED
  BY <1>1, <1>4, <1>6, OnlyMoves

LEMMA FailingArePrs ==
    ASSUME TablesOK, NEW t, NEW cutoff
    PROVE  PrsFailing(t, cutoff) \subseteq Prs /\ PrsSeen(cutoff) \subseteq Prs
BY DEF TablesOK, EventsOK, EventOK, PrsFailing, PrsSeen, Distinct, BagToSet

LEMMA SelectFailedType ==
    ASSUME TypeInv, NEW w \in Procs, SelectFailed(w)
    PROVE  LET p == proc[w]  q == proc'[w]
           IN  /\ TypeInv' /\ q.todo = p.todo /\ q.call = p.call /\ q.alone = p.alone
               /\ q.left = p.left /\ q.picked = p.picked /\ q.at = "universe"
               /\ q.table.rule = p.table.rule /\ q.table.touched = p.table.touched
               /\ q.table.cutoff = p.table.cutoff
               /\ q.table.failed = PrsFailing(p.table.rule[2], p.table.cutoff)
<1> DEFINE p == proc[w]
           q == [p EXCEPT !.at = "universe", !.table.failed = PrsFailing(p.table.rule[2], p.table.cutoff)]
<1>1. Becomes(w, q) /\ UNCHANGED <<day, tables, stores, exported>>
  BY DEF SelectFailed
<1>2. /\ Head(p.todo) \in {"analyze", "prune"} /\ p.at = "failed"
      /\ ProcOK(p) /\ p \in Process /\ p.todo # <<>> /\ StepOK(p, Head(p.todo)) /\ InTables(p, prs, guidance)
  BY InLoopMeans DEF SelectFailed
<1>3. PrsFailing(p.table.rule[2], p.table.cutoff) \subseteq Prs
  BY FailingArePrs DEF TypeInv
<1>4. /\ q \in Process /\ q.todo = p.todo /\ q.call = p.call /\ q.exit = p.exit /\ q.alone = p.alone
      /\ q.left = p.left /\ q.picked = p.picked /\ q.at = "universe"
      /\ q.table.rule = p.table.rule /\ q.table.touched = p.table.touched
      /\ q.table.cutoff = p.table.cutoff
      /\ q.table.failed = PrsFailing(p.table.rule[2], p.table.cutoff)
  BY <1>2, <1>3 DEF Process, Tables, Places
<1> HIDE DEF q
<1>5. StepOK(q, Head(p.todo))
  BY <1>2, <1>4 DEF StepOK, Stages
<1>6. ProcOK(q) /\ InTables(q, prs, guidance)
  BY <1>2, <1>4, <1>5, GoesOn DEF InTables
<1>7. QED
  BY <1>1, <1>4, <1>6, OnlyMoves

LEMMA ProductPositive == \A x, y \in Nat \ {0} : x * y \in Nat \ {0}
OBVIOUS

LEMMA ContingencyType ==
    ASSUME NEW touched \in SUBSET Prs, NEW failed \in SUBSET Prs, NEW universe \in SUBSET Prs
    PROVE  Contingency(touched, failed, universe) \in [a : Nat, b : Nat, c : Nat, d : Nat]
<1>1. \A S \in SUBSET Prs : Cardinality(S) \in Nat
  BY TablesAssumption, FS_Subset, FS_CardinalityType
<1>2. QED
  BY <1>1 DEF Contingency

LEMMA LiftType ==
    ASSUME NEW k \in [a : Nat, b : Nat, c : Nat, d : Nat]
    PROVE  Lift(k) \in [num : Nat, den : Nat \ {0}] /\ (k.a = 0 => Lift(k).num = 0)
<1>1. k.a \in Nat /\ k.b \in Nat /\ k.c \in Nat /\ k.d \in Nat
  OBVIOUS
<1>2. AtLeastOne(k.a + k.b) \in Nat \ {0}
  BY <1>1 DEF AtLeastOne
<1>3. CASE k.c = 0
  BY <1>1, <1>2, <1>3 DEF Lift, Ratio
<1>4. CASE k.c # 0
  <2>1. AtLeastOne(k.a + k.b) * k.c \in Nat \ {0}
    BY <1>1, <1>2, <1>4, ProductPositive
  <2>2. k.a * (k.c + k.d) \in Nat /\ (k.a = 0 => k.a * (k.c + k.d) = 0)
    BY <1>1
  <2>3. Lift(k) = [num |-> k.a * (k.c + k.d), den |-> AtLeastOne(k.a + k.b) * k.c]
    BY <1>4 DEF Lift, Ratio
  <2>4. QED
    BY <2>1, <2>2, <2>3
<1>5. QED
  BY <1>3, <1>4

\* x >= y >= z for ratios.
LEMMA AtLeastChain ==
    ASSUME NEW x \in [num : Nat, den : Nat \ {0}], NEW y \in [num : Nat, den : Nat \ {0}],
           NEW z \in [num : Nat, den : Nat \ {0}], AtLeast(x, y), AtLeast(y, z)
    PROVE  AtLeast(x, z)
<1> DEFINE a == x.num
           b == x.den
           c == y.num
           d == y.den
           e == z.num
           f == z.den
<1>1. /\ a \in Nat /\ b \in Nat \ {0} /\ c \in Nat /\ d \in Nat \ {0} /\ e \in Nat /\ f \in Nat \ {0}
      /\ a * d >= c * b /\ c * f >= e * d
  BY DEF AtLeast
<1> HIDE DEF a, b, c, d, e, f
<1>2. (a * d) * f >= (c * b) * f
  BY <1>1
<1>3. (c * f) * b >= (e * d) * b
  BY <1>1
<1>4. (a * f) * d >= (e * b) * d
  <2>1. (a * d) * f = (a * f) * d /\ (c * b) * f = (c * f) * b /\ (e * d) * b = (e * b) * d
    BY <1>1
  <2>2. a * d \in Nat /\ a * f \in Nat /\ c * b \in Nat /\ c * f \in Nat /\ e * d \in Nat /\ e * b \in Nat
    BY <1>1
  <2>3. (a * d) * f \in Nat /\ (c * b) * f \in Nat /\ (e * b) * d \in Nat
    BY <1>1, <2>2
  <2>4. QED
    BY <1>2, <1>3, <2>1, <2>3
<1>5. a * f >= e * b
  <2>1. a * f \in Nat /\ e * b \in Nat
    BY <1>1
  <2>2. \A m, n \in Nat : \A g \in Nat \ {0} : m * g >= n * g => m >= n
    OBVIOUS
  <2>3. QED
    BY <1>1, <1>4, <2>1, <2>2
<1>6. QED
  BY <1>5 DEF AtLeast, a, b, e, f

\* What makes a rule is seen at least once, and does not wear off.
LEMMA QualifiesMeans ==
    ASSUME NEW k \in [a : Nat, b : Nat, c : Nat, d : Nat], Qualifies(k)
    PROVE  k.a \in Nat \ {0} /\ ~Worn(k)
<1> DEFINE half == [num |-> 3, den |-> 2]
<1>1. AtLeast(Lift(k), Config.min_lift) /\ AtLeast(Config.min_lift, half)
      /\ Config.min_lift \in [num : Nat, den : Nat \ {0}] /\ half \in [num : Nat, den : Nat \ {0}]
  BY LiftAssumption DEF Qualifies, Ratio
<1>2. Lift(k) \in [num : Nat, den : Nat \ {0}] /\ (k.a = 0 => Lift(k).num = 0)
  BY LiftType
<1>3. AtLeast(Lift(k), half)
  BY <1>1, <1>2, AtLeastChain
<1>4. Lift(k).num * 2 >= 3 * Lift(k).den
  BY <1>3 DEF AtLeast
<1>5. QED
  BY <1>2, <1>3, <1>4 DEF Worn, Ratio

\* With the last count, a pair is kept as a candidate and a rule condemned.
LEMMA SelectUniverseType ==
    ASSUME TypeInv, NEW w \in Procs, SelectUniverse(w)
    PROVE  LET p == proc[w]
               k == Contingency(p.table.touched, p.table.failed, PrsSeen(p.table.cutoff))
           IN  /\ TypeInv' /\ k \in [a : Nat, b : Nat, c : Nat, d : Nat]
               /\ \/ /\ Head(p.todo) = "prune" /\ Worn(k)
                     /\ proc'[w].todo = p.todo /\ proc'[w].at = "deactivate" /\ proc'[w].left = p.left
                     /\ proc'[w].table = p.table /\ proc'[w].call = p.call /\ proc'[w].alone = p.alone
                  \/ /\ Head(p.todo) = "prune" => ~Worn(k)
                     /\ \E q : /\ ProcOK(q) /\ q.todo = p.todo /\ q.call = p.call /\ q.alone = p.alone
                               /\ q.left = p.left /\ q.table = p.table
                               /\ q.picked = p.picked \cup
                                    (IF Head(p.todo) = "analyze" /\ Qualifies(k)
                                     THEN {[rule |-> p.table.rule, support |-> k.a]} ELSE {})
                               /\ proc'[w] = Loop(q)
<1> DEFINE p == proc[w]
           k == Contingency(p.table.touched, p.table.failed, PrsSeen(p.table.cutoff))
           g == [rule |-> p.table.rule, support |-> k.a]
           d == [p EXCEPT !.at = "deactivate"]
           q == [p EXCEPT !.picked = @ \cup {g}]
<1>1. /\ Becomes(w, IF Head(p.todo) = "analyze" THEN Loop(IF Qualifies(k) THEN q ELSE p)
                    ELSE IF Worn(k) THEN d ELSE Loop(p))
      /\ UNCHANGED <<day, tables, stores, exported>>
  BY DEF SelectUniverse
<1>2. /\ Head(p.todo) \in {"analyze", "prune"} /\ p.at = "universe"
      /\ ProcOK(p) /\ p \in Process /\ p.todo # <<>> /\ StepOK(p, Head(p.todo)) /\ InTables(p, prs, guidance)
  BY InLoopMeans DEF SelectUniverse
<1>3. k \in [a : Nat, b : Nat, c : Nat, d : Nat]
  <2>1. p.table.touched \in SUBSET Prs /\ p.table.failed \in SUBSET Prs
    BY <1>2 DEF Process, Tables
  <2>2. PrsSeen(p.table.cutoff) \in SUBSET Prs
    BY FailingArePrs DEF TypeInv
  <2>3. QED
    BY <2>1, <2>2, ContingencyType
<1>4. p.table.rule \in Rules
  BY <1>2 DEF StepOK
<1>5. CASE Head(p.todo) = "prune" /\ Worn(k)
  <2>1. Becomes(w, d)
    BY <1>1, <1>5
  <2>2. /\ d \in Process /\ d.todo = p.todo /\ d.call = p.call /\ d.exit = p.exit /\ d.alone = p.alone
        /\ d.left = p.left /\ d.picked = p.picked /\ d.table = p.table /\ d.at = "deactivate"
    BY <1>2 DEF Process, Places
  <2> HIDE DEF d
  <2>3. StepOK(d, Head(p.todo))
    BY <1>2, <1>4, <1>5, <2>2 DEF StepOK, Stages
  <2>4. ProcOK(d) /\ InTables(d, prs, guidance)
    BY <1>2, <2>2, <2>3, GoesOn DEF InTables
  <2>5. TypeInv' /\ proc'[w] = d
    BY <1>1, <2>1, <2>4, OnlyMoves
  <2>6. QED
    BY <1>3, <1>5, <2>2, <2>5
<1>6. CASE Head(p.todo) = "analyze" /\ Qualifies(k)
  <2>1. Becomes(w, Loop(q))
    BY <1>1, <1>6
  <2>2. g \in Candidates
    BY <1>3, <1>4, <1>6, QualifiesMeans DEF Candidates
  <2> HIDE DEF g, k
  <2>3. /\ q \in Process /\ q.todo = p.todo /\ q.call = p.call /\ q.exit = p.exit /\ q.alone = p.alone
        /\ q.left = p.left /\ q.picked = p.picked \cup {g} /\ q.table = p.table /\ q.at = p.at
    BY <1>2, <2>2 DEF Process
  <2> HIDE DEF q
  <2>4. StepOK(q, "analyze")
    BY <1>2, <1>6, <2>2, <2>3 DEF StepOK, Stages
  <2>5. ProcOK(q)
    BY <1>2, <1>6, <2>3, <2>4, GoesOn
  <2>6. ProcOK(Loop(q)) /\ InTables(Loop(q), prs, guidance)
    BY <1>2, <1>6, <2>3, <2>5, LoopIs, LoopInTables
  <2>7. TypeInv' /\ proc'[w] = Loop(q)
    BY <1>1, <2>1, <2>6, OnlyMoves
  <2>8. q.picked = p.picked \cup (IF Head(p.todo) = "analyze" /\ Qualifies(k) THEN {g} ELSE {})
    BY <1>6, <2>3
  <2>9. Head(p.todo) = "prune" => ~Worn(k)
    BY <1>6
  <2>10. QED
    BY <1>3, <2>3, <2>5, <2>7, <2>8, <2>9 DEF g, k
<1>7. CASE (Head(p.todo) = "analyze" => ~Qualifies(k)) /\ (Head(p.todo) = "prune" => ~Worn(k))
  <2>1. Becomes(w, Loop(p))
    BY <1>1, <1>2, <1>7
  <2>2. ProcOK(Loop(p)) /\ InTables(Loop(p), prs, guidance)
    BY <1>2, LoopIs, LoopInTables DEF InTables
  <2>3. TypeInv' /\ proc'[w] = Loop(p)
    BY <1>1, <2>1, <2>2, OnlyMoves
  <2>4. p.picked = p.picked \cup (IF Head(p.todo) = "analyze" /\ Qualifies(k) THEN {g} ELSE {})
    BY <1>7
  <2> HIDE DEF k
  <2>5. QED
    BY <1>2, <1>3, <1>7, <2>3, <2>4 DEF k
<1>8. QED
  BY <1>2, <1>5, <1>6, <1>7

\* What analyze writes of a candidate, and what prune writes of a rule.
LEMMA UpsertType ==
    ASSUME TypeInv, NEW w \in Procs, NEW g \in proc[w].picked, UpsertGuidance(w, g)
    PROVE  LET p == proc[w]
           IN  /\ TypeInv' /\ g \in Candidates /\ p.left \subseteq Rules /\ p.picked \subseteq Candidates
               /\ guidance' = [guidance EXCEPT ![g.rule] = [support |-> g.support, active |-> TRUE]]
               /\ \E q : /\ ProcOK(q) /\ q.todo = p.todo /\ q.call = p.call /\ q.alone = p.alone
                         /\ q.left = p.left /\ q.table = p.table /\ q.picked = p.picked \ {g}
                         /\ proc'[w] = Loop(q)
<1> DEFINE p == proc[w]
           q == [p EXCEPT !.picked = @ \ {g}]
<1>1. /\ Running(w) /\ Head(p.todo) = "analyze" /\ p.at = "upsert" /\ Becomes(w, Loop(q))
      /\ guidance' = [guidance EXCEPT ![g.rule] = [support |-> g.support, active |-> TRUE]]
      /\ UNCHANGED <<day, prs, prFiles, events, files, kept, harmed, exported>>
  BY DEF UpsertGuidance, At, stores
<1>2. ProcOK(p) /\ p \in Process /\ p.todo # <<>> /\ StepOK(p, "analyze") /\ InTables(p, prs, guidance)
  BY <1>1, AtMeans
<1>3. g \in Candidates /\ p.left \subseteq Rules /\ p.picked \subseteq Candidates
  BY <1>2 DEF StepOK
<1>4. g.rule \in Rules /\ [support |-> g.support, active |-> TRUE] \in Rows
  BY <1>3 DEF Candidates, Rows
<1>5. /\ q \in Process /\ q.todo = p.todo /\ q.call = p.call /\ q.exit = p.exit /\ q.alone = p.alone
      /\ q.left = p.left /\ q.picked = p.picked \ {g} /\ q.table = p.table /\ q.at = p.at
  BY <1>2 DEF Process
<1> HIDE DEF q
<1>6. StepOK(q, "analyze")
  BY <1>1, <1>2, <1>5 DEF StepOK, Stages
<1>7. ProcOK(q)
  BY <1>1, <1>2, <1>5, <1>6, GoesOn
<1>8. guidance \in [Rules -> Rows \cup {NoRow}]
  BY DEF TypeInv, TablesOK
<1>9. guidance' \in [Rules -> Rows \cup {NoRow}] /\ \A r \in Rules : guidance[r] # NoRow => guidance'[r] # NoRow
  BY <1>1, <1>4, <1>8, BlanksAssumption
<1>10. ProcOK(Loop(q)) /\ InTables(Loop(q), prs', guidance')
  BY <1>1, <1>2, <1>5, <1>7, LoopIs, LoopInTables
<1>11. ProcsOK' /\ proc'[w] = Loop(q)
  BY <1>1, <1>9, <1>10, OneMoves DEF TypeInv
<1>12. TablesOK' /\ FilesOK'
  BY <1>1, <1>9 DEF TypeInv, TablesOK, FilesOK
<1>13. QED
  BY <1>1, <1>3, <1>5, <1>7, <1>11, <1>12 DEF TypeInv

LEMMA DeactivateType ==
    ASSUME TypeInv, NEW w \in Procs, Deactivate(w)
    PROVE  LET p == proc[w]  r == p.table.rule
           IN  /\ TypeInv' /\ r \in Rules /\ p.left \subseteq Rules /\ guidance[r] \in Rows
               /\ guidance'[r] \in Rows /\ guidance'[r].support = guidance[r].support /\ ~guidance'[r].active
               /\ \A s \in Rules \ {r} : guidance'[s] = guidance[s]
               /\ proc'[w] = Loop(p)
<1> DEFINE p == proc[w]
           r == p.table.rule
<1>1. /\ Running(w) /\ Head(p.todo) = "prune" /\ p.at = "deactivate" /\ Becomes(w, Loop(p))
      /\ guidance' = [guidance EXCEPT ![p.table.rule].active = FALSE]
      /\ UNCHANGED <<day, prs, prFiles, events, files, kept, harmed, exported>>
  BY DEF Deactivate, At, stores
<1>2. ProcOK(p) /\ p \in Process /\ p.todo # <<>> /\ StepOK(p, "prune") /\ InTables(p, prs, guidance)
  BY <1>1, AtMeans
<1>3. r \in Rules /\ guidance \in [Rules -> Rows \cup {NoRow}] /\ guidance[r] # NoRow
  BY <1>1, <1>2 DEF TypeInv, TablesOK, StepOK, InTables
<1>4. guidance[r] \in Rows
  BY <1>3
<1>5. /\ guidance'[r] \in Rows /\ guidance'[r].support = guidance[r].support /\ ~guidance'[r].active
      /\ \A s \in Rules \ {r} : guidance'[s] = guidance[s]
      /\ guidance' \in [Rules -> Rows \cup {NoRow}]
  <2> DEFINE x == [guidance[r] EXCEPT !.active = FALSE]
  <2>1. x \in Rows /\ x.support = guidance[r].support /\ ~x.active
    BY <1>4 DEF Rows
  <2>2. guidance' = [guidance EXCEPT ![r] = x]
    BY <1>1
  <2> HIDE DEF x, r
  <2>3. QED
    BY <1>3, <2>1, <2>2
<1> HIDE DEF r, p
<1>7. guidance' \in [Rules -> Rows \cup {NoRow}] /\ \A s \in Rules : guidance[s] # NoRow => guidance'[s] # NoRow
  BY <1>3, <1>5, BlanksAssumption
<1>8. p.left \subseteq Rules /\ \A s \in p.left : guidance'[s] # NoRow
  <2>1. \A s \in p.left : guidance[s] # NoRow
    BY <1>1, <1>2 DEF InTables
  <2>2. p.left \subseteq Rules
    BY <1>2 DEF StepOK
  <2>3. QED
    BY <1>7, <2>1, <2>2
<1>9. ProcOK(Loop(p)) /\ InTables(Loop(p), prs', guidance')
  BY <1>1, <1>2, <1>8, LoopIs, LoopInTables
<1>10. ProcsOK' /\ proc'[w] = Loop(p)
  BY <1>1, <1>7, <1>9, OneMoves DEF TypeInv
<1>11. TablesOK' /\ FilesOK'
  BY <1>1, <1>7 DEF TypeInv, TablesOK, FilesOK
<1>12. QED
  BY <1>3, <1>4, <1>5, <1>8, <1>10, <1>11 DEF TypeInv, r, p

\* A process that ends its step, or all of them.
LEMMA StepEnds ==
    ASSUME TypeInv, NEW w \in Procs, Running(w), Becomes(w, Done(proc[w])),
           UNCHANGED <<day, tables, stores, exported>>
    PROVE  TypeInv'
<1>1. ProcOK(Done(proc[w])) /\ InTables(Done(proc[w]), prs, guidance)
  BY AtMeans, DoneIs, DoneInTables
<1>2. QED
  BY <1>1, OnlyMoves

LEMMA AllEnds ==
    ASSUME TypeInv, NEW w \in Procs, Running(w), NEW code \in Codes \ {"none"},
           Becomes(w, Exits(proc[w], code)), UNCHANGED <<day, tables, stores, exported>>
    PROVE  TypeInv'
<1>1. ProcOK(Exits(proc[w], code)) /\ InTables(Exits(proc[w], code), prs, guidance)
  BY AtMeans, ExitsIs, ExitsInTables
<1>2. QED
  BY <1>1, OnlyMoves

LEMMA SelectComponentsType ==
    ASSUME TypeInv, NEW w \in Procs, SelectComponents(w)
    PROVE  LET p == proc[w]  q == proc'[w]
           IN  /\ TypeInv' /\ Running(w) /\ q.todo = p.todo /\ q.call = p.call /\ q.alone = p.alone
               /\ q.at = "guidance" /\ q.left = ComponentsOfPr(p.call.pr)
<1> DEFINE p == proc[w]
           q == [p EXCEPT !.at = "guidance", !.left = ComponentsOfPr(p.call.pr)]
<1>1. /\ Running(w) /\ Head(p.todo) \in {"emit-warnings", "check-compliance", "telemetry"}
      /\ Becomes(w, q) /\ UNCHANGED <<day, tables, stores, exported>>
  BY DEF SelectComponents, At
<1>2. ProcOK(p) /\ p \in Process /\ p.todo # <<>> /\ p.call \in CallType /\ InTables(p, prs, guidance)
  BY <1>1, AtMeans
<1>3. ComponentsOfPr(p.call.pr) \subseteq Components
  <2>1. p.call.pr \in Prs /\ prFiles \in [Prs -> SUBSET Paths]
    BY <1>2 DEF CallType, TypeInv, TablesOK
  <2>2. QED
    BY <2>1 DEF ComponentsOfPr, Components
<1>4. /\ q \in Process /\ q.todo = p.todo /\ q.call = p.call /\ q.exit = p.exit /\ q.alone = p.alone
      /\ q.at = "guidance" /\ q.left = ComponentsOfPr(p.call.pr)
  BY <1>2, <1>3 DEF Process, Places
<1> HIDE DEF q
<1>5. StepOK(q, Head(p.todo))
  BY <1>1, <1>3, <1>4 DEF StepOK, Stages
<1>6. ProcOK(q) /\ InTables(q, prs, guidance)
  BY <1>1, <1>2, <1>4, <1>5, GoesOn DEF InTables
<1>7. QED
  BY <1>1, <1>4, <1>6, OnlyMoves

LEMMA EmitWarningsType ==
    ASSUME TypeInv, NEW w \in Procs, EmitWarnings(w)
    PROVE  /\ TypeInv' /\ Running(w)
           /\ UNCHANGED <<day, tables, stores, exported>>
           /\ Becomes(w, Exits(proc[w], "2")) \/ Becomes(w, Done(proc[w]))
<1>1. /\ Running(w) /\ UNCHANGED <<day, tables, stores, exported>>
      /\ Becomes(w, Exits(proc[w], "2")) \/ Becomes(w, Done(proc[w]))
  BY DEF EmitWarnings, At
<1>2. "2" \in Codes \ {"none"}
  BY DEF Codes
<1>3. QED
  BY <1>1, <1>2, StepEnds, AllEnds

LEMMA GateComplianceType ==
    ASSUME TypeInv, NEW w \in Procs, GateCompliance(w)
    PROVE  /\ TypeInv' /\ Running(w)
           /\ UNCHANGED <<day, tables, stores, exported>>
           /\ Becomes(w, Exits(proc[w], "2")) \/ Becomes(w, Done(proc[w]))
<1>1. /\ Running(w) /\ UNCHANGED <<day, tables, stores, exported>>
      /\ Becomes(w, Exits(proc[w], "2")) \/ Becomes(w, Done(proc[w]))
  BY DEF GateCompliance, At
<1>2. "2" \in Codes \ {"none"}
  BY DEF Codes
<1>3. QED
  BY <1>1, <1>2, StepEnds, AllEnds

\* A table of events has finitely many rows.
LEMMA RowsAreFinite ==
    ASSUME NEW t, EventsOK(t), NEW es \in SUBSET DOMAIN t
    PROVE  IsFiniteSet(RowsOf(t, es)) /\ Cardinality(RowsOf(t, es)) \in Nat
<1> DEFINE parts == {{e} \X (1 .. t[e]) : e \in es}
           f == [e \in es |-> {e} \X (1 .. t[e])]
<1>1. IsFiniteSet(es)
  BY FS_Subset DEF EventsOK
<1>2. f \in Surjection(es, parts)
  BY DEF Surjection
<1>3. IsFiniteSet(parts)
  BY <1>1, <1>2, FS_Surjection
<1>4. ASSUME NEW e \in es PROVE IsFiniteSet({e} \X (1 .. t[e]))
  <2>1. t[e] \in Nat
    BY DEF EventsOK, IsABag
  <2>2. IsFiniteSet({e})
    BY FS_Singleton
  <2>3. \A n \in Nat : IsFiniteSet(1 .. n)
    BY FS_Interval
  <2>4. QED
    BY <2>1, <2>2, <2>3, FS_Product
<1>5. IsFiniteSet(UNION parts)
  <2>1. \A T \in parts : IsFiniteSet(T)
    BY <1>4
  <2>2. QED
    BY <1>3, <2>1, FS_UNION
<1>6. QED
  BY <1>5, FS_CardinalityType DEF RowsOf

\* What export has counted, and what it writes.
LEMMA ExportStatsType ==
    ASSUME TypeInv, NEW w \in Procs, ExportStats(w)
    PROVE  /\ TypeInv' /\ Running(w) /\ Head(proc[w].todo) = "export"
           /\ UNCHANGED <<day, tables, stores>>
           /\ \/ /\ UNCHANGED exported /\ proc'[w].todo = proc[w].todo /\ proc'[w].call = proc[w].call
                 /\ proc'[w].at = "total" /\ proc'[w].alone = proc[w].alone
                 /\ proc'[w].buf = <<Cardinality(RowsOf(events, FailedEvents))>>
              \/ /\ proc[w].at = "total" /\ Becomes(w, Done(proc[w]))
                 /\ exported' = [failed |-> proc[w].buf[1], total |-> Cardinality(RowsOf(events, Distinct))]
<1> DEFINE p == proc[w]
           n == Cardinality(RowsOf(events, FailedEvents))
           q == [p EXCEPT !.at = "total", !.buf = <<n>>]
<1>1. Running(w) /\ Head(p.todo) = "export" /\ UNCHANGED <<day, tables, stores>>
  BY DEF ExportStats, At
<1>2. /\ ProcOK(p) /\ p \in Process /\ p.todo # <<>> /\ StepOK(p, Head(p.todo))
      /\ InTables(p, prs, guidance)
  BY <1>1, AtMeans
<1>3. EventsOK(events) /\ FailedEvents \subseteq DOMAIN events /\ Distinct = DOMAIN events
  BY DEF TypeInv, TablesOK, FailedEvents, Distinct, BagToSet
<1>4. n \in Nat /\ Cardinality(RowsOf(events, Distinct)) \in Nat
  BY <1>3, RowsAreFinite
<1>5. CASE At(w, "export", "start") /\ Becomes(w, q) /\ UNCHANGED exported
  <2>1. <<n>> \in Seq(Procs \cup Entries \cup Parts \cup Nat)
    BY <1>4
  <2> HIDE DEF n
  <2>2. /\ q \in Process /\ q.todo = p.todo /\ q.call = p.call /\ q.exit = p.exit /\ q.alone = p.alone
        /\ q.at = "total" /\ q.buf = <<n>>
    BY <1>2, <2>1 DEF Process, Places
  <2> HIDE DEF q
  <2>3. StepOK(q, Head(p.todo))
    BY <1>1, <1>4, <2>2 DEF StepOK, Stages
  <2>4. ProcOK(q) /\ InTables(q, prs, guidance)
    BY <1>1, <1>2, <2>2, <2>3, GoesOn DEF InTables
  <2>5. TypeInv' /\ proc'[w] = q
    BY <1>1, <1>5, <2>4, OnlyMoves
  <2>6. QED
    BY <1>1, <1>5, <2>2, <2>5 DEF n
<1>6. CASE /\ At(w, "export", "total") /\ Becomes(w, Done(p))
           /\ exported' = [failed |-> p.buf[1], total |-> Cardinality(RowsOf(events, Distinct))]
  <2>1. p.at = "total"
    BY <1>6 DEF At
  <2>2. p.buf[1] \in Nat
    BY <1>2, <2>1 DEF StepOK
  <2>3. ProcOK(Done(p)) /\ InTables(Done(p), prs', guidance')
    BY <1>2, DoneIs, DoneInTables
  <2>4. UNCHANGED <<day, prs, prFiles, events, guidance, files, kept, harmed>>
    BY <1>1 DEF tables, stores
  <2>5. ProcsOK'
    BY <1>6, <2>3, <2>4, OneMoves DEF TypeInv
  <2>6. TablesOK' /\ FilesOK'
    BY <1>4, <1>6, <2>2, <2>4 DEF TypeInv, TablesOK, FilesOK
  <2>7. QED
    BY <1>1, <1>6, <2>1, <2>5, <2>6 DEF TypeInv
<1>7. QED
  BY <1>5, <1>6 DEF ExportStats

-----------------------------------------------------------------------------
(* The files *)

LEMMA ContentFits ==
    ASSUME NEW f, NEW c \in ContentOf(f)
    PROVE  c \in Seq(Procs \cup Entries \cup Parts \cup Nat)
BY SeqMonotonic DEF ContentOf

LEMMA LoadedType ==
    ASSUME TypeInv, NEW f \in Files
    PROVE  Loaded(f) \in ContentOf(f)
<1>1. files[f] \in ContentOf(f) \cup {Torn} /\ <<>> \in ContentOf(f)
  BY EmptySeq DEF TypeInv, FilesOK, ContentOf
<1>2. QED
  BY <1>1 DEF Loaded

\* What update-docs writes starts with what the file started with.
LEMMA NewDocsType ==
    ASSUME NEW parts \in Seq(Parts)
    PROVE  /\ NewDocs(parts) \in Seq(Parts) /\ NewDocs(parts) # <<>>
           /\ parts # <<>> /\ parts[1] = "text" => NewDocs(parts)[1] = "text"
<1> DEFINE b == <<"title", "block">>
           n == Len(parts)
<1>1. b \in Seq(Parts) /\ Len(b) = 2
  BY DEF Parts
<1>2. n \in Nat /\ DOMAIN parts = 1..n /\ (parts # <<>> => n > 0)
  BY LenProperties, EmptySeq
<1> HIDE DEF b
<1>3. CASE \E i \in DOMAIN parts : parts[i] = "block"
  <2> DEFINE k == CHOOSE j \in DOMAIN parts : parts[j] = "block"
             l == SubSeq(parts, 1, k - 1)
             r == SubSeq(parts, k + 1, n)
  <2>1. k \in 1..n /\ parts[k] = "block"
    BY <1>2, <1>3
  <2> HIDE DEF k
  <2>2. NewDocs(parts) = l \o b \o r
    BY <1>3 DEF NewDocs, b, k
  <2>3. \A i \in 1..n : parts[i] \in Parts
    BY ElementOfSeq
  <2>4. l \in Seq(Parts) /\ Len(l) = k - 1 /\ \A i \in 1..(k - 1) : l[i] = parts[i]
    <3>1. 1 \in Int /\ k - 1 \in Int /\ \A i \in 1..(k - 1) : parts[i] \in Parts
      BY <1>2, <2>1, <2>3
    <3>2. /\ l \in Seq(Parts) /\ Len(l) = (IF 1 <= k - 1 THEN k - 1 - 1 + 1 ELSE 0)
          /\ \A i \in 1..(k - 1 - 1 + 1) : l[i] = parts[1 + i - 1]
      BY <3>1, SubSeqProperties
    <3> HIDE DEF l
    <3>3. QED
      BY <1>2, <2>1, <3>2
  <2>5. r \in Seq(Parts)
    <3>1. k + 1 \in Int /\ n \in Int /\ \A i \in (k + 1)..n : parts[i] \in Parts
      BY <1>2, <2>1, <2>3
    <3>2. QED
      BY <3>1, SubSeqProperties
  <2> HIDE DEF l, r
  <2>6. /\ l \o b \in Seq(Parts) /\ Len(l \o b) = Len(l) + Len(b)
        /\ \A i \in 1 .. Len(l) + Len(b) : (l \o b)[i] = IF i <= Len(l) THEN l[i] ELSE b[i - Len(l)]
    BY <1>1, <2>4, ConcatProperties
  <2>7. /\ (l \o b) \o r \in Seq(Parts) /\ Len((l \o b) \o r) = Len(l \o b) + Len(r)
        /\ \A i \in 1 .. Len(l \o b) + Len(r) :
              ((l \o b) \o r)[i] = IF i <= Len(l \o b) THEN (l \o b)[i] ELSE r[i - Len(l \o b)]
    BY <2>5, <2>6, ConcatProperties
  <2>8. Len(l) \in Nat /\ Len(r) \in Nat
    BY <2>4, <2>5, LenProperties
  <2>9. (l \o b) \o r # <<>>
    BY <1>1, <2>6, <2>7, <2>8, EmptySeq
  <2>10. ASSUME parts # <<>>, parts[1] = "text" PROVE NewDocs(parts)[1] = "text"
    <3>1. k > 1
      BY <2>1, <2>10
    <3>2. Len(l) >= 1 /\ l[1] = "text"
      BY <1>2, <2>1, <2>4, <2>10, <3>1
    <3>3. (l \o b)[1] = "text" /\ ((l \o b) \o r)[1] = (l \o b)[1]
      BY <1>1, <2>6, <2>7, <2>8, <3>2
    <3>4. QED
      BY <2>2, <3>3
  <2>11. QED
    BY <2>2, <2>7, <2>9, <2>10
<1>4. CASE ~\E i \in DOMAIN parts : parts[i] = "block"
  <2>1. NewDocs(parts) = parts \o b
    BY <1>4 DEF NewDocs, b
  <2>2. /\ parts \o b \in Seq(Parts) /\ Len(parts \o b) = n + Len(b)
        /\ \A i \in 1 .. n + Len(b) : (parts \o b)[i] = IF i <= n THEN parts[i] ELSE b[i - n]
    BY <1>1, ConcatProperties
  <2>3. parts \o b # <<>>
    BY <1>1, <1>2, <2>2, EmptySeq
  <2>4. parts # <<>> => (parts \o b)[1] = parts[1]
    BY <1>1, <1>2, <2>2
  <2>5. QED
    BY <2>1, <2>2, <2>3, <2>4
<1>5. QED
  BY <1>3, <1>4

\* A process that has read a file and holds what it will write.
LEMMA ReadType ==
    ASSUME TypeInv, NEW w \in Procs, Running(w),
           NEW step, step = Head(proc[w].todo), step \in {"telemetry", "summary", "memory", "update-docs"},
           NEW b \in ContentOf(FileOf(step)), step # "summary" => b # <<>>,
           Read(w, FileOf(step), [proc[w] EXCEPT !.buf = b])
    PROVE  LET p == proc[w]  q == proc'[w]  f == FileOf(step)
           IN  /\ TypeInv' /\ q.todo = p.todo /\ q.call = p.call /\ q.alone = p.alone
               /\ q.at = "truncate" /\ q.buf = b
               /\ \A v \in Procs \ {w} : proc'[v] = proc[v]
               /\ harmed' = [harmed EXCEPT ![f] = @ \/ \E v \in Procs \ {w} : Rewriting(v, f)]
               /\ UNCHANGED <<day, tables, files, kept, exported>>
<1> DEFINE p == proc[w]
           f == FileOf(step)
           q == [p EXCEPT !.buf = b, !.at = "truncate"]
<1>1. /\ Becomes(w, q) /\ UNCHANGED <<day, tables, files, kept, exported>>
      /\ harmed' = [harmed EXCEPT ![f] = @ \/ \E v \in Procs \ {w} : Rewriting(v, f)]
  BY DEF Read
<1>2. /\ ProcOK(p) /\ p \in Process /\ p.todo # <<>> /\ InTables(p, prs, guidance)
  BY AtMeans
<1>3. /\ q \in Process /\ q.todo = p.todo /\ q.call = p.call /\ q.exit = p.exit /\ q.alone = p.alone
      /\ q.at = "truncate" /\ q.buf = b
  BY <1>2, ContentFits DEF Process, Places
<1> HIDE DEF q
<1>4. StepOK(q, Head(p.todo))
  BY <1>3 DEF StepOK, Stages
<1>5. ProcOK(q) /\ InTables(q, prs', guidance')
  BY <1>2, <1>3, <1>4, GoesOn DEF InTables
<1>6. UNCHANGED <<day, prs, prFiles, events, guidance>>
  BY <1>1 DEF tables
<1>7. ProcsOK' /\ proc'[w] = q /\ \A v \in Procs \ {w} : proc'[v] = proc[v]
  BY <1>1, <1>5, <1>6, OneMoves DEF TypeInv
<1>8. TablesOK'
  BY <1>1, <1>6 DEF TypeInv, TablesOK
<1>9. harmed' \in [Files -> BOOLEAN]
  <2> DEFINE h == \E v \in Procs \ {w} : Rewriting(v, f)
  <2>1. harmed \in [Files -> BOOLEAN] /\ harmed' = [harmed EXCEPT ![f] = harmed[f] \/ h]
    BY <1>1 DEF TypeInv, FilesOK
  <2> HIDE DEF h, f
  <2>2. QED
    BY <2>1
<1>10. FilesOK'
  BY <1>1, <1>9 DEF TypeInv, FilesOK
<1>11. QED
  BY <1>1, <1>3, <1>7, <1>8, <1>10 DEF TypeInv

LEMMA LoadTelemetryType ==
    ASSUME TypeInv, NEW w \in Procs, LoadTelemetry(w)
    PROVE  LET p == proc[w]  q == proc'[w]
           IN  /\ TypeInv' /\ Running(w) /\ Head(p.todo) = "telemetry" /\ p.at = "load"
               /\ q.todo = p.todo /\ q.call = p.call /\ q.alone = p.alone /\ q.at = "truncate"
               /\ \E e \in Entries : q.buf = Append(Loaded("telemetry"), e)
               /\ \A v \in Procs \ {w} : proc'[v] = proc[v]
               /\ harmed' = [harmed EXCEPT !["telemetry"] = @ \/ \E v \in Procs \ {w} : Rewriting(v, "telemetry")]
               /\ UNCHANGED <<day, tables, files, kept, exported>>
<1> DEFINE p == proc[w]
           b == Loaded("telemetry") \o p.buf
<1>1. /\ Running(w) /\ Head(p.todo) = "telemetry" /\ p.at = "load"
      /\ Read(w, "telemetry", [p EXCEPT !.buf = b])
  BY DEF LoadTelemetry, At
<1>2. PICK e \in Entries : p.buf = <<e>>
  BY <1>1, AtMeans DEF StepOK
<1>3. Loaded("telemetry") \in Seq(Entries)
  BY LoadedType DEF ContentOf, Files
<1>4. b = Append(Loaded("telemetry"), e) /\ b \in Seq(Entries) /\ b # <<>>
  BY <1>2, <1>3, AppendIsConcat, AppendProperties
<1>5. FileOf("telemetry") = "telemetry" /\ ContentOf("telemetry") = Seq(Entries)
  BY DEF FileOf, ContentOf
<1> HIDE DEF b
<1>6. /\ Read(w, FileOf("telemetry"), [p EXCEPT !.buf = b]) /\ b \in ContentOf(FileOf("telemetry")) /\ b # <<>>
      /\ "telemetry" = Head(p.todo) /\ "telemetry" \in {"telemetry", "summary", "memory", "update-docs"}
  BY <1>1, <1>4, <1>5
<1>7. /\ TypeInv' /\ proc'[w].todo = p.todo /\ proc'[w].call = p.call /\ proc'[w].alone = p.alone
      /\ proc'[w].at = "truncate" /\ proc'[w].buf = b
      /\ \A v \in Procs \ {w} : proc'[v] = proc[v]
      /\ harmed' = [harmed EXCEPT ![FileOf("telemetry")] =
                        @ \/ \E v \in Procs \ {w} : Rewriting(v, FileOf("telemetry"))]
      /\ UNCHANGED <<day, tables, files, kept, exported>>
  <2>1. Running(w)
    BY <1>1
  <2> HIDE DEF p
  <2>2. QED
    BY <1>6, <2>1, ReadType DEF p
<1>8. QED
  BY <1>1, <1>4, <1>5, <1>7

LEMMA LoadForSummaryType ==
    ASSUME TypeInv, NEW w \in Procs, LoadForSummary(w)
    PROVE  LET p == proc[w]  q == proc'[w]
           IN  /\ TypeInv' /\ Running(w) /\ Head(p.todo) = "summary" /\ p.at = "start"
               /\ q.todo = p.todo /\ q.call = p.call /\ q.alone = p.alone /\ q.at = "truncate"
               /\ q.buf = Loaded("telemetry")
               /\ \A v \in Procs \ {w} : proc'[v] = proc[v]
               /\ harmed' = [harmed EXCEPT !["summary"] = @ \/ \E v \in Procs \ {w} : Rewriting(v, "summary")]
               /\ UNCHANGED <<day, tables, files, kept, exported>>
<1>1. /\ Running(w) /\ Head(proc[w].todo) = "summary" /\ proc[w].at = "start"
      /\ Read(w, "summary", [proc[w] EXCEPT !.buf = Loaded("telemetry")])
  BY DEF LoadForSummary, At
<1>2. Loaded("telemetry") \in ContentOf("telemetry")
  BY LoadedType DEF Files
<1>3. FileOf("summary") = "summary" /\ ContentOf("summary") = ContentOf("telemetry")
  BY DEF FileOf, ContentOf
<1>4. QED
  BY <1>1, <1>2, <1>3, ReadType

LEMMA LoadMemoryType ==
    ASSUME TypeInv, NEW w \in Procs, LoadMemory(w)
    PROVE  LET p == proc[w]  q == proc'[w]
           IN  /\ TypeInv' /\ Running(w) /\ Head(p.todo) = "memory" /\ p.at = "start"
               /\ q.todo = p.todo /\ q.call = p.call /\ q.alone = p.alone /\ q.at = "truncate"
               /\ q.buf = Append(Loaded("memory"), w)
               /\ \A v \in Procs \ {w} : proc'[v] = proc[v]
               /\ harmed' = [harmed EXCEPT !["memory"] = @ \/ \E v \in Procs \ {w} : Rewriting(v, "memory")]
               /\ UNCHANGED <<day, tables, files, kept, exported>>
<1>1. /\ Running(w) /\ Head(proc[w].todo) = "memory" /\ proc[w].at = "start"
      /\ Read(w, "memory", [proc[w] EXCEPT !.buf = Append(Loaded("memory"), w)])
  BY DEF LoadMemory, At
<1>2. Loaded("memory") \in Seq(Procs)
  BY LoadedType DEF Files, ContentOf
<1>3. Append(Loaded("memory"), w) \in Seq(Procs) /\ Append(Loaded("memory"), w) # <<>>
  BY <1>2, AppendProperties
<1>4. FileOf("memory") = "memory" /\ ContentOf("memory") = Seq(Procs)
  BY DEF FileOf, ContentOf
<1> DEFINE b == Append(Loaded("memory"), w)
<1> HIDE DEF b
<1>5. /\ Read(w, FileOf("memory"), [proc[w] EXCEPT !.buf = b]) /\ b \in ContentOf(FileOf("memory")) /\ b # <<>>
      /\ "memory" = Head(proc[w].todo) /\ "memory" \in {"telemetry", "summary", "memory", "update-docs"}
  BY <1>1, <1>3, <1>4 DEF b
<1>6. /\ TypeInv' /\ proc'[w].todo = proc[w].todo /\ proc'[w].call = proc[w].call
      /\ proc'[w].alone = proc[w].alone /\ proc'[w].at = "truncate" /\ proc'[w].buf = b
      /\ \A v \in Procs \ {w} : proc'[v] = proc[v]
      /\ harmed' = [harmed EXCEPT !["memory"] = @ \/ \E v \in Procs \ {w} : Rewriting(v, "memory")]
      /\ UNCHANGED <<day, tables, files, kept, exported>>
  BY <1>1, <1>4, <1>5, ReadType
<1>7. QED
  BY <1>1, <1>6 DEF b

LEMMA LoadDocsType ==
    ASSUME TypeInv, NEW w \in Procs, LoadDocs(w)
    PROVE  LET p == proc[w]  q == proc'[w]
           IN  /\ TypeInv' /\ Running(w) /\ Head(p.todo) = "update-docs" /\ p.at = "load"
               /\ \A v \in Procs \ {w} : proc'[v] = proc[v]
               /\ \/ /\ q.todo = p.todo /\ q.call = p.call /\ q.alone = p.alone /\ q.at = "truncate"
                     /\ q.buf = NewDocs(Loaded("docs"))
                     /\ harmed' = [harmed EXCEPT !["docs"] = @ \/ \E v \in Procs \ {w} : Rewriting(v, "docs")]
                     /\ UNCHANGED <<day, tables, files, kept, exported>>
                  \/ Becomes(w, Exits(p, "error")) /\ UNCHANGED <<day, tables, stores, exported>>
<1> DEFINE p == proc[w]
<1>1. Running(w) /\ Head(p.todo) = "update-docs" /\ p.at = "load"
  BY DEF LoadDocs, At
<1>2. CASE Read(w, "docs", [p EXCEPT !.buf = NewDocs(Loaded("docs"))])
  <2>1. Loaded("docs") \in Seq(Parts)
    BY LoadedType DEF Files, ContentOf
  <2>2. NewDocs(Loaded("docs")) \in Seq(Parts) /\ NewDocs(Loaded("docs")) # <<>>
    BY <2>1, NewDocsType
  <2>3. FileOf("update-docs") = "docs" /\ ContentOf("docs") = Seq(Parts)
    BY DEF FileOf, ContentOf
  <2>4. QED
    BY <1>1, <1>2, <2>2, <2>3, ReadType
<1>3. CASE Becomes(w, Exits(p, "error")) /\ UNCHANGED <<day, tables, stores, exported>>
  <2>1. "error" \in Codes \ {"none"}
    BY DEF Codes
  <2>2. TypeInv'
    BY <1>1, <1>3, <2>1, AllEnds
  <2>3. \A v \in Procs \ {w} : proc'[v] = proc[v]
    BY <1>3 DEF Becomes, TypeInv, ProcsOK
  <2>4. QED
    BY <1>1, <1>3, <2>2, <2>3
<1>4. QED
  BY <1>2, <1>3 DEF LoadDocs

LEMMA EntryType ==
    ASSUME NEW c \in CallType, NEW components \in SUBSET Components
    PROVE  Entry(c, components) \in Entries
<1> DEFINE required == Required(ActiveFor(components))
           skipped == IF c.manifest = NoManifest \/ Compliant(required, c.manifest, c.require_any)
                      THEN {} ELSE Missing(required, c.manifest)
<1>1. required \subseteq Required(Rules)
  BY DEF Required, ActiveFor, Active
<1>2. Missing(required, c.manifest) \subseteq required
  BY DEF Missing
<1>3. skipped \in SUBSET Required(Rules)
  BY <1>1, <1>2
<1>4. c.pr \in Prs
  BY DEF CallType
<1>5. Entry(c, components) = [pr |-> c.pr, components |-> components, skipped |-> skipped]
  BY DEF Entry
<1> HIDE DEF skipped
<1>6. QED
  BY <1>3, <1>4, <1>5 DEF Entries

LEMMA SelectForTelemetryType ==
    ASSUME TypeInv, NEW w \in Procs, SelectForTelemetry(w)
    PROVE  LET p == proc[w]  q == proc'[w]
           IN  /\ TypeInv' /\ Running(w) /\ Head(p.todo) = "telemetry" /\ p.at = "guidance"
               /\ q.todo = p.todo /\ q.call = p.call /\ q.alone = p.alone /\ q.at = "load"
<1> DEFINE p == proc[w]
           q == [p EXCEPT !.at = "load", !.buf = <<Entry(p.call, p.left)>>]
<1>1. /\ Running(w) /\ Head(p.todo) = "telemetry" /\ p.at = "guidance"
      /\ Becomes(w, q) /\ UNCHANGED <<day, tables, stores, exported>>
  BY DEF SelectForTelemetry, At
<1>2. /\ ProcOK(p) /\ p \in Process /\ p.todo # <<>> /\ p.call \in CallType
      /\ StepOK(p, Head(p.todo)) /\ InTables(p, prs, guidance)
  BY <1>1, AtMeans
<1>3. Entry(p.call, p.left) \in Entries
  BY <1>1, <1>2, EntryType DEF StepOK
<1>4. <<Entry(p.call, p.left)>> \in Seq(Procs \cup Entries \cup Parts \cup Nat)
  BY <1>3
<1>5. /\ q \in Process /\ q.todo = p.todo /\ q.call = p.call /\ q.exit = p.exit /\ q.alone = p.alone
      /\ q.at = "load" /\ q.buf = <<Entry(p.call, p.left)>>
  BY <1>2, <1>4 DEF Process, Places
<1> HIDE DEF q
<1>6. StepOK(q, Head(p.todo))
  BY <1>1, <1>3, <1>5 DEF StepOK, Stages
<1>7. ProcOK(q) /\ InTables(q, prs, guidance)
  BY <1>1, <1>2, <1>5, <1>6, GoesOn DEF InTables
<1>8. QED
  BY <1>1, <1>5, <1>7, OnlyMoves

LEMMA SelectForDocsType ==
    ASSUME TypeInv, NEW w \in Procs, SelectForDocs(w)
    PROVE  LET p == proc[w]  q == proc'[w]
           IN  /\ TypeInv' /\ Running(w) /\ Head(p.todo) = "update-docs" /\ p.at = "start"
               /\ q.todo = p.todo /\ q.call = p.call /\ q.alone = p.alone /\ q.at = "load"
<1> DEFINE p == proc[w]
           q == [p EXCEPT !.at = "load", !.picked = Active]
<1>1. /\ Running(w) /\ Head(p.todo) = "update-docs" /\ p.at = "start"
      /\ Becomes(w, q) /\ UNCHANGED <<day, tables, stores, exported>>
  BY DEF SelectForDocs, At
<1>2. /\ ProcOK(p) /\ p \in Process /\ p.todo # <<>> /\ InTables(p, prs, guidance)
  BY <1>1, AtMeans
<1>3. Active \subseteq Rules
  BY DEF Active
<1>4. /\ q \in Process /\ q.todo = p.todo /\ q.call = p.call /\ q.exit = p.exit /\ q.alone = p.alone
      /\ q.at = "load"
  BY <1>2, <1>3 DEF Process, Places
<1> HIDE DEF q
<1>5. StepOK(q, Head(p.todo))
  BY <1>1, <1>4 DEF StepOK, Stages
<1>6. ProcOK(q) /\ InTables(q, prs, guidance)
  BY <1>1, <1>2, <1>4, <1>5, GoesOn DEF InTables
<1>7. QED
  BY <1>1, <1>4, <1>6, OnlyMoves

LEMMA InFileMeans ==
    ASSUME TypeInv, NEW w \in Procs, NEW at \in {"truncate", "fill"}, InFile(w, at)
    PROVE  /\ Running(w) /\ proc[w].at = at /\ ProcOK(proc[w]) /\ proc[w] \in Process
           /\ Head(proc[w].todo) \in {"telemetry", "summary", "memory", "update-docs"}
           /\ File(w) \in Files /\ File(w) = FileOf(Head(proc[w].todo))
           /\ proc[w].buf \in ContentOf(File(w)) /\ (File(w) # "summary" => proc[w].buf # <<>>)
           /\ File(w) \in {"telemetry", "memory"} => proc[w].buf[Len(proc[w].buf)] \in
                (IF File(w) = "memory" THEN Procs ELSE Entries)
<1>1. /\ Running(w) /\ proc[w].at = at
      /\ Head(proc[w].todo) \in {"telemetry", "summary", "memory", "update-docs"}
  BY DEF InFile
<1>2. ProcOK(proc[w]) /\ proc[w] \in Process /\ StepOK(proc[w], Head(proc[w].todo))
  BY <1>1, AtMeans
<1>3. File(w) \in Files /\ File(w) = FileOf(Head(proc[w].todo))
  BY <1>1 DEF File, FileOf, Files
<1>4. proc[w].buf \in ContentOf(File(w)) /\ (File(w) # "summary" => proc[w].buf # <<>>)
  BY <1>1, <1>2, <1>3 DEF StepOK, FileOf
<1>5. ASSUME NEW S, NEW b \in Seq(S), b # <<>> PROVE b[Len(b)] \in S
  BY <1>5, LenProperties, EmptySeq, ElementOfSeq
<1>6. File(w) \in {"telemetry", "memory"} =>
         proc[w].buf \in Seq(IF File(w) = "memory" THEN Procs ELSE Entries) /\ proc[w].buf # <<>>
  BY <1>4 DEF ContentOf
<1>7. QED
  BY <1>1, <1>2, <1>3, <1>4, <1>5, <1>6

LEMMA TruncateType ==
    ASSUME TypeInv, NEW w \in Procs, Truncate(w)
    PROVE  LET p == proc[w]  q == proc'[w]
           IN  /\ TypeInv' /\ q.todo = p.todo /\ q.call = p.call /\ q.alone = p.alone
               /\ q.at = "fill" /\ q.buf = p.buf
               /\ \A v \in Procs \ {w} : proc'[v] = proc[v]
<1> DEFINE p == proc[w]
           q == [p EXCEPT !.at = "fill"]
<1>1. /\ InFile(w, "truncate") /\ files' = [files EXCEPT ![File(w)] = Torn]
      /\ Becomes(w, q) /\ UNCHANGED <<day, tables, kept, harmed, exported>>
  BY DEF Truncate
<1>2. /\ Running(w) /\ ProcOK(p) /\ p \in Process /\ p.at = "truncate" /\ File(w) \in Files
      /\ Head(p.todo) \in {"telemetry", "summary", "memory", "update-docs"}
  BY <1>1, InFileMeans
<1>3. p.todo # <<>> /\ StepOK(p, Head(p.todo)) /\ InTables(p, prs, guidance)
  BY <1>2, AtMeans
<1>4. /\ q \in Process /\ q.todo = p.todo /\ q.call = p.call /\ q.exit = p.exit /\ q.alone = p.alone
      /\ q.at = "fill" /\ q.buf = p.buf
  BY <1>2 DEF Process, Places
<1> HIDE DEF q
<1>5. StepOK(q, Head(p.todo))
  BY <1>2, <1>3, <1>4 DEF StepOK, Stages
<1>6. ProcOK(q) /\ InTables(q, prs', guidance')
  BY <1>2, <1>3, <1>4, <1>5, GoesOn DEF InTables
<1>7. UNCHANGED <<day, prs, prFiles, events, guidance>>
  BY <1>1 DEF tables
<1>8. ProcsOK' /\ proc'[w] = q /\ \A v \in Procs \ {w} : proc'[v] = proc[v]
  BY <1>1, <1>6, <1>7, OneMoves DEF TypeInv
<1>9. TablesOK' /\ FilesOK'
  BY <1>1, <1>2, <1>7 DEF TypeInv, TablesOK, FilesOK
<1>10. QED
  BY <1>4, <1>8, <1>9 DEF TypeInv

LEMMA FillType ==
    ASSUME TypeInv, NEW w \in Procs, Fill(w)
    PROVE  LET p == proc[w]  q == proc'[w]
           IN  /\ TypeInv' /\ \A v \in Procs \ {w} : proc'[v] = proc[v]
               /\ \/ /\ q.todo = p.todo /\ q.call = p.call /\ q.alone = p.alone /\ q.at = "stage"
                     /\ File(w) \in {"memory", "summary"}
                  \/ q = Done(p) /\ File(w) \notin {"memory", "summary"}
<1> DEFINE p == proc[w]
           f == File(w)
           q == [p EXCEPT !.at = "stage"]
<1>1. /\ InFile(w, "fill")
      /\ \E c \in {p.buf} \cup (IF files[f] = Torn THEN {} ELSE {Torn}) : files' = [files EXCEPT ![f] = c]
      /\ kept' = [kept EXCEPT ![f] =
              IF f \in {"memory", "telemetry"} THEN Append(@, p.buf[Len(p.buf)]) ELSE @]
      /\ Becomes(w, IF f \in {"memory", "summary"} THEN q ELSE Done(p))
      /\ UNCHANGED <<day, tables, harmed, exported>>
  BY DEF Fill
<1>2. /\ Running(w) /\ ProcOK(p) /\ p \in Process /\ p.at = "fill" /\ f \in Files
      /\ Head(p.todo) \in {"telemetry", "summary", "memory", "update-docs"} /\ f = FileOf(Head(p.todo))
      /\ p.buf \in ContentOf(f)
      /\ f \in {"telemetry", "memory"} => p.buf[Len(p.buf)] \in (IF f = "memory" THEN Procs ELSE Entries)
  BY <1>1, InFileMeans
<1>3. p.todo # <<>> /\ StepOK(p, Head(p.todo)) /\ InTables(p, prs, guidance)
  BY <1>2, AtMeans
<1>4. /\ q \in Process /\ q.todo = p.todo /\ q.call = p.call /\ q.exit = p.exit /\ q.alone = p.alone
      /\ q.at = "stage"
  BY <1>2 DEF Process, Places
<1> HIDE DEF q, f
<1>5. f \in {"memory", "summary"} => ProcOK(q) /\ InTables(q, prs', guidance')
  <2> SUFFICES ASSUME f \in {"memory", "summary"} PROVE ProcOK(q) /\ InTables(q, prs', guidance')
    OBVIOUS
  <2>1. Head(p.todo) \in {"memory", "summary"}
    BY <1>2 DEF FileOf
  <2>2. StepOK(q, Head(p.todo))
    BY <1>4, <2>1 DEF StepOK, Stages
  <2>3. QED
    BY <1>2, <1>3, <1>4, <2>1, <2>2, GoesOn DEF InTables
<1>6. ProcOK(Done(p)) /\ InTables(Done(p), prs', guidance')
  BY <1>2, <1>3, DoneIs, DoneInTables
<1>7. UNCHANGED <<day, prs, prFiles, events, guidance>>
  BY <1>1 DEF tables
<1>8. /\ ProcsOK' /\ proc'[w] = (IF f \in {"memory", "summary"} THEN q ELSE Done(p))
      /\ \A v \in Procs \ {w} : proc'[v] = proc[v]
  BY <1>1, <1>5, <1>6, <1>7, OneMoves DEF TypeInv
<1>9. files' = [g \in Files |-> files'[g]] /\ \A g \in Files : files'[g] \in ContentOf(g) \cup {Torn}
  BY <1>1, <1>2 DEF TypeInv, FilesOK
<1>10. kept' = [g \in Files |-> kept'[g]] /\ \A g \in Files : kept'[g] \in ContentOf(g)
  <2> DEFINE x == p.buf[Len(p.buf)]
             k == IF f \in {"memory", "telemetry"} THEN Append(kept[f], x) ELSE kept[f]
  <2>1. kept' = [kept EXCEPT ![f] = k] /\ kept = [g \in Files |-> kept[g]] /\ \A g \in Files : kept[g] \in ContentOf(g)
    BY <1>1 DEF TypeInv, FilesOK
  <2>2. k \in ContentOf(f)
    <3>1. f \in {"memory", "telemetry"} => x \in (IF f = "memory" THEN Procs ELSE Entries)
      BY <1>2
    <3>2. \A S : \A s \in Seq(S), e \in S : Append(s, e) \in Seq(S)
      BY AppendProperties
    <3>3. kept[f] \in ContentOf(f)
      BY <1>2, <2>1
    <3> HIDE DEF x
    <3>4. QED
      BY <3>1, <3>2, <3>3 DEF ContentOf
  <2> HIDE DEF k
  <2>3. QED
    BY <1>2, <2>1, <2>2
<1>11. TablesOK' /\ FilesOK'
  BY <1>1, <1>7, <1>9, <1>10 DEF TypeInv, TablesOK, FilesOK
<1>12. QED
  BY <1>4, <1>8, <1>11 DEF TypeInv, f

LEMMA StageType ==
    ASSUME TypeInv, NEW w \in Procs, Stage(w)
    PROVE  /\ TypeInv' /\ Running(w) /\ Head(proc[w].todo) \in {"memory", "summary"} /\ proc[w].at = "stage"
           /\ Becomes(w, Done(proc[w])) \/ (Becomes(w, Exits(proc[w], "1")) /\ Head(proc[w].todo) = "memory")
           /\ \A v \in Procs \ {w} : proc'[v] = proc[v]
           /\ UNCHANGED <<day, tables, files, kept, harmed, exported>>
<1>1. /\ Running(w) /\ Head(proc[w].todo) \in {"memory", "summary"} /\ proc[w].at = "stage"
      /\ UNCHANGED <<day, tables, files, kept, harmed, exported>>
  BY DEF Stage, At
<1>2. Becomes(w, Done(proc[w])) \/ (Becomes(w, Exits(proc[w], "1")) /\ Head(proc[w].todo) = "memory")
  BY <1>1 DEF Stage, File, FileOf
<1>3. UNCHANGED <<day, prs, prFiles, events, guidance>>
  BY <1>1 DEF tables
<1>4. "1" \in Codes \ {"none"}
  BY DEF Codes
<1>5. /\ ProcOK(Done(proc[w])) /\ InTables(Done(proc[w]), prs', guidance')
      /\ ProcOK(Exits(proc[w], "1")) /\ InTables(Exits(proc[w], "1"), prs', guidance')
  BY <1>1, <1>4, AtMeans, DoneIs, DoneInTables, ExitsIs, ExitsInTables
<1>6. ProcsOK' /\ \A v \in Procs \ {w} : proc'[v] = proc[v]
  BY <1>2, <1>3, <1>5, OneMoves DEF TypeInv
<1>7. TablesOK' /\ FilesOK'
  BY <1>1, <1>3 DEF TypeInv, TablesOK, FilesOK
<1>8. QED
  BY <1>1, <1>2, <1>6, <1>7 DEF TypeInv

\* An exception: telemetry is given up with its summary.
LEMMA FailsType ==
    ASSUME TypeInv, NEW w \in Procs, Fails(w)
    PROVE  LET p == proc[w]  q == proc'[w]
           IN  /\ TypeInv' /\ Running(w) /\ p.at \in {"truncate", "fill", "events", "load"}
               /\ q.call = p.call /\ q.alone = p.alone /\ q.at = "start" /\ q.left = {} /\ q.picked = {}
               /\ \/ /\ Head(p.todo) = "telemetry" /\ q.todo = Tail(Tail(p.todo))
                     /\ Tail(p.todo) # <<>> /\ Head(Tail(p.todo)) = "summary"
                     /\ q.exit = (IF q.todo = <<>> THEN "0" ELSE "none")
                  \/ /\ Head(p.todo) = "summary" /\ q.todo = Tail(p.todo)
                     /\ q.exit = (IF q.todo = <<>> THEN "0" ELSE "none")
                  \/ /\ Head(p.todo) \notin {"telemetry", "summary"} /\ q.todo = <<>> /\ q.exit = "1"
               /\ \A v \in Procs \ {w} : proc'[v] = proc[v]
               /\ harmed' = [f \in Files |-> harmed[f] \/ f \in Harms(w)]
               /\ UNCHANGED <<day, tables, files, kept, exported>>
<1> DEFINE p == proc[w]
           given == IF Head(p.todo) = "telemetry" THEN [p EXCEPT !.todo = Tail(@)] ELSE p
           q == IF Head(p.todo) \in {"telemetry", "summary"} THEN Done(given) ELSE Exits(p, "1")
<1>1. /\ Running(w) /\ p.at \in {"truncate", "fill", "events", "load"} /\ Becomes(w, q)
      /\ harmed' = [f \in Files |-> harmed[f] \/ f \in Harms(w)]
      /\ UNCHANGED <<day, tables, files, kept, exported>>
  BY DEF Fails
<1>2. /\ ProcOK(p) /\ p \in Process /\ p.todo # <<>> /\ p.call # NoCall /\ p.exit = "none" /\ TodoOK(p.todo)
      /\ p.call.cmd = "check-compliance" => p.todo = <<"check-compliance">>
  BY <1>1, AtMeans DEF ProcOK
<1>3. /\ ProcOK(q) /\ q.call = p.call /\ q.alone = p.alone /\ q.at = "start" /\ q.left = {} /\ q.picked = {}
      /\ \/ /\ Head(p.todo) = "telemetry" /\ q.todo = Tail(Tail(p.todo))
            /\ Tail(p.todo) # <<>> /\ Head(Tail(p.todo)) = "summary"
            /\ q.exit = (IF q.todo = <<>> THEN "0" ELSE "none")
         \/ /\ Head(p.todo) = "summary" /\ q.todo = Tail(p.todo)
            /\ q.exit = (IF q.todo = <<>> THEN "0" ELSE "none")
         \/ /\ Head(p.todo) \notin {"telemetry", "summary"} /\ q.todo = <<>> /\ q.exit = "1"
  <2>1. CASE Head(p.todo) = "telemetry"
    <3> DEFINE g == [p EXCEPT !.todo = Tail(@)]
    <3>1. TodoOK(Tail(p.todo)) /\ Tail(p.todo) # <<>> /\ Head(Tail(p.todo)) = "summary"
      BY <1>2, <2>1, RestOfScript
    <3>2. Tail(p.todo) \in Seq(Steps)
      BY <3>1 DEF TodoOK
    <3>3. /\ g \in Process /\ g.todo = Tail(p.todo) /\ g.exit = p.exit /\ g.call = p.call /\ g.alone = p.alone
      BY <1>2, <3>2 DEF Process
    <3>4. q = Done(g)
      BY <2>1
    <3> HIDE DEF g, q
    <3>5. p.call.cmd # "check-compliance"
      <4>1. Tail(<<"check-compliance">>) = <<>>
        OBVIOUS
      <4>2. QED
        BY <1>2, <3>1, <4>1
    <3>6. /\ ProcOK(Done(g)) /\ Done(g).todo = Tail(g.todo) /\ Done(g).call = g.call /\ Done(g).alone = g.alone
          /\ Done(g).exit = (IF Tail(g.todo) = <<>> THEN "0" ELSE "none")
          /\ Done(g).at = "start" /\ Done(g).left = {} /\ Done(g).picked = {}
      BY <1>2, <3>1, <3>3, <3>5, NextStepIs
    <3>7. QED
      BY <2>1, <3>1, <3>3, <3>4, <3>6
  <2>2. CASE Head(p.todo) = "summary"
    <3>1. q = Done(p)
      BY <2>2
    <3>2. /\ ProcOK(Done(p)) /\ Done(p).todo = Tail(p.todo) /\ Done(p).call = p.call /\ Done(p).alone = p.alone
          /\ Done(p).exit = (IF Tail(p.todo) = <<>> THEN "0" ELSE "none")
          /\ Done(p).at = "start" /\ Done(p).left = {} /\ Done(p).picked = {}
      BY <1>2, DoneIs
    <3> HIDE DEF q, p
    <3>3. QED
      BY <2>2, <3>1, <3>2
  <2>3. CASE Head(p.todo) \notin {"telemetry", "summary"}
    <3>1. q = Exits(p, "1")
      BY <2>3
    <3>2. "1" \in Codes \ {"none"}
      BY DEF Codes
    <3>3. /\ ProcOK(Exits(p, "1")) /\ Exits(p, "1").todo = <<>> /\ Exits(p, "1").call = p.call
          /\ Exits(p, "1").alone = p.alone /\ Exits(p, "1").exit = "1"
          /\ Exits(p, "1").at = "start" /\ Exits(p, "1").left = {} /\ Exits(p, "1").picked = {}
      BY <1>2, <3>2, ExitsIs
    <3> HIDE DEF q, p
    <3>4. QED
      BY <2>3, <3>1, <3>3
  <2>4. QED
    BY <2>1, <2>2, <2>3
<1> HIDE DEF q
<1>4. UNCHANGED <<day, prs, prFiles, events, guidance>>
  BY <1>1 DEF tables
<1>5. InTables(q, prs', guidance')
  BY <1>3 DEF InTables
<1>6. ProcsOK' /\ proc'[w] = q /\ \A v \in Procs \ {w} : proc'[v] = proc[v]
  BY <1>1, <1>3, <1>4, <1>5, OneMoves DEF TypeInv
<1>7. TablesOK' /\ FilesOK'
  BY <1>1, <1>4 DEF TypeInv, TablesOK, FilesOK
<1>8. QED
  BY <1>1, <1>3, <1>6, <1>7 DEF TypeInv

LEMMA KilledType ==
    ASSUME TypeInv, NEW w \in Procs, Killed(w)
    PROVE  /\ TypeInv' /\ Running(w) /\ proc'[w] = Exits(proc[w], "killed")
           /\ proc'[w].todo = <<>> /\ proc'[w].exit = "killed"
           /\ proc'[w].call = proc[w].call /\ proc'[w].alone = proc[w].alone
           /\ \A v \in Procs \ {w} : proc'[v] = proc[v]
           /\ harmed' = [f \in Files |-> harmed[f] \/ f \in Harms(w)]
           /\ UNCHANGED <<day, tables, files, kept, exported>>
<1> DEFINE q == Exits(proc[w], "killed")
<1>1. /\ Running(w) /\ Becomes(w, q) /\ harmed' = [f \in Files |-> harmed[f] \/ f \in Harms(w)]
      /\ UNCHANGED <<day, tables, files, kept, exported>>
  BY DEF Killed
<1>2. "killed" \in Codes \ {"none"}
  BY DEF Codes
<1>3. /\ ProcOK(q) /\ InTables(q, prs', guidance') /\ q.todo = <<>> /\ q.exit = "killed"
      /\ q.call = proc[w].call /\ q.alone = proc[w].alone
  BY <1>1, <1>2, AtMeans, ExitsIs, ExitsInTables
<1>4. UNCHANGED <<day, prs, prFiles, events, guidance>>
  BY <1>1 DEF tables
<1> HIDE DEF q
<1>5. ProcsOK' /\ proc'[w] = q /\ \A v \in Procs \ {w} : proc'[v] = proc[v]
  BY <1>1, <1>3, <1>4, OneMoves DEF TypeInv
<1>6. TablesOK' /\ FilesOK'
  BY <1>1, <1>4 DEF TypeInv, TablesOK, FilesOK
<1>7. QED
  BY <1>1, <1>3, <1>5, <1>6 DEF TypeInv, q

\* What a process does not know: whether it ran alone.
LEMMA AloneIs ==
    ASSUME NEW p, ProcOK(p), NEW b \in BOOLEAN
    PROVE  LET q == [p EXCEPT !.alone = b]
           IN  /\ ProcOK(q) /\ q.todo = p.todo /\ q.call = p.call /\ q.at = p.at /\ q.left = p.left
               /\ q.picked = p.picked /\ q.table = p.table /\ q.buf = p.buf /\ q.exit = p.exit
               /\ q.alone = b /\ \A P, G : InTables(p, P, G) => InTables(q, P, G)
<1> DEFINE q == [p EXCEPT !.alone = b]
<1>1. /\ q \in Process /\ q.todo = p.todo /\ q.call = p.call /\ q.at = p.at /\ q.left = p.left
      /\ q.picked = p.picked /\ q.table = p.table /\ q.buf = p.buf /\ q.exit = p.exit /\ q.alone = b
  BY DEF ProcOK, Process
<1> HIDE DEF q
<1>2. p.todo # <<>> => StepOK(q, Head(q.todo))
  BY <1>1 DEF ProcOK, StepOK
<1>3. ProcOK(q)
  BY <1>1, <1>2 DEF ProcOK
<1>4. \A P, G : InTables(p, P, G) => InTables(q, P, G)
  BY <1>1 DEF InTables
<1>5. QED
  BY <1>1, <1>3, <1>4 DEF q

LEMMA TickType ==
    ASSUME TypeInv, Tick
    PROVE  /\ TypeInv' /\ UNCHANGED <<tables, stores, exported>>
           /\ \A v \in Procs : LET p == proc[v]  q == proc'[v]
                               IN  /\ q.todo = p.todo /\ q.call = p.call /\ q.at = p.at /\ q.left = p.left
                                   /\ q.picked = p.picked /\ q.table = p.table /\ q.buf = p.buf
                                   /\ q.exit = p.exit /\ q.alone = (p.alone /\ ~Running(v))
<1>1. /\ day < MaxDay /\ day' = day + 1 /\ UNCHANGED <<tables, stores, exported>>
      /\ proc' = [v \in Procs |-> [proc[v] EXCEPT !.alone = proc[v].alone /\ ~Running(v)]]
  BY DEF Tick
<1>2. ASSUME NEW v \in Procs
      PROVE  LET p == proc[v]  q == proc'[v]
             IN  /\ q.todo = p.todo /\ q.call = p.call /\ q.at = p.at /\ q.left = p.left
                 /\ q.picked = p.picked /\ q.table = p.table /\ q.buf = p.buf
                 /\ q.exit = p.exit /\ q.alone = (p.alone /\ ~Running(v))
                 /\ ProcOK(q) /\ InTables(q, prs, guidance)
  <2> DEFINE b == proc[v].alone /\ ~Running(v)
  <2>1. ProcOK(proc[v]) /\ InTables(proc[v], prs, guidance) /\ proc[v].alone \in BOOLEAN
    BY DEF TypeInv, ProcsOK, ProcOK, Process
  <2>2. b \in BOOLEAN /\ proc'[v] = [proc[v] EXCEPT !.alone = b]
    BY <1>1, <2>1
  <2> HIDE DEF b
  <2> DEFINE p == proc[v]
             u == [p EXCEPT !.alone = b]
  <2>3. /\ ProcOK(u) /\ u.todo = p.todo /\ u.call = p.call /\ u.at = p.at /\ u.left = p.left
        /\ u.picked = p.picked /\ u.table = p.table /\ u.buf = p.buf /\ u.exit = p.exit
        /\ u.alone = b /\ InTables(u, prs, guidance)
    BY <2>1, <2>2, AloneIs
  <2> HIDE DEF u
  <2>4. proc'[v] = u
    BY <2>2 DEF u
  <2>5. QED
    BY <2>3, <2>4 DEF b
<1>3. UNCHANGED <<prs, prFiles, events, guidance, files, kept, harmed, exported>>
  BY <1>1 DEF tables, stores
<1>4. ProcsOK'
  <2>1. DOMAIN proc' = Procs /\ proc' = [v \in Procs |-> proc'[v]]
    BY <1>1
  <2>2. \A v \in Procs : proc'[v] \in Process
    BY <1>2 DEF ProcOK
  <2>3. QED
    BY <1>2, <1>3, <2>1, <2>2 DEF ProcsOK
<1>5. TablesOK' /\ FilesOK'
  BY <1>1, <1>3, BlanksAssumption DEF TypeInv, TablesOK, FilesOK
<1>6. QED
  BY <1>1, <1>2, <1>4, <1>5 DEF TypeInv

\* A new process; those that run are no longer alone.
LEMMA StartType ==
    ASSUME TypeInv, NEW w \in Procs, NEW c \in Calls, Start(w, c)
    PROVE  LET others == {v \in Procs \ {w} : Running(v)}
           IN  /\ TypeInv' /\ UNCHANGED <<day, tables, stores, exported>>
               /\ proc[w].call = NoCall /\ ~Running(w)
               /\ proc'[w].call = c /\ proc'[w].alone = (others = {}) /\ proc'[w].at = "start"
               /\ proc'[w].picked = {} /\ proc'[w].left = {}
               /\ proc'[w].todo = Script(c) \/ (proc'[w].todo = <<>> /\ proc'[w].exit = "2")
               /\ \A v \in Procs \ {w} :
                     LET p == proc[v]  q == proc'[v]
                     IN  /\ q.todo = p.todo /\ q.call = p.call /\ q.at = p.at /\ q.left = p.left
                         /\ q.picked = p.picked /\ q.table = p.table /\ q.buf = p.buf
                         /\ q.exit = p.exit /\ q.alone = (p.alone /\ v \notin others)
<1> DEFINE others == {v \in Procs \ {w} : Running(v)}
           b == others = {}
           me == [Idle EXCEPT !.call = c, !.alone = b]
           q == IF c.feedback /\ ~c.telemetry THEN Exits(me, "2") ELSE [me EXCEPT !.todo = Script(c)]
<1>1. /\ proc[w].call = NoCall /\ UNCHANGED <<day, tables, stores, exported>>
      /\ proc' = [v \in Procs |-> IF v = w THEN q
                                  ELSE [proc[v] EXCEPT !.alone = proc[v].alone /\ v \notin others]]
  BY DEF Start
<1>2. ~Running(w)
  BY <1>1 DEF TypeInv, ProcsOK, ProcOK, Running
<1>3. /\ c \in CallType /\ c # NoCall /\ TodoOK(Script(c)) /\ Script(c) # <<>>
      /\ c.cmd = "check-compliance" => Script(c) = <<"check-compliance">>
  BY ScriptIs
<1>4. Idle \in Process /\ Idle.todo = <<>> /\ Idle.at = "start" /\ Idle.left = {} /\ Idle.picked = {}
      /\ Idle.exit = "none"
  BY IdleOK DEF ProcOK, Idle
<1>5. b \in BOOLEAN
  OBVIOUS
<1> HIDE DEF b
<1>6. /\ me \in Process /\ me.todo = <<>> /\ me.at = "start" /\ me.call = c /\ me.alone = b
      /\ me.left = {} /\ me.picked = {} /\ me.exit = "none"
  BY <1>4, <1>5 DEF Process
<1> HIDE DEF me
<1>7. /\ ProcOK(q) /\ InTables(q, prs, guidance) /\ q.call = c /\ q.alone = b /\ q.at = "start"
      /\ q.left = {} /\ q.picked = {}
      /\ q.todo = Script(c) \/ (q.todo = <<>> /\ q.exit = "2")
  <2>1. CASE c.feedback /\ ~c.telemetry
    <3>1. q = Exits(me, "2") /\ "2" \in Codes \ {"none"}
      BY <2>1 DEF Codes
    <3> HIDE DEF q
    <3>2. /\ ProcOK(Exits(me, "2")) /\ Exits(me, "2").todo = <<>> /\ Exits(me, "2").call = me.call
          /\ Exits(me, "2").alone = me.alone /\ Exits(me, "2").at = "start"
          /\ Exits(me, "2").left = {} /\ Exits(me, "2").picked = {} /\ Exits(me, "2").exit = "2"
          /\ InTables(Exits(me, "2"), prs, guidance)
      BY <1>3, <1>6, <3>1, ExitsIs, ExitsInTables
    <3>3. QED
      BY <1>6, <3>1, <3>2
  <2>2. CASE ~(c.feedback /\ ~c.telemetry)
    <3> DEFINE s == [me EXCEPT !.todo = Script(c)]
    <3>1. q = s
      BY <2>2
    <3>2. Script(c) \in Seq(Steps) /\ Head(Script(c)) \in Steps
      BY <1>3, RestOfScript DEF TodoOK
    <3>3. /\ s \in Process /\ s.todo = Script(c) /\ s.at = "start" /\ s.call = c /\ s.alone = b
          /\ s.left = {} /\ s.picked = {} /\ s.exit = "none"
      BY <1>6, <3>2 DEF Process
    <3> HIDE DEF s, q
    <3>4. StepOK(s, Head(Script(c)))
      BY <3>3 DEF StepOK, Stages
    <3>5. ProcOK(s) /\ InTables(s, prs, guidance)
      BY <1>3, <3>3, <3>4 DEF ProcOK, InTables
    <3>6. QED
      BY <3>1, <3>3, <3>5
  <2>3. QED
    BY <2>1, <2>2
<1> HIDE DEF q
<1>8. ASSUME NEW v \in Procs \ {w}
      PROVE  LET p == proc[v]  u == proc'[v]
             IN  /\ u.todo = p.todo /\ u.call = p.call /\ u.at = p.at /\ u.left = p.left
                 /\ u.picked = p.picked /\ u.table = p.table /\ u.buf = p.buf
                 /\ u.exit = p.exit /\ u.alone = (p.alone /\ v \notin others)
                 /\ ProcOK(u) /\ InTables(u, prs, guidance)
  <2> DEFINE a == proc[v].alone /\ v \notin others
  <2>1. ProcOK(proc[v]) /\ InTables(proc[v], prs, guidance) /\ proc[v].alone \in BOOLEAN
    BY DEF TypeInv, ProcsOK, ProcOK, Process
  <2>2. a \in BOOLEAN /\ proc'[v] = [proc[v] EXCEPT !.alone = a]
    BY <1>1, <2>1
  <2> HIDE DEF a
  <2> DEFINE p == proc[v]
             u == [p EXCEPT !.alone = a]
  <2>3. /\ ProcOK(u) /\ u.todo = p.todo /\ u.call = p.call /\ u.at = p.at /\ u.left = p.left
        /\ u.picked = p.picked /\ u.table = p.table /\ u.buf = p.buf /\ u.exit = p.exit
        /\ u.alone = a /\ InTables(u, prs, guidance)
    BY <2>1, <2>2, AloneIs
  <2> HIDE DEF u
  <2>4. proc'[v] = u
    BY <2>2 DEF u
  <2>5. QED
    BY <2>3, <2>4 DEF a
<1>9. UNCHANGED <<day, prs, prFiles, events, guidance, files, kept, harmed, exported>>
  BY <1>1 DEF tables, stores
<1>10. proc'[w] = q
  BY <1>1
<1>11. ProcsOK'
  <2>1. DOMAIN proc' = Procs /\ proc' = [v \in Procs |-> proc'[v]]
    BY <1>1
  <2>2. \A v \in Procs : ProcOK(proc'[v]) /\ InTables(proc'[v], prs, guidance)
    BY <1>7, <1>8, <1>10
  <2>3. \A v \in Procs : proc'[v] \in Process
    BY <2>2 DEF ProcOK
  <2>4. QED
    BY <1>9, <2>1, <2>2, <2>3 DEF ProcsOK
<1>12. TablesOK' /\ FilesOK'
  BY <1>9 DEF TypeInv, TablesOK, FilesOK
<1>13. QED
  BY <1>1, <1>2, <1>7, <1>8, <1>10, <1>11, <1>12 DEF TypeInv, b

LEMMA InitType == Init => TypeInv
<1> SUFFICES ASSUME Init PROVE TypeInv
  OBVIOUS
<1>1. EventsOK(EarlierEvents)
  BY TablesAssumption DEF EventsOK, EventOK
<1>2. Cardinality(RowsOf(EarlierEvents, BagToSet(EarlierEvents))) \in Nat
  BY <1>1, RowsAreFinite DEF BagToSet
<1>3. TablesOK
  BY <1>1, <1>2, TablesAssumption, BlanksAssumption DEF Init, TablesOK
<1>4. FilesOK
  <2>1. <<"text">> \in Seq(Parts)
    BY DEF Parts
  <2>2. \A f \in Files : <<>> \in ContentOf(f)
    BY EmptySeq DEF ContentOf
  <2>3. files = [f \in Files |-> IF f = "docs" THEN <<"text">> ELSE <<>>] /\ kept = [f \in Files |-> <<>>]
        /\ harmed = [f \in Files |-> FALSE]
    BY DEF Init
  <2>4. \A f \in Files : files[f] \in ContentOf(f)
    BY <2>1, <2>2, <2>3 DEF ContentOf
  <2>5. QED
    BY <2>2, <2>3, <2>4 DEF FilesOK
<1>5. ProcsOK
  <2>1. proc = [v \in Procs |-> Idle]
    BY DEF Init
  <2>2. ProcOK(Idle) /\ Idle \in Process /\ InTables(Idle, prs, guidance)
    BY IdleOK DEF ProcOK, Idle, InTables
  <2> HIDE DEF Idle
  <2>3. QED
    BY <2>1, <2>2 DEF ProcsOK
<1>6. QED
  BY <1>3, <1>4, <1>5 DEF TypeInv

LEMMA NextType == TypeInv /\ [Next]_vars => TypeInv'
<1> SUFFICES ASSUME TypeInv, [Next]_vars PROVE TypeInv'
  OBVIOUS
<1>1. CASE Tick
  BY <1>1, TickType
<1>2. ASSUME NEW w \in Procs, NEW c \in Calls, Start(w, c) PROVE TypeInv'
  BY <1>2, StartType
<1>3. ASSUME NEW w \in Procs, Step(w) PROVE TypeInv'
  BY <1>3, RecordPrType, RecordFileType, FindResultsType, RecordTestEventType, SelectPairsType,
     SelectActiveRulesType, CountRecentType, NextPairType, SelectTouchedType, SelectFailedType,
     SelectUniverseType, UpsertType, DeactivateType, SelectComponentsType, EmitWarningsType,
     GateComplianceType, ExportStatsType, SelectForTelemetryType, LoadTelemetryType,
     LoadForSummaryType, LoadMemoryType, SelectForDocsType, LoadDocsType, TruncateType, FillType,
     StageType DEF Step
<1>4. ASSUME NEW w \in Procs, Fails(w) \/ Killed(w) PROVE TypeInv'
  BY <1>4, FailsType, KilledType
<1>5. CASE UNCHANGED vars
  <2>1. UNCHANGED <<day, prs, prFiles, events, guidance, files, kept, harmed, exported, proc>>
    BY <1>5 DEF vars, tables, stores
  <2>2. QED
    BY <2>1 DEF TypeInv, TablesOK, FilesOK, ProcsOK
<1>6. QED
  BY <1>1, <1>2, <1>3, <1>4, <1>5 DEF Next

\* Every variable keeps its type: rows for rules, rows for files, scripts of
\* known steps, and exit codes the command line has.
THEOREM TypeCorrect == Spec => []TypeOK
<1>1. TypeInv => TypeOK
  <2> SUFFICES ASSUME TypeInv PROVE TypeOK
    OBVIOUS
  <2>1. ASSUME NEW w \in Procs
        PROVE  /\ \A i \in DOMAIN proc[w].todo : proc[w].todo[i] \in Steps
               /\ proc[w].exit \in {"none", "0", "1", "2", "error", "killed"}
               /\ proc[w].exit = "none" <=> proc[w].call = NoCall \/ Running(w)
    <3>1. ProcOK(proc[w])
      BY DEF TypeInv, ProcsOK
    <3>2. proc[w].todo \in Seq(Steps) /\ proc[w].exit \in Codes
      BY <3>1 DEF ProcOK, Process
    <3>3. \A i \in DOMAIN proc[w].todo : proc[w].todo[i] \in Steps
      BY <3>2
    <3>4. QED
      BY <3>1, <3>2, <3>3 DEF ProcOK, Running, Codes
  <2>2. QED
    BY <2>1 DEF TypeInv, TablesOK, EventsOK, TypeOK
<1>2. QED
  BY <1>1, InitType, NextType, PTL DEF Spec

-----------------------------------------------------------------------------
(* The files keep what is put there *)

AtFill(v, f) == Rewriting(v, f) /\ proc[v].at = "fill"
LineOf(f) == IF f = "memory" THEN Procs ELSE Entries
Whole(f) ==
    IF f = "docs" THEN files[f] # Torn /\ files[f] # <<>> /\ files[f][1] = "text" ELSE files[f] = kept[f]
\* What is about to be written keeps what there was.
Keeps(b, f) == IF f = "docs" THEN b[1] = "text" ELSE \E x \in LineOf(f) : b = Append(kept[f], x)

\* A file without harm has one writer, is torn while it writes, and whole when
\* nobody does.
OneWriter(f) == \A u, v \in Procs : Rewriting(u, f) /\ Rewriting(v, f) => u = v
TornByWriter(f) == \A v \in Procs : AtFill(v, f) => files[f] = Torn
WholeOtherwise(f) == /\ (\A v \in Procs : ~AtFill(v, f)) => Whole(f)
                     /\ \A v \in Procs : Rewriting(v, f) => Keeps(proc[v].buf, f)
Unharmed(f) == OneWriter(f) /\ TornByWriter(f) /\ (f # "summary" => WholeOtherwise(f))
FileInv == \A f \in Files : harmed[f] \/ Unharmed(f)

\* A process that is going to write the summary of what the telemetry now says.
Renews(v) == Running(v) /\ \/ Head(proc[v].todo) = "summary" /\ proc[v].at = "start"
                           \/ AtFill(v, "telemetry")
SummaryInv ==
    \/ harmed["summary"] \/ harmed["telemetry"]
    \/ /\ \/ files["summary"] = files["telemetry"]
          \/ \E v \in Procs : Renews(v) \/ Rewriting(v, "summary")
       /\ \A v \in Procs : Rewriting(v, "summary") =>
             proc[v].buf = files["telemetry"] \/ \E u \in Procs \ {v} : Renews(u)
StoreInv == FileInv /\ SummaryInv

\* A step of the processes W that neither reads nor writes one of the files, or
\* gives up what it was about to write.
Quiet(W) ==
    /\ UNCHANGED <<files, kept>>
    /\ \A f \in Files : harmed[f] => harmed'[f]
    /\ \A v \in Procs \ W : /\ proc'[v].todo = proc[v].todo /\ proc'[v].at = proc[v].at
                            /\ proc'[v].buf = proc[v].buf
    /\ \A v \in W : /\ proc'[v].todo = <<>> \/ proc'[v].at \notin {"truncate", "fill"}
                    /\ \A f \in Files : AtFill(v, f) => harmed'[f]
                    /\ Running(v) /\ Head(proc[v].todo) = "summary" /\ proc[v].at \in {"start", "truncate", "fill"}
                          => harmed'["summary"]

LEMMA QuietKeeps ==
    ASSUME StoreInv, NEW W \in SUBSET Procs, Quiet(W)
    PROVE  StoreInv'
<1>1. \A f : \A v \in Procs : Rewriting(v, f)' => v \notin W /\ Rewriting(v, f) /\ proc'[v].buf = proc[v].buf
  BY DEF Quiet, Rewriting, Running
<1>2. \A f : \A v \in Procs \ W : (Rewriting(v, f) <=> Rewriting(v, f)') /\ (AtFill(v, f) <=> AtFill(v, f)')
  BY DEF Quiet, Rewriting, Running, AtFill
<1>3. \A f \in Files : \A v \in Procs : AtFill(v, f) => AtFill(v, f)' \/ harmed'[f]
  BY <1>2 DEF Quiet
<1>4. \A f : \A v \in Procs : AtFill(v, f)' => AtFill(v, f)
  BY <1>1, <1>2 DEF AtFill
<1>5. files' = files /\ kept' = kept /\ \A f \in Files : harmed[f] => harmed'[f]
  BY DEF Quiet
<1>6. FileInv'
  <2> SUFFICES ASSUME NEW f \in Files, ~harmed'[f]
               PROVE  Unharmed(f)'
    BY DEF FileInv
  <2>1. OneWriter(f) /\ TornByWriter(f) /\ (f # "summary" => WholeOtherwise(f))
    BY <1>5 DEF StoreInv, FileInv, Unharmed
  <2>2. OneWriter(f)'
    BY <1>1, <2>1 DEF OneWriter
  <2>3. TornByWriter(f)'
    BY <1>4, <1>5, <2>1 DEF TornByWriter
  <2>4. ASSUME f # "summary" PROVE WholeOtherwise(f)'
    <3>1. ASSUME \A v \in Procs : ~AtFill(v, f)' PROVE Whole(f)'
      <4>1. \A v \in Procs : ~AtFill(v, f)
        BY <1>3, <3>1
      <4>2. Whole(f)
        BY <2>1, <2>4, <4>1 DEF WholeOtherwise
      <4>3. QED
        BY <1>5, <4>2 DEF Whole
    <3>2. ASSUME NEW v \in Procs, Rewriting(v, f)' PROVE Keeps(proc[v].buf, f)'
      <4>1. Rewriting(v, f) /\ proc'[v].buf = proc[v].buf
        BY <1>1, <3>2
      <4>2. Keeps(proc[v].buf, f)
        BY <2>1, <2>4, <4>1 DEF WholeOtherwise
      <4>3. QED
        BY <1>5, <4>1, <4>2 DEF Keeps, LineOf
    <3>3. QED
      BY <3>1, <3>2 DEF WholeOtherwise
  <2>5. QED
    BY <2>2, <2>3, <2>4 DEF Unharmed
<1>7. SummaryInv'
  <2> SUFFICES ASSUME ~harmed'["summary"], ~harmed'["telemetry"]
               PROVE  (/\ \/ files["summary"] = files["telemetry"]
                          \/ \E v \in Procs : Renews(v) \/ Rewriting(v, "summary")
                       /\ \A v \in Procs : Rewriting(v, "summary") =>
                             proc[v].buf = files["telemetry"] \/ \E u \in Procs \ {v} : Renews(u))'
    BY DEF SummaryInv
  <2>1. /\ \/ files["summary"] = files["telemetry"]
           \/ \E v \in Procs : Renews(v) \/ Rewriting(v, "summary")
        /\ \A v \in Procs : Rewriting(v, "summary") =>
              proc[v].buf = files["telemetry"] \/ \E u \in Procs \ {v} : Renews(u)
    BY <1>5 DEF StoreInv, SummaryInv, Files
  <2>2. ASSUME NEW v \in Procs, Renews(v) PROVE Renews(v)'
    <3>1. CASE v \notin W
      BY <1>2, <2>2, <3>1 DEF Renews, Quiet, Running
    <3>2. CASE v \in W
      <4>1. "telemetry" \in Files
        BY DEF Files
      <4>2. QED
        BY <2>2, <3>2, <4>1 DEF Renews, Quiet
    <3>3. QED
      BY <3>1, <3>2
  <2>3. ASSUME NEW v \in Procs, Rewriting(v, "summary") PROVE Rewriting(v, "summary")'
    <3>1. CASE v \notin W
      BY <1>2, <2>3, <3>1
    <3>2. CASE v \in W
      BY <2>3, <3>2 DEF Rewriting, FileOf, Quiet
    <3>3. QED
      BY <3>1, <3>2
  <2>4. QED
    BY <1>1, <1>5, <2>1, <2>2, <2>3
<1>8. QED
  BY <1>6, <1>7 DEF StoreInv

\* A step outside the file operations.
LEMMA QuietStep ==
    ASSUME TypeInv, NEW w \in Procs, Running(w), UNCHANGED <<files, kept, harmed>>,
           proc[w].at \notin {"truncate", "fill"},
           Head(proc[w].todo) = "summary" => proc[w].at = "stage",
           NEW q, Becomes(w, q), proc'[w].at \notin {"truncate", "fill"}
    PROVE  Quiet({w})
<1>1. proc' = [proc EXCEPT ![w] = q] /\ proc \in [Procs -> Process]
  BY DEF Becomes, TypeInv, ProcsOK
<1>2. proc'[w] = q /\ \A v \in Procs \ {w} : proc'[v] = proc[v]
  BY <1>1
<1>3. \A f : ~AtFill(w, f)
  BY DEF AtFill
<1>4. QED
  BY <1>2, <1>3 DEF Quiet

LEMMA QuietEnd ==
    ASSUME TypeInv, NEW w \in Procs, Running(w), UNCHANGED <<files, kept, harmed>>,
           proc[w].at \notin {"truncate", "fill"},
           Head(proc[w].todo) = "summary" => proc[w].at = "stage",
           \/ Becomes(w, Done(proc[w]))
           \/ \E code \in Codes \ {"none"} : Becomes(w, Exits(proc[w], code))
    PROVE  Quiet({w})
<1>1. /\ Done(proc[w]).at = "start"
      /\ \A code \in Codes \ {"none"} : Exits(proc[w], code).at = "start"
  BY AtMeans, DoneIs, ExitsIs
<1>2. \A q : Becomes(w, q) => proc'[w] = q
  BY DEF Becomes, TypeInv, ProcsOK
<1>3. QED
  BY <1>1, <1>2, QuietStep

LEMMA RecordsAreQuiet ==
    ASSUME TypeInv, NEW w \in Procs,
           \/ RecordPr(w) \/ \E f \in Paths : RecordFile(w, f)
           \/ FindResults(w) \/ \E r \in proc[w].left : RecordTestEvent(w, r)
    PROVE  Quiet({w})
<1> DEFINE p == proc[w]
<1>1. /\ Running(w) /\ Head(p.todo) \in {"record-pr", "ingest-tests"}
      /\ p.at \notin {"truncate", "fill"} /\ UNCHANGED <<files, kept, harmed>>
  BY DEF RecordPr, RecordFile, FindResults, RecordTestEvent, At, stores
<1>2. ProcOK(p) /\ p \in Process /\ p.todo # <<>>
  BY <1>1, AtMeans
<1>3. \A q : Becomes(w, q) => proc'[w] = q
  BY DEF Becomes, TypeInv, ProcsOK
<1>4. Done(p).at = "start"
  BY <1>2, DoneIs
<1>5. CASE RecordPr(w)
  <2> DEFINE q == [p EXCEPT !.at = "rows", !.left = p.call.paths]
  <2>1. q.at = "rows"
    BY <1>2 DEF Process
  <2> HIDE DEF q
  <2>2. Becomes(w, q) \/ Becomes(w, Done(p))
    BY <1>5 DEF RecordPr, q
  <2>3. QED
    BY <1>1, <1>3, <1>4, <2>1, <2>2, QuietStep
<1>6. CASE FindResults(w)
  <2> DEFINE q == [p EXCEPT !.at = "events", !.left = p.call.results]
  <2>1. q.at = "events"
    BY <1>2 DEF Process
  <2> HIDE DEF q
  <2>2. Becomes(w, q) \/ Becomes(w, Done(p))
    BY <1>6 DEF FindResults, q
  <2>3. QED
    BY <1>1, <1>3, <1>4, <2>1, <2>2, QuietStep
<1>7. ASSUME NEW x, RecordFile(w, x) \/ RecordTestEvent(w, x) PROVE Quiet({w})
  <2> DEFINE q == [p EXCEPT !.left = @ \ {x}]
  <2>1. q.at = p.at /\ ProcOK(q) /\ q.todo = p.todo
    BY <1>2, OneLess
  <2> HIDE DEF q
  <2>2. Done(q).at = "start"
    BY <1>2, <2>1, DoneIs
  <2>3. Becomes(w, q) \/ Becomes(w, Done(q))
    BY <1>7 DEF RecordFile, RecordTestEvent, q
  <2>4. QED
    BY <1>1, <1>3, <2>1, <2>2, <2>3, QuietStep
<1>8. QED
  BY <1>5, <1>6, <1>7

LEMMA LoopsAreQuiet ==
    ASSUME TypeInv, NEW w \in Procs,
           \/ SelectPairs(w) \/ SelectActiveRules(w)
           \/ \E r \in Rules : CountRecent(w, r) \/ NextPair(w, r)
           \/ SelectTouched(w) \/ SelectFailed(w) \/ SelectUniverse(w)
           \/ \E g \in proc[w].picked : UpsertGuidance(w, g)
           \/ Deactivate(w)
    PROVE  Quiet({w})
<1> DEFINE p == proc[w]
<1>1. /\ Running(w) /\ Head(p.todo) \in {"analyze", "prune"}
      /\ p.at \notin {"truncate", "fill"} /\ UNCHANGED <<files, kept, harmed>>
  BY DEF SelectPairs, SelectActiveRules, CountRecent, NextPair, SelectTouched, SelectFailed,
         SelectUniverse, UpsertGuidance, Deactivate, InLoop, At, stores
<1>2. ProcOK(p) /\ p.todo # <<>>
  BY <1>1, AtMeans
<1>3. \E q : Becomes(w, q)
  BY DEF SelectPairs, SelectActiveRules, CountRecent, NextPair, SelectTouched, SelectFailed,
         SelectUniverse, UpsertGuidance, Deactivate
<1>4. \A q : ProcOK(q) /\ q.todo = p.todo => Loop(q).at \in {"next", "upsert", "start"}
  BY <1>1, <1>2, LoopIs, DoneIs
<1>5. proc'[w].at \notin {"truncate", "fill"}
  <2>1. CASE SelectPairs(w) \/ SelectActiveRules(w)
    BY <1>4, <2>1, SelectPairsType, SelectActiveRulesType
  <2>2. CASE \E r \in Rules : CountRecent(w, r) \/ NextPair(w, r)
    BY <2>2, CountRecentType, NextPairType
  <2>3. CASE SelectTouched(w) \/ SelectFailed(w)
    BY <2>3, SelectTouchedType, SelectFailedType
  <2>4. CASE SelectUniverse(w)
    BY <1>4, <2>4, SelectUniverseType
  <2>5. CASE \E g \in p.picked : UpsertGuidance(w, g)
    BY <1>4, <2>5, UpsertType
  <2>6. CASE Deactivate(w)
    BY <1>2, <1>4, <2>6, DeactivateType
  <2>7. QED
    BY <2>1, <2>2, <2>3, <2>4, <2>5, <2>6
<1>6. QED
  BY <1>1, <1>3, <1>5, QuietStep

LEMMA QueriesAreQuiet ==
    ASSUME TypeInv, NEW w \in Procs,
           \/ SelectComponents(w) \/ EmitWarnings(w) \/ GateCompliance(w) \/ ExportStats(w)
           \/ SelectForTelemetry(w) \/ SelectForDocs(w) \/ Stage(w)
    PROVE  Quiet({w})
<1> DEFINE p == proc[w]
<1>1. /\ Running(w) /\ p.at \notin {"truncate", "fill"}
      /\ Head(p.todo) = "summary" => p.at = "stage"
      /\ UNCHANGED <<files, kept, harmed>>
  BY DEF SelectComponents, EmitWarnings, GateCompliance, ExportStats, SelectForTelemetry,
         SelectForDocs, Stage, At, stores
<1>2. CASE SelectComponents(w) \/ SelectForTelemetry(w) \/ SelectForDocs(w)
  <2>1. \E q : Becomes(w, q)
    BY <1>2 DEF SelectComponents, SelectForTelemetry, SelectForDocs
  <2>2. proc'[w].at \in {"guidance", "load"}
    BY <1>2, SelectComponentsType, SelectForTelemetryType, SelectForDocsType
  <2>3. QED
    BY <1>1, <2>1, <2>2, QuietStep
<1>3. CASE EmitWarnings(w) \/ GateCompliance(w) \/ Stage(w)
  <2>1. "1" \in Codes \ {"none"} /\ "2" \in Codes \ {"none"}
    BY DEF Codes
  <2>2. Becomes(w, Done(p)) \/ Becomes(w, Exits(p, "1")) \/ Becomes(w, Exits(p, "2"))
    BY <1>3, EmitWarningsType, GateComplianceType, StageType
  <2>3. QED
    BY <1>1, <2>1, <2>2, QuietEnd
<1>4. CASE ExportStats(w)
  <2>1. \E q : Becomes(w, q)
    BY <1>4 DEF ExportStats
  <2>2. proc'[w].at = "total" \/ Becomes(w, Done(p))
    BY <1>4, ExportStatsType
  <2>3. QED
    BY <1>1, <2>1, <2>2, QuietStep, QuietEnd
<1>5. QED
  BY <1>2, <1>3, <1>4

\* Starting, and the end of a day, leave the files alone.
LEMMA OthersAreQuiet ==
    ASSUME TypeInv
    PROVE  /\ Tick => Quiet({})
           /\ \A w \in Procs : /\ \A c \in Calls : Start(w, c) => Quiet({w})
                               /\ Fails(w) \/ Killed(w) => Quiet({w})
<1>1. ASSUME Tick PROVE Quiet({})
  BY <1>1, TickType DEF Quiet, stores
<1>2. ASSUME NEW w \in Procs, NEW c \in Calls, Start(w, c) PROVE Quiet({w})
  <2>1. \A f : ~AtFill(w, f)
    BY <1>2, StartType DEF AtFill, Rewriting
  <2>2. UNCHANGED <<files, kept, harmed>>
    BY <1>2, StartType DEF stores
  <2>3. /\ ~Running(w) /\ proc'[w].at = "start"
        /\ \A v \in Procs \ {w} : /\ proc'[v].todo = proc[v].todo /\ proc'[v].at = proc[v].at
                                  /\ proc'[v].buf = proc[v].buf
    BY <1>2, StartType
  <2>4. QED
    BY <2>1, <2>2, <2>3 DEF Quiet
<1>3. ASSUME NEW w \in Procs, Fails(w) \/ Killed(w) PROVE Quiet({w})
  <2>1. /\ Running(w) /\ (proc'[w].todo = <<>> \/ proc'[w].at = "start")
        /\ \A v \in Procs \ {w} : proc'[v] = proc[v]
        /\ harmed' = [f \in Files |-> harmed[f] \/ f \in Harms(w)]
        /\ UNCHANGED <<files, kept>>
    BY <1>3, FailsType, KilledType
  <2>2. ASSUME NEW f \in Files, AtFill(w, f) PROVE f \in Harms(w)
    <3>1. StepOK(proc[w], Head(proc[w].todo)) /\ proc[w].at = "fill" /\ Running(w)
          /\ FileOf(Head(proc[w].todo)) = f
      BY <2>2, AtMeans DEF AtFill, Rewriting
    <3>2. Head(proc[w].todo) \in {"telemetry", "summary", "memory", "update-docs"}
      BY <3>1 DEF StepOK, Stages
    <3>3. QED
      BY <3>1, <3>2 DEF Harms, InFile, File
  <2>3. Head(proc[w].todo) = "summary" /\ Running(w) => "summary" \in Harms(w)
    BY DEF Harms, Files
  <2>4. "summary" \in Files
    BY DEF Files
  <2>5. QED
    BY <2>1, <2>2, <2>3, <2>4 DEF Quiet
<1>4. QED
  BY <1>1, <1>2, <1>3

\* A file that a step does not touch, nor any process that rewrites it.
LEMMA FileSame ==
    ASSUME NEW f \in Files, Unharmed(f), files'[f] = files[f], kept'[f] = kept[f],
           \A v \in Procs : /\ Rewriting(v, f) <=> Rewriting(v, f)'
                            /\ Rewriting(v, f) => proc'[v].at = proc[v].at /\ proc'[v].buf = proc[v].buf
    PROVE  Unharmed(f)'
<1>1. \A v \in Procs : AtFill(v, f) <=> AtFill(v, f)'
  BY DEF AtFill
<1>2. OneWriter(f)' /\ TornByWriter(f)'
  BY <1>1 DEF Unharmed, OneWriter, TornByWriter
<1>3. ASSUME f # "summary" PROVE WholeOtherwise(f)'
  <2>1. Whole(f) => Whole(f)'
    BY DEF Whole
  <2>2. \A v \in Procs : Rewriting(v, f) /\ Keeps(proc[v].buf, f) => Keeps(proc[v].buf, f)'
    BY DEF Keeps, LineOf
  <2>3. QED
    BY <1>1, <1>3, <2>1, <2>2 DEF Unharmed, WholeOtherwise
<1>4. QED
  BY <1>2, <1>3 DEF Unharmed

\* Only the four steps that write a file rewrite one.
LEMMA RewritesIts ==
    ASSUME TypeInv, NEW w \in Procs, NEW f, Rewriting(w, f)
    PROVE  /\ Head(proc[w].todo) \in {"telemetry", "summary", "memory", "update-docs"}
           /\ f = FileOf(Head(proc[w].todo)) /\ f \in Files
<1>1. StepOK(proc[w], Head(proc[w].todo)) /\ proc[w].at \in {"truncate", "fill"}
      /\ f = FileOf(Head(proc[w].todo))
  BY AtMeans DEF Rewriting
<1>2. Head(proc[w].todo) \in {"telemetry", "summary", "memory", "update-docs"}
  BY <1>1 DEF StepOK, Stages
<1>3. QED
  BY <1>1, <1>2 DEF FileOf, Files

\* A file that is read, and will be rewritten.
LEMMA ReadKeepsFiles ==
    ASSUME TypeInv, FileInv, NEW w \in Procs, NEW f \in Files, proc[w].at \notin {"truncate", "fill"},
           proc'[w].todo # <<>>, FileOf(Head(proc'[w].todo)) = f, proc'[w].at = "truncate",
           \A v \in Procs \ {w} : proc'[v] = proc[v],
           harmed' = [harmed EXCEPT ![f] = @ \/ \E v \in Procs \ {w} : Rewriting(v, f)],
           UNCHANGED <<files, kept>>,
           f # "summary" /\ Whole(f) => Keeps(proc'[w].buf, f)
    PROVE  FileInv'
<1> DEFINE others == \E v \in Procs \ {w} : Rewriting(v, f)
<1>1. /\ \A g : ~Rewriting(w, g) /\ ~AtFill(w, g)' /\ (Rewriting(w, g)' <=> g = f)
      /\ \A g : \A v \in Procs \ {w} : (Rewriting(v, g) <=> Rewriting(v, g)') /\ (AtFill(v, g) <=> AtFill(v, g)')
  BY DEF Rewriting, Running, AtFill
<1>2. /\ harmed \in [Files -> BOOLEAN] /\ harmed'[f] = (harmed[f] \/ others)
      /\ \A g \in Files \ {f} : harmed'[g] = harmed[g]
  <2>1. harmed \in [Files -> BOOLEAN]
    BY DEF TypeInv, FilesOK
  <2>2. harmed' = [harmed EXCEPT ![f] = harmed[f] \/ others]
    OBVIOUS
  <2> HIDE DEF others
  <2>3. QED
    BY <2>1, <2>2
<1>3. ASSUME NEW g \in Files \ {f}, ~harmed'[g] PROVE Unharmed(g)'
  <2>1. Unharmed(g)
    BY <1>2, <1>3 DEF FileInv
  <2>2. \A v \in Procs : /\ Rewriting(v, g) <=> Rewriting(v, g)'
                         /\ Rewriting(v, g) => proc'[v].at = proc[v].at /\ proc'[v].buf = proc[v].buf
    BY <1>1, <1>3
  <2>3. QED
    BY <2>1, <2>2, FileSame
<1>4. ASSUME ~harmed'[f] PROVE Unharmed(f)'
  <2>1. Unharmed(f) /\ \A v \in Procs : ~Rewriting(v, f)
    BY <1>1, <1>2, <1>4 DEF FileInv
  <2>2. OneWriter(f)' /\ TornByWriter(f)'
    BY <1>1, <2>1 DEF OneWriter, TornByWriter, AtFill
  <2>3. ASSUME f # "summary" PROVE WholeOtherwise(f)'
    <3>1. Whole(f)
      BY <2>1, <2>3 DEF Unharmed, WholeOtherwise, AtFill
    <3>2. Whole(f)'
      BY <3>1 DEF Whole
    <3>3. Keeps(proc'[w].buf, f)
      BY <2>3, <3>1
    <3>4. Keeps(proc[w].buf, f)'
      BY <3>3 DEF Keeps, LineOf
    <3>5. QED
      BY <1>1, <2>1, <3>2, <3>4 DEF WholeOtherwise
  <2>4. QED
    BY <2>2, <2>3 DEF Unharmed
<1>5. QED
  BY <1>3, <1>4 DEF FileInv

\* A file that is whole is read as it is.
LEMMA WholeIsLoaded ==
    ASSUME TypeInv, NEW f \in {"memory", "telemetry"}, Whole(f)
    PROVE  Loaded(f) = kept[f] /\ files[f] # Torn
<1>1. kept[f] \in ContentOf(f) /\ files[f] = kept[f]
  BY DEF TypeInv, FilesOK, Files, Whole
<1>2. kept[f] # Torn
  BY <1>1, BlanksAssumption DEF ContentOf
<1>3. QED
  BY <1>1, <1>2 DEF Loaded

LEMMA ReadsKeepFiles ==
    ASSUME TypeInv, FileInv, NEW w \in Procs,
           LoadTelemetry(w) \/ LoadForSummary(w) \/ LoadMemory(w)
    PROVE  FileInv'
<1>1. CASE LoadTelemetry(w)
  <2>1. ASSUME Whole("telemetry") PROVE Keeps(proc'[w].buf, "telemetry")
    <3>1. Loaded("telemetry") = kept["telemetry"]
      BY <2>1, WholeIsLoaded
    <3>2. QED
      BY <1>1, <3>1, LoadTelemetryType DEF Keeps, LineOf
  <2>2. /\ Running(w) /\ Head(proc[w].todo) = "telemetry" /\ proc[w].at = "load"
        /\ proc'[w].todo = proc[w].todo /\ proc'[w].at = "truncate"
        /\ \A v \in Procs \ {w} : proc'[v] = proc[v]
        /\ harmed' = [harmed EXCEPT !["telemetry"] = @ \/ \E v \in Procs \ {w} : Rewriting(v, "telemetry")]
        /\ UNCHANGED <<files, kept>>
    BY <1>1, LoadTelemetryType
  <2>3. proc'[w].todo # <<>> /\ FileOf(Head(proc'[w].todo)) = "telemetry" /\ "telemetry" \in Files
    BY <2>2 DEF FileOf, Running, Files
  <2>4. QED
    BY <2>1, <2>2, <2>3, ReadKeepsFiles
<1>2. CASE LoadForSummary(w)
  <2>1. /\ Running(w) /\ Head(proc[w].todo) = "summary" /\ proc[w].at = "start"
        /\ proc'[w].todo = proc[w].todo /\ proc'[w].at = "truncate"
        /\ \A v \in Procs \ {w} : proc'[v] = proc[v]
        /\ harmed' = [harmed EXCEPT !["summary"] = @ \/ \E v \in Procs \ {w} : Rewriting(v, "summary")]
        /\ UNCHANGED <<files, kept>>
    BY <1>2, LoadForSummaryType
  <2>2. proc'[w].todo # <<>> /\ FileOf(Head(proc'[w].todo)) = "summary" /\ "summary" \in Files
    BY <2>1 DEF FileOf, Running, Files
  <2>3. QED
    BY <2>1, <2>2, ReadKeepsFiles
<1>3. CASE LoadMemory(w)
  <2>1. ASSUME Whole("memory") PROVE Keeps(proc'[w].buf, "memory")
    <3>1. Loaded("memory") = kept["memory"]
      BY <2>1, WholeIsLoaded
    <3>2. QED
      BY <1>3, <3>1, LoadMemoryType DEF Keeps, LineOf
  <2>2. /\ Running(w) /\ Head(proc[w].todo) = "memory" /\ proc[w].at = "start"
        /\ proc'[w].todo = proc[w].todo /\ proc'[w].at = "truncate"
        /\ \A v \in Procs \ {w} : proc'[v] = proc[v]
        /\ harmed' = [harmed EXCEPT !["memory"] = @ \/ \E v \in Procs \ {w} : Rewriting(v, "memory")]
        /\ UNCHANGED <<files, kept>>
    BY <1>3, LoadMemoryType
  <2>3. proc'[w].todo # <<>> /\ FileOf(Head(proc'[w].todo)) = "memory" /\ "memory" \in Files
    BY <2>2 DEF FileOf, Running, Files
  <2>4. QED
    BY <2>1, <2>2, <2>3, ReadKeepsFiles
<1>4. QED
  BY <1>1, <1>2, <1>3

\* update-docs reads AGENTS.md, or stops before it does.
LEMMA DocsKeepFiles ==
    ASSUME TypeInv, FileInv, NEW w \in Procs, LoadDocs(w)
    PROVE  FileInv' \/ Quiet({w})
<1>1. CASE Becomes(w, Exits(proc[w], "error")) /\ UNCHANGED <<day, tables, stores, exported>>
  <2>1. Running(w) /\ Head(proc[w].todo) = "update-docs" /\ proc[w].at = "load" /\ "error" \in Codes \ {"none"}
    BY LoadDocsType DEF Codes
  <2>2. UNCHANGED <<files, kept, harmed>>
    BY <1>1 DEF stores
  <2>3. QED
    BY <1>1, <2>1, <2>2, QuietEnd
<1>2. CASE ~(Becomes(w, Exits(proc[w], "error")) /\ UNCHANGED <<day, tables, stores, exported>>)
  <2>1. /\ Running(w) /\ Head(proc[w].todo) = "update-docs" /\ proc[w].at = "load"
        /\ proc'[w].todo = proc[w].todo /\ proc'[w].at = "truncate" /\ proc'[w].buf = NewDocs(Loaded("docs"))
        /\ \A v \in Procs \ {w} : proc'[v] = proc[v]
        /\ harmed' = [harmed EXCEPT !["docs"] = @ \/ \E v \in Procs \ {w} : Rewriting(v, "docs")]
        /\ UNCHANGED <<files, kept>>
    BY <1>2, LoadDocsType
  <2>2. proc'[w].todo # <<>> /\ FileOf(Head(proc'[w].todo)) = "docs" /\ "docs" \in Files
    BY <2>1 DEF FileOf, Running, Files
  <2>3. ASSUME Whole("docs") PROVE Keeps(proc'[w].buf, "docs")
    <3>1. Loaded("docs") \in Seq(Parts) /\ Loaded("docs") = files["docs"]
      BY <2>2, <2>3, LoadedType DEF ContentOf, Whole, Loaded
    <3>2. NewDocs(Loaded("docs"))[1] = "text"
      BY <2>3, <3>1, NewDocsType DEF Whole
    <3>3. QED
      BY <2>1, <3>2 DEF Keeps
  <2>4. QED
    BY <2>1, <2>2, <2>3, ReadKeepsFiles
<1>3. QED
  BY <1>1, <1>2

LEMMA TruncateKeepsFiles ==
    ASSUME TypeInv, FileInv, NEW w \in Procs, Truncate(w)
    PROVE  FileInv'
<1>0. PICK f : f = File(w)
  OBVIOUS
<1>1. /\ Running(w) /\ proc[w].at = "truncate" /\ f \in Files /\ f = FileOf(Head(proc[w].todo))
      /\ proc'[w].todo = proc[w].todo /\ proc'[w].at = "fill" /\ proc'[w].buf = proc[w].buf
      /\ \A v \in Procs \ {w} : proc'[v] = proc[v]
      /\ files' = [files EXCEPT ![f] = Torn] /\ kept' = kept /\ harmed' = harmed
  BY <1>0, TruncateType, InFileMeans DEF Truncate
<1>2. files = [g \in Files |-> files[g]]
  BY DEF TypeInv, FilesOK
<1>3. /\ files'[f] = Torn /\ \A g \in Files \ {f} : files'[g] = files[g]
  BY <1>1, <1>2
<1>4. /\ \A g : \A v \in Procs : /\ Rewriting(v, g) <=> Rewriting(v, g)'
                                 /\ Rewriting(v, g) => proc'[v].buf = proc[v].buf
      /\ \A g : \A v \in Procs \ {w} : (AtFill(v, g) <=> AtFill(v, g)') /\ proc'[v].at = proc[v].at
      /\ Rewriting(w, f) /\ AtFill(w, f)' /\ \A g : Rewriting(w, g) => g = f
  BY <1>1 DEF Rewriting, Running, AtFill
<1>5. ASSUME NEW g \in Files \ {f}, ~harmed[g] PROVE Unharmed(g)'
  <2>1. Unharmed(g)
    BY <1>5 DEF FileInv
  <2>2. \A v \in Procs : /\ Rewriting(v, g) <=> Rewriting(v, g)'
                         /\ Rewriting(v, g) => proc'[v].at = proc[v].at /\ proc'[v].buf = proc[v].buf
    BY <1>4, <1>5
  <2>3. files'[g] = files[g] /\ kept'[g] = kept[g]
    BY <1>1, <1>3
  <2>4. QED
    BY <2>1, <2>2, <2>3, FileSame
<1>6. ASSUME ~harmed[f] PROVE Unharmed(f)'
  <2>1. Unharmed(f)
    BY <1>1, <1>6 DEF FileInv
  <2>2. OneWriter(f)' /\ TornByWriter(f)'
    BY <1>3, <1>4, <2>1 DEF Unharmed, OneWriter, TornByWriter
  <2>3. ASSUME f # "summary" PROVE WholeOtherwise(f)'
    <3>1. \A v \in Procs : Rewriting(v, f) => Keeps(proc[v].buf, f)
      BY <2>1, <2>3 DEF Unharmed, WholeOtherwise
    <3>2. \A v \in Procs : Rewriting(v, f)' => Keeps(proc[v].buf, f)'
      BY <1>1, <1>4, <3>1 DEF Keeps, LineOf
    <3>3. QED
      BY <1>4, <3>2 DEF WholeOtherwise
  <2>4. QED
    BY <2>2, <2>3 DEF Unharmed
<1>7. QED
  BY <1>1, <1>5, <1>6 DEF FileInv

LEMMA FillMeans ==
    ASSUME TypeInv, NEW w \in Procs, Fill(w)
    PROVE  LET f == File(w)
           IN  /\ Running(w) /\ AtFill(w, f) /\ f \in Files /\ proc[w].todo # <<>>
               /\ Head(proc[w].todo) \in {"telemetry", "summary", "memory", "update-docs"}
               /\ f = FileOf(Head(proc[w].todo))
               /\ proc[w].buf \in ContentOf(f) /\ (f # "summary" => proc[w].buf # <<>>)
               /\ files[f] = Torn => files'[f] = proc[w].buf
               /\ \A g \in Files \ {f} : files'[g] = files[g] /\ kept'[g] = kept[g]
               /\ kept'[f] = IF f \in {"memory", "telemetry"}
                             THEN Append(kept[f], proc[w].buf[Len(proc[w].buf)]) ELSE kept[f]
               /\ harmed' = harmed
               /\ proc'[w].at \in {"stage", "start"} /\ \A v \in Procs \ {w} : proc'[v] = proc[v]
<1> DEFINE p == proc[w]
           f == File(w)
           k == IF f \in {"memory", "telemetry"} THEN Append(kept[f], p.buf[Len(p.buf)]) ELSE kept[f]
<1>1. /\ InFile(w, "fill") /\ harmed' = harmed
      /\ \E c \in {p.buf} \cup (IF files[f] = Torn THEN {} ELSE {Torn}) : files' = [files EXCEPT ![f] = c]
      /\ kept' = [kept EXCEPT ![f] = k]
  BY DEF Fill
<1>2. /\ Running(w) /\ p.at = "fill" /\ f \in Files /\ f = FileOf(Head(p.todo))
      /\ Head(p.todo) \in {"telemetry", "summary", "memory", "update-docs"}
      /\ p.buf \in ContentOf(f) /\ (f # "summary" => p.buf # <<>>)
  BY <1>1, InFileMeans
<1>3. ProcOK(p) /\ p.todo # <<>>
  BY <1>2, AtMeans
<1>4. proc'[w].at \in {"stage", "start"} /\ \A v \in Procs \ {w} : proc'[v] = proc[v]
  BY <1>3, FillType, DoneIs
<1>5. files = [g \in Files |-> files[g]] /\ kept = [g \in Files |-> kept[g]]
  BY DEF TypeInv, FilesOK
<1>6. AtFill(w, f)
  BY <1>2 DEF AtFill, Rewriting
<1> HIDE DEF f, k
<1>7. /\ files[f] = Torn => files'[f] = p.buf
      /\ \A g \in Files \ {f} : files'[g] = files[g] /\ kept'[g] = kept[g]
      /\ kept'[f] = k
  BY <1>1, <1>2, <1>5
<1>8. QED
  BY <1>1, <1>2, <1>3, <1>4, <1>6, <1>7 DEF f, k

LEMMA FillKeepsFiles ==
    ASSUME TypeInv, FileInv, NEW w \in Procs, Fill(w)
    PROVE  FileInv'
<1> DEFINE b == proc[w].buf
<1>0. PICK f : f = File(w)
  OBVIOUS
<1>1. /\ Running(w) /\ AtFill(w, f) /\ f \in Files /\ f = FileOf(Head(proc[w].todo))
      /\ b \in ContentOf(f) /\ (f # "summary" => b # <<>>)
      /\ files[f] = Torn => files'[f] = b
      /\ \A g \in Files \ {f} : files'[g] = files[g] /\ kept'[g] = kept[g]
      /\ kept'[f] = IF f \in {"memory", "telemetry"} THEN Append(kept[f], b[Len(b)]) ELSE kept[f]
      /\ harmed' = harmed /\ proc'[w].at \in {"stage", "start"} /\ \A v \in Procs \ {w} : proc'[v] = proc[v]
  BY <1>0, FillMeans
<1> HIDE DEF b
<1>2. /\ \A g : \A v \in Procs \ {w} : Rewriting(v, g) <=> Rewriting(v, g)'
      /\ \A g : ~Rewriting(w, g)' /\ (Rewriting(w, g) => g = f)
  BY <1>1 DEF Rewriting, Running, AtFill
<1>3. ASSUME NEW g \in Files \ {f}, ~harmed[g] PROVE Unharmed(g)'
  <2>1. Unharmed(g) /\ files'[g] = files[g] /\ kept'[g] = kept[g]
    BY <1>1, <1>3 DEF FileInv
  <2>2. \A v \in Procs : /\ Rewriting(v, g) <=> Rewriting(v, g)'
                         /\ Rewriting(v, g) => proc'[v].at = proc[v].at /\ proc'[v].buf = proc[v].buf
    BY <1>1, <1>2, <1>3
  <2>3. QED
    BY <2>1, <2>2, FileSame
<1>4. ASSUME ~harmed[f] PROVE Unharmed(f)'
  <2>1. Unharmed(f) /\ Rewriting(w, f)
    BY <1>1, <1>4 DEF FileInv, AtFill
  <2>2. files'[f] = b
    BY <1>1, <2>1 DEF Unharmed, TornByWriter
  <2>3. \A v \in Procs : ~Rewriting(v, f)'
    BY <1>2, <2>1 DEF Unharmed, OneWriter
  <2>4. OneWriter(f)' /\ TornByWriter(f)'
    BY <2>3 DEF OneWriter, TornByWriter, AtFill
  <2>5. ASSUME f # "summary" PROVE Whole(f)'
    <3>1. Keeps(b, f)
      BY <2>1, <2>5 DEF Unharmed, WholeOtherwise, b
    <3>2. CASE f = "docs"
      <4>1. b \in Seq(Parts) /\ b # <<>> /\ b[1] = "text"
        BY <1>1, <3>1, <3>2 DEF ContentOf, Keeps
      <4>2. b # Torn
        BY <4>1, BlanksAssumption
      <4>3. QED
        BY <2>2, <3>2, <4>1, <4>2 DEF Whole
    <3>3. CASE f \in {"memory", "telemetry"}
      <4>1. PICK x \in LineOf(f) : b = Append(kept[f], x)
        BY <3>1, <3>3 DEF Keeps
      <4>2. kept[f] \in Seq(LineOf(f))
        BY <1>1, <3>3 DEF TypeInv, FilesOK, ContentOf, LineOf
      <4>3. /\ b \in Seq(LineOf(f)) /\ Len(b) = Len(kept[f]) + 1 /\ b[Len(kept[f]) + 1] = x
        BY <4>1, <4>2, AppendProperties
      <4>4. kept'[f] = Append(kept[f], b[Len(b)])
        BY <1>1, <3>3
      <4>5. kept'[f] = b
        BY <4>1, <4>3, <4>4
      <4>6. QED
        BY <2>2, <3>3, <4>5 DEF Whole
    <3>4. QED
      BY <1>1, <2>5, <3>2, <3>3 DEF Files
  <2>6. f # "summary" => WholeOtherwise(f)'
    BY <2>3, <2>5 DEF WholeOtherwise
  <2>7. QED
    BY <2>4, <2>6 DEF Unharmed
<1>5. QED
  BY <1>1, <1>3, <1>4 DEF FileInv

\* A step of a process that has nothing to do with the summary.
LEMMA SummarySame ==
    ASSUME SummaryInv, NEW w \in Procs, ~Renews(w), ~Rewriting(w, "summary"), ~Rewriting(w, "summary")',
           \A v \in Procs \ {w} : proc'[v] = proc[v],
           files'["telemetry"] = files["telemetry"], files'["summary"] = files["summary"],
           \A f \in {"summary", "telemetry"} : harmed[f] => harmed'[f]
    PROVE  SummaryInv'
<1>1. \A v \in Procs : Renews(v) => Renews(v)'
  BY DEF Renews, AtFill, Rewriting, Running
<1>2. \A v \in Procs : Rewriting(v, "summary") <=> Rewriting(v, "summary")' /\ v # w
  BY DEF Rewriting, Running
<1>3. QED
  BY <1>1, <1>2 DEF SummaryInv

LEMMA LoadsKeepSummary ==
    ASSUME TypeInv, StoreInv, NEW w \in Procs,
           LoadTelemetry(w) \/ LoadMemory(w) \/ (LoadDocs(w) /\ ~Quiet({w}))
    PROVE  SummaryInv'
<1>1. /\ Running(w) /\ Head(proc[w].todo) \in {"telemetry", "memory", "update-docs"}
      /\ proc[w].at \in {"load", "start"}
      /\ proc'[w].todo = proc[w].todo /\ \A v \in Procs \ {w} : proc'[v] = proc[v]
      /\ UNCHANGED <<files, kept>>
      /\ \E f \in Files : harmed' = [harmed EXCEPT ![f] = @ \/ \E v \in Procs \ {w} : Rewriting(v, f)]
  <2>1. CASE LoadTelemetry(w)
    BY <2>1, LoadTelemetryType DEF Files
  <2>2. CASE LoadMemory(w)
    BY <2>2, LoadMemoryType DEF Files
  <2>3. CASE LoadDocs(w) /\ ~Quiet({w})
    <3>1. ~(Becomes(w, Exits(proc[w], "error")) /\ UNCHANGED <<day, tables, stores, exported>>)
      <4> SUFFICES ASSUME Becomes(w, Exits(proc[w], "error")), UNCHANGED <<day, tables, stores, exported>>
                   PROVE  Quiet({w})
        BY <2>3
      <4>1. Running(w) /\ Head(proc[w].todo) = "update-docs" /\ proc[w].at = "load" /\ "error" \in Codes \ {"none"}
        BY <2>3, LoadDocsType DEF Codes
      <4>2. UNCHANGED <<files, kept, harmed>>
        BY DEF stores
      <4>3. QED
        BY <4>1, <4>2, QuietEnd
    <3>2. QED
      BY <2>3, <3>1, LoadDocsType DEF Files
  <2>4. QED
    BY <2>1, <2>2, <2>3
<1>2. ~Renews(w) /\ ~Rewriting(w, "summary") /\ ~Rewriting(w, "summary")'
  BY <1>1 DEF Renews, AtFill, Rewriting, FileOf
<1>3. \A f \in {"summary", "telemetry"} : harmed[f] => harmed'[f]
  BY <1>1 DEF TypeInv, FilesOK, Files
<1>4. QED
  BY <1>1, <1>2, <1>3, SummarySame DEF StoreInv

LEMMA ReadKeepsSummary ==
    ASSUME TypeInv, StoreInv, NEW w \in Procs, LoadForSummary(w)
    PROVE  SummaryInv'
<1> DEFINE others == \E v \in Procs \ {w} : Rewriting(v, "summary")
<1>1. /\ Running(w) /\ Head(proc[w].todo) = "summary" /\ proc[w].at = "start"
      /\ proc'[w].todo = proc[w].todo /\ proc'[w].at = "truncate" /\ proc'[w].buf = Loaded("telemetry")
      /\ \A v \in Procs \ {w} : proc'[v] = proc[v]
      /\ harmed' = [harmed EXCEPT !["summary"] = harmed["summary"] \/ others]
      /\ UNCHANGED <<files, kept>>
  BY LoadForSummaryType
<1>2. harmed'["summary"] = (harmed["summary"] \/ others) /\ harmed'["telemetry"] = harmed["telemetry"]
  <2>1. harmed \in [Files -> BOOLEAN]
    BY DEF TypeInv, FilesOK
  <2> HIDE DEF others
  <2>2. QED
    BY <1>1, <2>1 DEF Files
<1>3. Rewriting(w, "summary")'
  BY <1>1 DEF Rewriting, Running, FileOf
<1> SUFFICES ASSUME ~harmed'["summary"], ~harmed'["telemetry"], NEW v \in Procs, Rewriting(v, "summary")'
             PROVE  (proc[v].buf = files["telemetry"] \/ \E u \in Procs \ {v} : Renews(u))'
  BY <1>3 DEF SummaryInv
<1>4. \A u \in Procs \ {w} : (Rewriting(u, "summary") <=> Rewriting(u, "summary")') /\ (Renews(u) <=> Renews(u)')
  BY <1>1 DEF Renews, AtFill, Rewriting, Running
<1>5. v = w
  BY <1>2, <1>4
<1>6. CASE files["telemetry"] # Torn
  BY <1>1, <1>5, <1>6 DEF Loaded
<1>7. CASE files["telemetry"] = Torn
  <2>1. Unharmed("telemetry") /\ "telemetry" \in Files
    BY <1>2 DEF StoreInv, FileInv, Files
  <2>2. ~Whole("telemetry")
    BY <1>7, WholeIsLoaded
  <2>3. PICK u \in Procs : AtFill(u, "telemetry")
    BY <2>1, <2>2 DEF Unharmed, WholeOtherwise
  <2>4. u # w
    BY <1>1, <2>3 DEF AtFill
  <2>5. Renews(u)
    BY <2>3 DEF Renews, AtFill, Rewriting
  <2>6. QED
    BY <1>4, <1>5, <2>4, <2>5
<1>8. QED
  BY <1>6, <1>7

LEMMA TruncateKeepsSummary ==
    ASSUME TypeInv, StoreInv, NEW w \in Procs, Truncate(w)
    PROVE  SummaryInv'
<1>0. PICK f : f = File(w)
  OBVIOUS
<1>1. /\ Running(w) /\ proc[w].at = "truncate" /\ f \in Files /\ f = FileOf(Head(proc[w].todo))
      /\ Head(proc[w].todo) \in {"telemetry", "summary", "memory", "update-docs"}
      /\ proc'[w].todo = proc[w].todo /\ proc'[w].at = "fill" /\ proc'[w].buf = proc[w].buf
      /\ \A v \in Procs \ {w} : proc'[v] = proc[v]
      /\ files' = [files EXCEPT ![f] = Torn] /\ harmed' = harmed
  BY <1>0, TruncateType, InFileMeans DEF Truncate
<1>2. \A g \in Files \ {f} : files'[g] = files[g]
  BY <1>1 DEF TypeInv, FilesOK
<1>3. /\ \A v \in Procs : Rewriting(v, "summary") <=> Rewriting(v, "summary")'
      /\ \A v \in Procs : Renews(v) => Renews(v)'
      /\ f = "telemetry" => Renews(w)' /\ ~Rewriting(w, "summary")
      /\ f = "summary" => Rewriting(w, "summary")
      /\ f \in {"memory", "docs"} => ~Renews(w) /\ ~Rewriting(w, "summary")
  BY <1>1 DEF Renews, AtFill, Rewriting, Running, FileOf
<1>4. CASE f = "telemetry"
  BY <1>1, <1>3, <1>4 DEF SummaryInv
<1>5. CASE f = "summary"
  <2>1. files'["telemetry"] = files["telemetry"]
    BY <1>2, <1>5 DEF Files
  <2>2. Rewriting(w, "summary")'
    BY <1>3, <1>5
  <2>3. \A v \in Procs : proc'[v].buf = proc[v].buf
    BY <1>1
  <2>4. QED
    BY <1>1, <1>3, <2>1, <2>2, <2>3 DEF StoreInv, SummaryInv
<1>6. CASE f \in {"memory", "docs"}
  <2>1. files'["telemetry"] = files["telemetry"] /\ files'["summary"] = files["summary"]
    BY <1>2, <1>6 DEF Files
  <2>2. ~Renews(w) /\ ~Rewriting(w, "summary") /\ ~Rewriting(w, "summary")'
    BY <1>3, <1>6
  <2>3. QED
    BY <1>1, <2>1, <2>2, SummarySame DEF StoreInv
<1>7. QED
  BY <1>1, <1>4, <1>5, <1>6 DEF Files

LEMMA FillKeepsSummary ==
    ASSUME TypeInv, StoreInv, NEW w \in Procs, Fill(w)
    PROVE  SummaryInv'
<1>0. PICK f : f = File(w)
  OBVIOUS
<1>1. /\ Running(w) /\ AtFill(w, f) /\ f \in Files /\ f = FileOf(Head(proc[w].todo)) /\ proc[w].todo # <<>>
      /\ Head(proc[w].todo) \in {"telemetry", "summary", "memory", "update-docs"}
      /\ files[f] = Torn => files'[f] = proc[w].buf
      /\ \A g \in Files \ {f} : files'[g] = files[g]
      /\ harmed' = harmed /\ proc'[w].at \in {"stage", "start"} /\ \A v \in Procs \ {w} : proc'[v] = proc[v]
  BY <1>0, FillMeans
<1>2. \A v \in Procs \ {w} : /\ Rewriting(v, "summary") <=> Rewriting(v, "summary")'
                             /\ Renews(v) <=> Renews(v)'
  BY <1>1 DEF Renews, AtFill, Rewriting, Running
<1>3. ~Rewriting(w, "summary")'
  BY <1>1 DEF Rewriting
<1>4. CASE f = "telemetry"
  <2>1. Head(proc[w].todo) = "telemetry"
    BY <1>1, <1>4 DEF FileOf
  <2>2. TodoOK(proc[w].todo) /\ ProcOK(proc[w])
    BY <1>1, AtMeans
  <2>3. Tail(proc[w].todo) # <<>> /\ Head(Tail(proc[w].todo)) = "summary"
    BY <1>1, <2>1, <2>2, RestOfScript
  <2>4. proc'[w].todo = Tail(proc[w].todo) /\ proc'[w].at = "start"
    BY <1>0, <1>1, <1>4, <2>2, FillType, DoneIs
  <2>5. Renews(w)'
    BY <2>3, <2>4 DEF Renews, Running
  <2>6. QED
    BY <1>1, <1>2, <1>3, <2>5 DEF SummaryInv
<1>5. CASE f = "summary"
  <2> SUFFICES ASSUME ~harmed["summary"], ~harmed["telemetry"]
               PROVE  /\ ~\E v \in Procs : Rewriting(v, "summary")'
                      /\ files'["summary"] = files'["telemetry"] \/ \E v \in Procs : Renews(v)'
    BY <1>1 DEF SummaryInv
  <2>1. Unharmed("summary") /\ Rewriting(w, "summary")
    BY <1>1, <1>5 DEF StoreInv, FileInv, Files, AtFill
  <2>2. files'["summary"] = proc[w].buf /\ files'["telemetry"] = files["telemetry"]
    BY <1>1, <1>5, <2>1 DEF Unharmed, TornByWriter, Files
  <2>3. ~\E v \in Procs : Rewriting(v, "summary")'
    BY <1>2, <1>3, <2>1 DEF Unharmed, OneWriter
  <2>4. proc[w].buf = files["telemetry"] \/ \E u \in Procs \ {w} : Renews(u)
    BY <2>1 DEF StoreInv, SummaryInv
  <2>5. QED
    BY <1>2, <2>2, <2>3, <2>4
<1>6. CASE f \in {"memory", "docs"}
  <2>1. files'["telemetry"] = files["telemetry"] /\ files'["summary"] = files["summary"]
    BY <1>1, <1>6 DEF Files
  <2>2. ~Renews(w) /\ ~Rewriting(w, "summary")
    BY <1>1, <1>6 DEF Renews, AtFill, Rewriting, FileOf
  <2>3. QED
    BY <1>1, <1>3, <2>1, <2>2, SummarySame DEF StoreInv
<1>7. QED
  BY <1>1, <1>4, <1>5, <1>6 DEF Files

LEMMA InitStore == Init => StoreInv
<1> SUFFICES ASSUME Init PROVE StoreInv
  OBVIOUS
<1>1. \A v \in Procs : ~Running(v)
  BY DEF Init, Running, Idle
<1>2. /\ \A f \in {"memory", "telemetry", "summary"} : files[f] = <<>>
      /\ files["docs"] = <<"text">> /\ \A f \in Files : kept[f] = <<>>
  BY DEF Init, Files
<1>3. <<"text">> \in Seq(Parts)
  BY DEF Parts
<1>4. <<"text">> # Torn
  BY <1>3, BlanksAssumption
<1>5. \A f \in Files : Whole(f) \/ f = "summary"
  <2>1. <<"text">> # <<>> /\ <<"text">>[1] = "text"
    OBVIOUS
  <2>2. Whole("docs")
    BY <1>2, <1>4, <2>1 DEF Whole
  <2>3. \A f \in {"memory", "telemetry"} : Whole(f)
    BY <1>2 DEF Whole, Files
  <2>4. QED
    BY <2>2, <2>3 DEF Files
<1>6. QED
  BY <1>1, <1>2, <1>5 DEF StoreInv, FileInv, SummaryInv, Unharmed, OneWriter, TornByWriter,
                          WholeOtherwise, AtFill, Rewriting

LEMMA NextStore == TypeInv /\ StoreInv /\ [Next]_vars => StoreInv'
<1> SUFFICES ASSUME TypeInv, StoreInv, [Next]_vars PROVE StoreInv'
  OBVIOUS
<1>1. ASSUME \E W \in SUBSET Procs : Quiet(W) PROVE StoreInv'
  BY <1>1, QuietKeeps
<1>2. CASE Tick
  BY <1>1, <1>2, OthersAreQuiet
<1>3. ASSUME NEW w \in Procs, \/ \E c \in Calls : Start(w, c)
                              \/ Fails(w) \/ Killed(w)
      PROVE  StoreInv'
  BY <1>1, <1>3, OthersAreQuiet
<1>4. ASSUME NEW w \in Procs, Step(w) PROVE StoreInv'
  <2>1. CASE LoadTelemetry(w) \/ LoadMemory(w) \/ LoadDocs(w)
    BY <1>1, <2>1, ReadsKeepFiles, DocsKeepFiles, LoadsKeepSummary DEF StoreInv
  <2>2. CASE LoadForSummary(w)
    BY <2>2, ReadsKeepFiles, ReadKeepsSummary DEF StoreInv
  <2>3. CASE Truncate(w)
    BY <2>3, TruncateKeepsFiles, TruncateKeepsSummary DEF StoreInv
  <2>4. CASE Fill(w)
    BY <2>4, FillKeepsFiles, FillKeepsSummary DEF StoreInv
  <2>5. CASE \/ RecordPr(w) \/ \E f \in Paths : RecordFile(w, f)
             \/ FindResults(w) \/ \E r \in proc[w].left : RecordTestEvent(w, r)
    BY <1>1, <2>5, RecordsAreQuiet
  <2>6. CASE \/ SelectPairs(w) \/ SelectActiveRules(w)
             \/ \E r \in Rules : CountRecent(w, r) \/ NextPair(w, r)
             \/ SelectTouched(w) \/ SelectFailed(w) \/ SelectUniverse(w)
             \/ \E g \in proc[w].picked : UpsertGuidance(w, g)
             \/ Deactivate(w)
    BY <1>1, <2>6, LoopsAreQuiet
  <2>7. CASE \/ SelectComponents(w) \/ EmitWarnings(w) \/ GateCompliance(w) \/ ExportStats(w)
             \/ SelectForTelemetry(w) \/ SelectForDocs(w) \/ Stage(w)
    BY <1>1, <2>7, QueriesAreQuiet
  <2>8. QED
    BY <1>4, <2>1, <2>2, <2>3, <2>4, <2>5, <2>6, <2>7 DEF Step
<1>5. CASE UNCHANGED vars
  <2>1. UNCHANGED <<files, kept, harmed, proc>>
    BY <1>5 DEF vars, stores
  <2>2. Quiet({})
    BY <2>1 DEF Quiet
  <2>3. QED
    BY <1>1, <2>2
<1>6. QED
  BY <1>2, <1>3, <1>4, <1>5 DEF Next

\* Memory, telemetry and AGENTS.md keep every entry, the summary condenses all
\* of the telemetry, unless a process stops half way or two rewrite at once.
THEOREM FilesKeepTheirHistory == Spec => []HistoryKept
<1>1. TypeInv /\ StoreInv => FilesKept /\ SummaryFollows
  <2> SUFFICES ASSUME TypeInv, StoreInv PROVE FilesKept /\ SummaryFollows
    OBVIOUS
  <2>1. FilesKept
    BY DEF StoreInv, FileInv, Unharmed, WholeOtherwise, Whole, AtFill, FilesKept, Files
  <2>2. ASSUME NEW v \in Procs, Renews(v) \/ Rewriting(v, "summary")
        PROVE  Running(v) /\ Head(proc[v].todo) \in {"telemetry", "summary"}
    <3>1. \A f \in {"summary", "telemetry"} : Rewriting(v, f) => Running(v) /\ Head(proc[v].todo) = f
      BY RewritesIts DEF Rewriting, FileOf
    <3>2. QED
      BY <2>2, <3>1 DEF Renews, AtFill
  <2>3. SummaryFollows
    BY <2>2 DEF StoreInv, SummaryInv, SummaryFollows
  <2>4. QED
    BY <2>1, <2>3
<1>2. Spec => [](TypeInv /\ StoreInv)
  <2>1. Init => TypeInv /\ StoreInv
    BY InitType, InitStore
  <2>2. TypeInv /\ StoreInv /\ [Next]_vars => (TypeInv /\ StoreInv)'
    BY NextType, NextStore
  <2>3. QED
    BY <2>1, <2>2, PTL DEF Spec
<1>3. Spec => [](FilesKept /\ SummaryFollows)
  BY <1>1, <1>2, PTL
<1>4. QED
  BY <1>3, TypeCorrect, PTL DEF HistoryKept

-----------------------------------------------------------------------------
(* The counts *)

FailedPrs(t) == {e.pr : e \in {x \in Distinct : x.test = t /\ x.status = "failed"}}
FailedRows == Cardinality(RowsOf(events, FailedEvents))
EventsGrow == \A e \in DOMAIN events : e \in DOMAIN events' /\ events[e] <= events'[e]

\* What a process has counted so far is still there to be counted.
Counted(v) ==
    Running(v) =>
        /\ Head(proc[v].todo) = "analyze" =>
              \A g \in proc[v].picked : g.support <= Cardinality(FailedPrs(g.rule[2]))
        /\ proc[v].at = "universe" => proc[v].table.failed \subseteq FailedPrs(proc[v].table.rule[2])
        /\ proc[v].at = "total" => proc[v].buf[1] <= FailedRows
EarlierRemain ==
    \A e \in DOMAIN EarlierEvents : e \in DOMAIN events /\ EarlierEvents[e] <= events[e]
CountInv == CountsAreRight /\ EarlierRemain /\ \A v \in Procs : Counted(v)

\* No row goes, so no count of rows falls.
LEMMA MoreRows ==
    ASSUME NEW t, EventsOK(t), NEW u, EventsOK(u), NEW es \in SUBSET DOMAIN t, NEW fs \in SUBSET DOMAIN u,
           es \subseteq fs, \A e \in es : t[e] <= u[e]
    PROVE  Cardinality(RowsOf(t, es)) <= Cardinality(RowsOf(u, fs))
<1>1. RowsOf(t, es) \subseteq RowsOf(u, fs)
  <2> SUFFICES ASSUME NEW e \in es, NEW n \in 1 .. t[e]
               PROVE  <<e, n>> \in RowsOf(u, fs)
    BY DEF RowsOf
  <2>1. t[e] \in Nat /\ u[e] \in Nat /\ e \in fs /\ t[e] <= u[e]
    BY DEF EventsOK, IsABag
  <2>2. n \in 1 .. u[e]
    BY <2>1
  <2>3. <<e, n>> \in {e} \X (1 .. u[e])
    BY <2>2
  <2>4. QED
    BY <2>1, <2>3 DEF RowsOf
<1>2. QED
  BY <1>1, RowsAreFinite, FS_Subset

LEMMA DisjointRows ==
    ASSUME NEW t, EventsOK(t), NEW es \in SUBSET DOMAIN t, NEW fs \in SUBSET DOMAIN t, es \cap fs = {}
    PROVE  Cardinality(RowsOf(t, es \cup fs)) = Cardinality(RowsOf(t, es)) + Cardinality(RowsOf(t, fs))
<1>1. RowsOf(t, es \cup fs) = RowsOf(t, es) \cup RowsOf(t, fs)
  BY DEF RowsOf
<1>2. RowsOf(t, es) \cap RowsOf(t, fs) = {}
  BY DEF RowsOf
<1>3. /\ IsFiniteSet(RowsOf(t, es)) /\ IsFiniteSet(RowsOf(t, fs))
      /\ Cardinality(RowsOf(t, es)) \in Nat /\ Cardinality(RowsOf(t, fs)) \in Nat
  BY RowsAreFinite
<1>4. Cardinality({}) = 0
  BY FS_EmptySet
<1>5. Cardinality(RowsOf(t, es) \cup RowsOf(t, fs)) =
         Cardinality(RowsOf(t, es)) + Cardinality(RowsOf(t, fs)) - Cardinality(RowsOf(t, es) \cap RowsOf(t, fs))
  BY <1>3, FS_Union
<1>6. \A m, n \in Nat : m + n - 0 = m + n
  OBVIOUS
<1>7. QED
  BY <1>1, <1>2, <1>3, <1>4, <1>5, <1>6

LEMMA CountsGrow ==
    ASSUME TypeInv, TypeInv', EventsGrow
    PROVE  /\ \A t : /\ FailedPrs(t) \subseteq FailedPrs(t)'
                     /\ Cardinality(FailedPrs(t)) <= Cardinality(FailedPrs(t)')
                     /\ Cardinality(FailedPrs(t)) \in Nat /\ Cardinality(FailedPrs(t)') \in Nat
           /\ FailedRows <= FailedRows' /\ FailedRows \in Nat /\ FailedRows' \in Nat
           /\ EarlierRemain => EarlierRemain'
<1>1. /\ EventsOK(events) /\ EventsOK(events')
      /\ Distinct = DOMAIN events /\ Distinct' = DOMAIN events'
      /\ FailedEvents \subseteq DOMAIN events /\ FailedEvents' \subseteq DOMAIN events'
  BY DEF TypeInv, TablesOK, Distinct, BagToSet, FailedEvents
<1>2. ASSUME NEW t
      PROVE  /\ FailedPrs(t) \subseteq FailedPrs(t)'
             /\ Cardinality(FailedPrs(t)) <= Cardinality(FailedPrs(t)')
             /\ Cardinality(FailedPrs(t)) \in Nat /\ Cardinality(FailedPrs(t)') \in Nat
  <2>1. FailedPrs(t) \subseteq FailedPrs(t)'
    BY <1>1 DEF FailedPrs, EventsGrow
  <2>2. FailedPrs(t)' \subseteq Prs
    BY <1>1 DEF FailedPrs, EventsOK, EventOK
  <2>3. IsFiniteSet(FailedPrs(t)')
    BY <2>2, TablesAssumption, FS_Subset
  <2>4. QED
    BY <2>1, <2>3, FS_Subset, FS_CardinalityType
<1>3. FailedRows <= FailedRows' /\ FailedRows \in Nat /\ FailedRows' \in Nat
  <2>1. FailedEvents \subseteq FailedEvents' /\ \A e \in FailedEvents : events[e] <= events'[e]
    BY DEF FailedEvents, EventsGrow
  <2>2. QED
    BY <1>1, <2>1, MoreRows, RowsAreFinite DEF FailedRows
<1>4. ASSUME EarlierRemain, NEW e \in DOMAIN EarlierEvents
      PROVE  e \in DOMAIN events' /\ EarlierEvents[e] <= events'[e]
  <2>1. /\ e \in DOMAIN events /\ EarlierEvents[e] <= events[e]
        /\ e \in DOMAIN events' /\ events[e] <= events'[e]
    BY <1>4 DEF EarlierRemain, EventsGrow
  <2>2. EarlierEvents[e] \in Nat /\ events[e] \in Nat /\ events'[e] \in Nat
    BY <1>1, <2>1, TablesAssumption DEF EventsOK, IsABag
  <2>3. QED
    BY <2>1, <2>2
<1>5. QED
  BY <1>2, <1>3, <1>4 DEF EarlierRemain

\* A process that does not move, or counts nothing.
Still(v) == /\ proc'[v].todo = proc[v].todo /\ proc'[v].at = proc[v].at /\ proc'[v].picked = proc[v].picked
            /\ proc'[v].table = proc[v].table /\ proc'[v].buf = proc[v].buf
NoCount(v) ==
    \/ proc'[v].todo = <<>>
    \/ /\ proc'[v].at \notin {"universe", "total"}
       /\ Head(proc'[v].todo) = "analyze" =>
             \/ proc'[v].picked = {}
             \/ Running(v) /\ Head(proc[v].todo) = "analyze" /\ proc'[v].picked \subseteq proc[v].picked

LEMMA CountedStays ==
    ASSUME TypeInv, TypeInv', EventsGrow, NEW v \in Procs, Counted(v), Still(v) \/ NoCount(v)
    PROVE  Counted(v)'
<1>1. /\ \A t : /\ FailedPrs(t) \subseteq FailedPrs(t)'
                /\ Cardinality(FailedPrs(t)) <= Cardinality(FailedPrs(t)')
                /\ Cardinality(FailedPrs(t)) \in Nat /\ Cardinality(FailedPrs(t)') \in Nat
      /\ FailedRows <= FailedRows' /\ FailedRows \in Nat /\ FailedRows' \in Nat
  BY CountsGrow
<1>2. ASSUME Running(v), Head(proc[v].todo) = "analyze", NEW g \in proc[v].picked
      PROVE  g.support <= Cardinality(FailedPrs(g.rule[2])')
  <2>1. g \in Candidates
    BY <1>2, AtMeans DEF StepOK
  <2>2. g.support \in Nat /\ g.support <= Cardinality(FailedPrs(g.rule[2]))
    BY <1>2, <2>1 DEF Counted, Candidates
  <2>3. /\ Cardinality(FailedPrs(g.rule[2])) <= Cardinality(FailedPrs(g.rule[2])')
        /\ Cardinality(FailedPrs(g.rule[2])) \in Nat /\ Cardinality(FailedPrs(g.rule[2])') \in Nat
    BY <1>1
  <2>4. QED
    BY <2>2, <2>3
<1>3. CASE NoCount(v)
  BY <1>2, <1>3 DEF NoCount, Counted, Running
<1>4. CASE Still(v)
  <2>1. Running(v)' <=> Running(v)
    BY <1>4 DEF Running, Still
  <2>2. ASSUME Running(v), proc[v].at = "total" PROVE proc[v].buf[1] <= FailedRows'
    <3>1. proc[v].buf[1] \in Nat
      BY <2>2, AtMeans DEF StepOK
    <3>2. QED
      BY <1>1, <2>2, <3>1 DEF Counted
  <2>3. ASSUME Running(v), proc[v].at = "universe"
        PROVE  proc[v].table.failed \subseteq FailedPrs(proc[v].table.rule[2])'
    <3>1. PICK t : t = proc[v].table.rule[2]
      OBVIOUS
    <3>2. proc[v].table.failed \subseteq FailedPrs(t)
      BY <2>3, <3>1 DEF Counted
    <3>3. proc[v].table.failed \subseteq FailedPrs(t)'
      BY <1>1, <3>2
    <3>4. proc'[v].table.rule[2] = t
      BY <1>4, <3>1 DEF Still
    <3>5. QED
      BY <3>3, <3>4 DEF FailedPrs
  <2>4. QED
    BY <1>2, <1>4, <2>1, <2>2, <2>3 DEF Counted, Still
<1>5. QED
  BY <1>3, <1>4

\* The rules and the export stay as they are while events come in.
LEMMA CountsStay ==
    ASSUME TypeInv, TypeInv', CountInv, EventsGrow, UNCHANGED <<guidance, exported>>,
           \A v \in Procs : Counted(v)'
    PROVE  CountInv'
<1>1. SupportIsDistinctPrs'
  <2> SUFFICES ASSUME NEW r \in Rules, guidance[r] # NoRow
               PROVE  guidance[r].support <= Cardinality(FailedPrs(r[2])')
    BY DEF SupportIsDistinctPrs, FailedPrs, Rules, Components
  <2>1. guidance[r] \in Rows
    BY DEF TypeInv, TablesOK
  <2>2. guidance[r].support \in Nat
    BY <2>1 DEF Rows
  <2>3. guidance[r].support <= Cardinality(FailedPrs(r[2]))
    BY DEF CountInv, CountsAreRight, SupportIsDistinctPrs, FailedPrs
  <2>4. /\ Cardinality(FailedPrs(r[2])) <= Cardinality(FailedPrs(r[2])')
        /\ Cardinality(FailedPrs(r[2])) \in Nat /\ Cardinality(FailedPrs(r[2])') \in Nat
    BY CountsGrow
  <2>5. QED
    BY <2>2, <2>3, <2>4
<1>2. ExportIsConsistent'
  BY DEF CountInv, CountsAreRight, ExportIsConsistent, RowsOf
<1>3. EarlierRemain'
  BY CountsGrow DEF CountInv
<1>4. QED
  BY <1>1, <1>2, <1>3 DEF CountInv, CountsAreRight

LEMMA CountsStayIf ==
    ASSUME TypeInv, TypeInv', CountInv, EventsGrow, UNCHANGED <<guidance, exported>>,
           \A v \in Procs : Still(v) \/ NoCount(v)
    PROVE  CountInv'
BY CountedStays, CountsStay DEF CountInv

LEMMA SameEvents == ASSUME TypeInv, events' = events PROVE EventsGrow
<1>1. \A e \in DOMAIN events : events[e] \in Nat
  BY DEF TypeInv, TablesOK, EventsOK, IsABag
<1>2. QED
  BY <1>1 DEF EventsGrow

LEMMA OthersStill ==
    ASSUME TypeInv, NEW w \in Procs, NEW q, Becomes(w, q)
    PROVE  proc'[w] = q /\ \A v \in Procs \ {w} : Still(v)
BY DEF Becomes, TypeInv, ProcsOK, Still

LEMMA EndNoCount ==
    ASSUME TypeInv, NEW w \in Procs, Running(w),
           \/ proc'[w] = Done(proc[w])
           \/ \E code \in Codes \ {"none"} : proc'[w] = Exits(proc[w], code)
    PROVE  NoCount(w)
<1>1. /\ Done(proc[w]).at = "start" /\ Done(proc[w]).picked = {}
      /\ \A code \in Codes \ {"none"} : Exits(proc[w], code).todo = <<>>
  BY AtMeans, DoneIs, ExitsIs
<1>2. QED
  BY <1>1 DEF NoCount

LEMMA RecordsNoCount ==
    ASSUME TypeInv, NEW w \in Procs,
           \/ RecordPr(w) \/ \E f \in Paths : RecordFile(w, f)
           \/ FindResults(w) \/ \E r \in proc[w].left : RecordTestEvent(w, r)
    PROVE  NoCount(w) /\ \A v \in Procs \ {w} : Still(v)
<1> DEFINE p == proc[w]
<1>1. Running(w) /\ Head(p.todo) \in {"record-pr", "ingest-tests"} /\ p.at \in {"start", "rows", "events"}
  BY DEF RecordPr, RecordFile, FindResults, RecordTestEvent, At
<1>2. ProcOK(p) /\ p \in Process /\ p.todo # <<>>
  BY <1>1, AtMeans
<1>3. Done(p).at = "start" /\ Done(p).picked = {}
  BY <1>2, DoneIs
<1>4. CASE RecordPr(w)
  <2> DEFINE q == [p EXCEPT !.at = "rows", !.left = p.call.paths]
  <2>1. q.at = "rows" /\ q.todo = p.todo
    BY <1>2 DEF Process
  <2> HIDE DEF q
  <2>2. Becomes(w, q) \/ Becomes(w, Done(p))
    BY <1>4 DEF RecordPr, q
  <2>3. QED
    BY <1>1, <1>3, <2>1, <2>2, OthersStill DEF NoCount
<1>5. CASE FindResults(w)
  <2> DEFINE q == [p EXCEPT !.at = "events", !.left = p.call.results]
  <2>1. q.at = "events" /\ q.todo = p.todo
    BY <1>2 DEF Process
  <2> HIDE DEF q
  <2>2. Becomes(w, q) \/ Becomes(w, Done(p))
    BY <1>5 DEF FindResults, q
  <2>3. QED
    BY <1>1, <1>3, <2>1, <2>2, OthersStill DEF NoCount
<1>6. ASSUME NEW x, RecordFile(w, x) \/ RecordTestEvent(w, x)
      PROVE  NoCount(w) /\ \A v \in Procs \ {w} : Still(v)
  <2> DEFINE q == [p EXCEPT !.left = @ \ {x}]
  <2>1. q.at = p.at /\ ProcOK(q) /\ q.todo = p.todo
    BY <1>2, OneLess
  <2> HIDE DEF q
  <2>2. Done(q).at = "start" /\ Done(q).picked = {}
    BY <1>2, <2>1, DoneIs
  <2>3. Becomes(w, q) \/ Becomes(w, Done(q))
    BY <1>6 DEF RecordFile, RecordTestEvent, q
  <2>4. QED
    BY <1>1, <2>1, <2>2, <2>3, OthersStill DEF NoCount
<1>7. QED
  BY <1>4, <1>5, <1>6

\* A step of a loop, with the candidates that are left.
LEMMA LoopNoCount ==
    ASSUME NEW w \in Procs, Running(w), Head(proc[w].todo) \in {"analyze", "prune"},
           NEW q, ProcOK(q), q.todo = proc[w].todo, proc'[w] = Loop(q),
           Head(proc[w].todo) = "analyze" => q.picked \subseteq proc[w].picked
    PROVE  NoCount(w)
<1>1. q.todo # <<>>
  BY DEF Running
<1>2. \/ Loop(q).at \in {"next", "upsert"} /\ Loop(q).todo = q.todo /\ Loop(q).picked = q.picked
      \/ Loop(q) = Done(q)
  BY <1>1, LoopIs
<1>3. Done(q).at = "start" /\ Done(q).picked = {}
  BY <1>1, DoneIs
<1>4. QED
  BY <1>2, <1>3 DEF NoCount

LEMMA LoopsNoCount ==
    ASSUME TypeInv, NEW w \in Procs,
           \/ SelectPairs(w) \/ SelectActiveRules(w)
           \/ \E r \in Rules : CountRecent(w, r) \/ NextPair(w, r)
           \/ SelectTouched(w)
           \/ \E g \in proc[w].picked : UpsertGuidance(w, g)
           \/ Deactivate(w)
    PROVE  NoCount(w) /\ \A v \in Procs \ {w} : Still(v)
<1> DEFINE p == proc[w]
<1>1. Running(w) /\ Head(p.todo) \in {"analyze", "prune"}
  BY DEF SelectPairs, SelectActiveRules, CountRecent, NextPair, SelectTouched, UpsertGuidance, Deactivate,
         InLoop, At
<1>2. ProcOK(p)
  BY <1>1, AtMeans
<1>3. \E q : Becomes(w, q)
  BY DEF SelectPairs, SelectActiveRules, CountRecent, NextPair, SelectTouched, UpsertGuidance, Deactivate
<1>4. NoCount(w)
  <2>1. CASE SelectPairs(w)
    BY <1>1, <2>1, SelectPairsType, LoopNoCount
  <2>2. CASE SelectActiveRules(w)
    <3>1. Head(p.todo) = "prune"
      BY <2>2 DEF SelectActiveRules, At
    <3>2. QED
      BY <1>1, <2>2, <3>1, SelectActiveRulesType, LoopNoCount
  <2>3. CASE \E r \in Rules : CountRecent(w, r)
    <3>1. Head(p.todo) = "prune"
      BY <2>3 DEF CountRecent, At
    <3>2. QED
      BY <2>3, <3>1, CountRecentType DEF NoCount
  <2>4. CASE \E r \in Rules : NextPair(w, r)
    BY <1>1, <2>4, NextPairType DEF NoCount
  <2>5. CASE SelectTouched(w)
    BY <1>1, <2>5, SelectTouchedType DEF NoCount
  <2>6. CASE \E g \in p.picked : UpsertGuidance(w, g)
    BY <1>1, <2>6, UpsertType, LoopNoCount
  <2>7. CASE Deactivate(w)
    BY <1>1, <1>2, <2>7, DeactivateType, LoopNoCount
  <2>8. QED
    BY <2>1, <2>2, <2>3, <2>4, <2>5, <2>6, <2>7
<1>5. QED
  BY <1>3, <1>4, OthersStill

LEMMA QueriesNoCount ==
    ASSUME TypeInv, NEW w \in Procs,
           \/ SelectComponents(w) \/ EmitWarnings(w) \/ GateCompliance(w)
           \/ SelectForTelemetry(w) \/ SelectForDocs(w) \/ Stage(w)
    PROVE  NoCount(w) /\ \A v \in Procs \ {w} : Still(v)
<1>1. CASE SelectComponents(w) \/ SelectForTelemetry(w) \/ SelectForDocs(w)
  <2>1. \E q : Becomes(w, q)
    BY <1>1 DEF SelectComponents, SelectForTelemetry, SelectForDocs
  <2>2. Head(proc[w].todo) # "analyze"
    BY <1>1 DEF SelectComponents, SelectForTelemetry, SelectForDocs, At
  <2>3. proc'[w].at \in {"guidance", "load"} /\ proc'[w].todo = proc[w].todo
    BY <1>1, SelectComponentsType, SelectForTelemetryType, SelectForDocsType
  <2>4. QED
    BY <2>1, <2>2, <2>3, OthersStill DEF NoCount
<1>2. CASE EmitWarnings(w) \/ GateCompliance(w) \/ Stage(w)
  <2>1. "1" \in Codes \ {"none"} /\ "2" \in Codes \ {"none"}
    BY DEF Codes
  <2>2. Running(w) /\ \/ Becomes(w, Done(proc[w]))
                      \/ Becomes(w, Exits(proc[w], "1")) \/ Becomes(w, Exits(proc[w], "2"))
    BY <1>2, EmitWarningsType, GateComplianceType, StageType
  <2>3. QED
    BY <2>1, <2>2, OthersStill, EndNoCount
<1>3. QED
  BY <1>1, <1>2

LEMMA FilesNoCount ==
    ASSUME TypeInv, NEW w \in Procs,
           \/ LoadTelemetry(w) \/ LoadForSummary(w) \/ LoadMemory(w) \/ LoadDocs(w)
           \/ Truncate(w) \/ Fill(w)
    PROVE  NoCount(w) /\ \A v \in Procs \ {w} : Still(v)
<1>1. /\ Running(w) /\ Head(proc[w].todo) \in {"telemetry", "summary", "memory", "update-docs"}
      /\ \E q : Becomes(w, q)
  BY DEF LoadTelemetry, LoadForSummary, LoadMemory, LoadDocs, Truncate, Fill, At, InFile, Read
<1>2. CASE LoadTelemetry(w) \/ LoadForSummary(w) \/ LoadMemory(w)
  <2>1. proc'[w].at = "truncate" /\ proc'[w].todo = proc[w].todo
    BY <1>2, LoadTelemetryType, LoadForSummaryType, LoadMemoryType
  <2>2. QED
    BY <1>1, <2>1, OthersStill DEF NoCount
<1>3. CASE LoadDocs(w)
  <2>1. "error" \in Codes \ {"none"}
    BY DEF Codes
  <2>2. \/ proc'[w].at = "truncate" /\ proc'[w].todo = proc[w].todo
        \/ Becomes(w, Exits(proc[w], "error"))
    BY <1>3, LoadDocsType
  <2>3. QED
    BY <1>1, <2>1, <2>2, OthersStill, EndNoCount DEF NoCount
<1>4. CASE Truncate(w)
  <2>1. proc'[w].at = "fill" /\ proc'[w].todo = proc[w].todo
    BY <1>4, TruncateType
  <2>2. QED
    BY <1>1, <2>1, OthersStill DEF NoCount
<1>5. CASE Fill(w)
  <2>1. \/ proc'[w].at = "stage" /\ proc'[w].todo = proc[w].todo
        \/ proc'[w] = Done(proc[w])
    BY <1>5, FillType
  <2>2. QED
    BY <1>1, <2>1, OthersStill, EndNoCount DEF NoCount
<1>6. QED
  BY <1>2, <1>3, <1>4, <1>5

LEMMA OthersNoCount ==
    ASSUME TypeInv,
           \/ Tick
           \/ \E w \in Procs : (\E c \in Calls : Start(w, c)) \/ Fails(w) \/ Killed(w)
    PROVE  \A v \in Procs : Still(v) \/ NoCount(v)
<1>1. CASE Tick
  BY <1>1, TickType DEF Still
<1>2. ASSUME NEW w \in Procs, NEW c \in Calls, Start(w, c)
      PROVE  \A v \in Procs : Still(v) \/ NoCount(v)
  <2>1. \A v \in Procs \ {w} : Still(v)
    BY <1>2, StartType DEF Still
  <2>2. proc'[w].at = "start" /\ proc'[w].picked = {}
    BY <1>2, StartType
  <2>3. QED
    BY <2>1, <2>2 DEF NoCount
<1>3. ASSUME NEW w \in Procs, Fails(w) \/ Killed(w)
      PROVE  \A v \in Procs : Still(v) \/ NoCount(v)
  <2>1. \A v \in Procs \ {w} : proc'[v] = proc[v]
    BY <1>3, FailsType, KilledType
  <2>2. proc'[w].todo = <<>> \/ (proc'[w].at = "start" /\ proc'[w].picked = {})
    BY <1>3, FailsType, KilledType
  <2>3. QED
    BY <2>1, <2>2 DEF NoCount, Still
<1>4. QED
  BY <1>1, <1>2, <1>3

\* A row more.
LEMMA RecordKeepsCounts ==
    ASSUME TypeInv, CountInv, NEW w \in Procs, NEW r, RecordTestEvent(w, r)
    PROVE  CountInv'
<1>1. TypeInv' /\ r \in Result /\ proc[w].call \in CallType
  BY RecordTestEventType
<1>2. /\ r \in proc[w].left /\ UNCHANGED <<guidance, exported>>
      /\ OneMore(events', events, Event(proc[w].call, r))
  BY DEF RecordTestEvent, OneMore
<1>3. EventOK(Event(proc[w].call, r)) /\ EventsOK(events)
  BY <1>1, EventType DEF TypeInv, TablesOK
<1>4. PICK e : e = Event(proc[w].call, r) /\ EventOK(e) /\ OneMore(events', events, e)
  BY <1>2, <1>3
<1>5. /\ DOMAIN events' = DOMAIN events \cup {e}
      /\ \A x \in DOMAIN events \ {e} : events'[x] = events[x]
      /\ e \in DOMAIN events => events'[e] = events[e] + 1
  <2>1. Grown(events', events, e)
    BY <1>3, <1>4, OneEventMore
  <2>2. QED
    BY <2>1 DEF Grown
<1>6. \A x \in DOMAIN events : events[x] \in Nat
  BY <1>3 DEF EventsOK, IsABag
<1>7. EventsGrow
  BY <1>5, <1>6 DEF EventsGrow
<1>8. QED
  BY <1>1, <1>2, <1>7, RecordsNoCount, CountsStayIf

\* The pull requests that failed a test within the window are some of those
\* that ever did, whatever comes in before the universe is counted.
LEMMA FailedKeepsCounts ==
    ASSUME TypeInv, CountInv, NEW w \in Procs, SelectFailed(w)
    PROVE  CountInv'
<1>1. /\ TypeInv' /\ proc'[w].todo = proc[w].todo /\ proc'[w].picked = proc[w].picked
      /\ proc'[w].at = "universe" /\ proc'[w].table.rule = proc[w].table.rule
      /\ proc'[w].table.failed = PrsFailing(proc[w].table.rule[2], proc[w].table.cutoff)
  BY SelectFailedType
<1>2. UNCHANGED <<events, guidance, exported>> /\ \E q : Becomes(w, q)
  BY DEF SelectFailed, tables
<1>3. PICK t : t = proc[w].table.rule[2]
  OBVIOUS
<1>4. proc'[w].table.failed \subseteq FailedPrs(t)'
  BY <1>1, <1>2, <1>3 DEF PrsFailing, FailedPrs, Distinct
<1>5. ASSUME Running(w), Head(proc[w].todo) = "analyze", NEW g \in proc[w].picked
      PROVE  g.support <= Cardinality(FailedPrs(g.rule[2]))'
  <2>1. g.support <= Cardinality(FailedPrs(g.rule[2]))
    BY <1>5 DEF CountInv, Counted
  <2>2. QED
    BY <1>2, <2>1 DEF FailedPrs, Distinct
<1>6. Counted(w)'
  BY <1>1, <1>3, <1>4, <1>5 DEF Counted, Running, FailedPrs
<1>7. \A v \in Procs \ {w} : Counted(v)'
  BY <1>1, <1>2, SameEvents, OthersStill, CountedStays DEF CountInv
<1>8. QED
  BY <1>1, <1>2, <1>6, <1>7, SameEvents, CountsStay

\* A candidate counts pull requests that touch the component and fail the test.
LEMMA UniverseKeepsCounts ==
    ASSUME TypeInv, CountInv, NEW w \in Procs, SelectUniverse(w)
    PROVE  CountInv'
<1> DEFINE p == proc[w]
           k == Contingency(p.table.touched, p.table.failed, PrsSeen(p.table.cutoff))
<1>1. UNCHANGED <<events, guidance, exported>> /\ \E q : Becomes(w, q)
  BY DEF SelectUniverse, tables
<1>2. /\ Running(w) /\ p.at = "universe" /\ Head(p.todo) \in {"analyze", "prune"} /\ p.todo # <<>>
      /\ p \in Process /\ p.table.rule \in Rules
  BY InLoopMeans DEF SelectUniverse, StepOK
<1>3. TypeInv'
  BY SelectUniverseType
<1>4. k.a \in Nat /\ k.a <= Cardinality(FailedPrs(p.table.rule[2]))
  <2>1. p.table.failed \subseteq FailedPrs(p.table.rule[2])
    BY <1>2 DEF CountInv, Counted
  <2>2. FailedPrs(p.table.rule[2]) \subseteq Prs
    BY DEF FailedPrs, TypeInv, TablesOK, EventsOK, EventOK, Distinct, BagToSet
  <2>3. IsFiniteSet(FailedPrs(p.table.rule[2]))
    BY <2>2, TablesAssumption, FS_Subset
  <2>4. p.table.touched \cap p.table.failed \subseteq FailedPrs(p.table.rule[2])
    BY <2>1
  <2>5. k.a = Cardinality(p.table.touched \cap p.table.failed)
    BY DEF Contingency
  <2>6. QED
    BY <2>3, <2>4, <2>5, FS_Subset, FS_CardinalityType
<1> HIDE DEF k
<1>5. Counted(w)'
  <2>1. CASE proc'[w].todo = p.todo /\ proc'[w].at = "deactivate" /\ Head(p.todo) = "prune"
    BY <2>1 DEF Counted
  <2>2. ASSUME NEW q, ProcOK(q), q.todo = p.todo, proc'[w] = Loop(q),
               q.picked = p.picked \cup
                    (IF Head(p.todo) = "analyze" /\ Qualifies(k)
                     THEN {[rule |-> p.table.rule, support |-> k.a]} ELSE {})
        PROVE  Counted(w)'
    <3>1. \/ Loop(q).at \in {"next", "upsert"} /\ Loop(q).todo = q.todo /\ Loop(q).picked = q.picked
          \/ Loop(q) = Done(q)
      BY <1>2, <2>2, LoopIs
    <3>2. Done(q).at = "start" /\ Done(q).picked = {}
      BY <1>2, <2>2, DoneIs
    <3>3. proc'[w].at \notin {"universe", "total"}
      BY <2>2, <3>1, <3>2
    <3>4. ASSUME Head(proc'[w].todo) = "analyze", NEW g \in proc'[w].picked
          PROVE  g.support <= Cardinality(FailedPrs(g.rule[2]))
      <4>1. g \in q.picked /\ Head(p.todo) = "analyze"
        BY <2>2, <3>1, <3>2, <3>4
      <4>2. CASE g \in p.picked
        BY <1>2, <4>1, <4>2 DEF CountInv, Counted
      <4>3. CASE g = [rule |-> p.table.rule, support |-> k.a]
        BY <1>4, <4>3
      <4>4. QED
        BY <2>2, <4>1, <4>2, <4>3
    <3>5. \A t : FailedPrs(t)' = FailedPrs(t)
      BY <1>1 DEF FailedPrs, Distinct
    <3>6. QED
      BY <3>3, <3>4, <3>5 DEF Counted
  <2>3. QED
    BY <2>1, <2>2, SelectUniverseType DEF k
<1>6. \A v \in Procs \ {w} : Counted(v)'
  BY <1>1, <1>3, SameEvents, OthersStill, CountedStays DEF CountInv
<1>7. QED
  BY <1>1, <1>3, <1>5, <1>6, SameEvents, CountsStay

LEMMA UpsertKeepsCounts ==
    ASSUME TypeInv, CountInv, NEW w \in Procs, NEW g \in proc[w].picked, UpsertGuidance(w, g)
    PROVE  CountInv'
<1>1. /\ TypeInv' /\ g \in Candidates
      /\ guidance' = [guidance EXCEPT ![g.rule] = [support |-> g.support, active |-> TRUE]]
  BY UpsertType
<1>2. /\ Running(w) /\ Head(proc[w].todo) = "analyze" /\ UNCHANGED <<events, exported>>
  BY DEF UpsertGuidance, At
<1>3. \A t : FailedPrs(t)' = FailedPrs(t)
  BY <1>2 DEF FailedPrs, Distinct
<1>4. ASSUME NEW r \in Rules, guidance'[r] # NoRow
      PROVE  guidance'[r].support <= Cardinality(FailedPrs(r[2]))
  <2>1. CASE r = g.rule
    <3>1. guidance'[r] = [support |-> g.support, active |-> TRUE]
      BY <1>1, <2>1 DEF TypeInv, TablesOK
    <3>2. QED
      BY <1>2, <2>1, <3>1 DEF CountInv, Counted
  <2>2. CASE r # g.rule
    <3>1. guidance'[r] = guidance[r]
      BY <1>1, <2>2 DEF TypeInv, TablesOK
    <3>2. QED
      BY <1>4, <3>1 DEF CountInv, CountsAreRight, SupportIsDistinctPrs, FailedPrs
  <2>3. QED
    BY <2>1, <2>2
<1>5. SupportIsDistinctPrs'
  BY <1>3, <1>4 DEF SupportIsDistinctPrs, FailedPrs, Rules, Components
<1>6. EventsGrow
  BY <1>2, SameEvents
<1>7. \A v \in Procs : Counted(v)'
  BY <1>1, <1>6, LoopsNoCount, CountedStays DEF CountInv
<1>8. ExportIsConsistent' /\ EarlierRemain'
  BY <1>2 DEF CountInv, CountsAreRight, ExportIsConsistent, EarlierRemain, RowsOf
<1>9. QED
  BY <1>5, <1>7, <1>8 DEF CountInv, CountsAreRight

LEMMA DeactivateKeepsCounts ==
    ASSUME TypeInv, CountInv, NEW w \in Procs, Deactivate(w)
    PROVE  CountInv'
<1>1. PICK r \in Rules : /\ TypeInv' /\ guidance[r] \in Rows
                         /\ guidance'[r].support = guidance[r].support
                         /\ \A s \in Rules \ {r} : guidance'[s] = guidance[s]
  BY DeactivateType
<1>2. UNCHANGED <<events, exported>>
  BY DEF Deactivate
<1>3. \A t : FailedPrs(t)' = FailedPrs(t)
  BY <1>2 DEF FailedPrs, Distinct
<1>4. ASSUME NEW s \in Rules, guidance'[s] # NoRow
      PROVE  guidance'[s].support <= Cardinality(FailedPrs(s[2]))
  <2>1. CASE s = r
    <3>1. guidance[s] # NoRow /\ guidance'[s].support = guidance[s].support
      BY <1>1, <2>1, BlanksAssumption
    <3>2. QED
      BY <3>1 DEF CountInv, CountsAreRight, SupportIsDistinctPrs, FailedPrs
  <2>2. CASE s # r
    <3>1. guidance'[s] = guidance[s]
      BY <1>1, <2>2
    <3>2. QED
      BY <1>4, <3>1 DEF CountInv, CountsAreRight, SupportIsDistinctPrs, FailedPrs
  <2>3. QED
    BY <2>1, <2>2
<1>5. SupportIsDistinctPrs'
  BY <1>3, <1>4 DEF SupportIsDistinctPrs, FailedPrs, Rules, Components
<1>6. EventsGrow
  BY <1>2, SameEvents
<1>7. \A v \in Procs : Counted(v)'
  BY <1>1, <1>6, LoopsNoCount, CountedStays DEF CountInv
<1>8. ExportIsConsistent' /\ EarlierRemain'
  BY <1>2 DEF CountInv, CountsAreRight, ExportIsConsistent, EarlierRemain, RowsOf
<1>9. QED
  BY <1>5, <1>7, <1>8 DEF CountInv, CountsAreRight

\* The failed rows are counted first: those that come in before all rows are
\* counted make the difference larger, never smaller.
LEMMA ExportKeepsCounts ==
    ASSUME TypeInv, CountInv, NEW w \in Procs, ExportStats(w)
    PROVE  CountInv'
<1>1. /\ TypeInv' /\ Running(w) /\ Head(proc[w].todo) = "export" /\ UNCHANGED <<events, guidance>>
      /\ \/ /\ UNCHANGED exported /\ proc'[w].todo = proc[w].todo /\ proc'[w].at = "total"
            /\ proc'[w].buf = <<Cardinality(RowsOf(events, FailedEvents))>>
         \/ /\ proc[w].at = "total" /\ Becomes(w, Done(proc[w]))
            /\ exported' = [failed |-> proc[w].buf[1], total |-> Cardinality(RowsOf(events, Distinct))]
  BY ExportStatsType DEF tables
<1>2. EventsGrow
  BY <1>1, SameEvents
<1>3. \A v \in Procs \ {w} : Counted(v)'
  <2>1. \E q : Becomes(w, q)
    BY DEF ExportStats
  <2>2. QED
    BY <1>1, <1>2, <2>1, OthersStill, CountedStays DEF CountInv
<1>4. CASE /\ UNCHANGED exported /\ proc'[w].todo = proc[w].todo /\ proc'[w].at = "total"
           /\ proc'[w].buf = <<Cardinality(RowsOf(events, FailedEvents))>>
  <2>1. FailedRows \in Nat /\ FailedRows' = FailedRows /\ proc'[w].buf[1] = FailedRows
    BY <1>1, <1>2, <1>4, CountsGrow DEF FailedRows, FailedEvents, RowsOf
  <2>2. Counted(w)'
    BY <1>1, <1>4, <2>1 DEF Counted
  <2>3. QED
    BY <1>1, <1>2, <1>3, <1>4, <2>2, CountsStay
<1>5. CASE /\ proc[w].at = "total" /\ Becomes(w, Done(proc[w]))
           /\ exported' = [failed |-> proc[w].buf[1], total |-> Cardinality(RowsOf(events, Distinct))]
  <2> DEFINE passed == {e \in DOMAIN EarlierEvents : e.status = "passed"}
             now == {e \in DOMAIN events : e.status = "passed"}
             before == Cardinality(RowsOf(EarlierEvents, passed))
             others == Cardinality(RowsOf(events, now))
  <2>1. /\ EventsOK(events) /\ Distinct = DOMAIN events /\ now \subseteq DOMAIN events
        /\ FailedEvents \subseteq DOMAIN events
    BY DEF TypeInv, TablesOK, Distinct, BagToSet, FailedEvents
  <2>2. EventsOK(EarlierEvents) /\ passed \subseteq DOMAIN EarlierEvents
    BY TablesAssumption DEF EventsOK, EventOK
  <2>3. before <= others
    <3>1. passed \subseteq now /\ \A e \in passed : EarlierEvents[e] <= events[e]
      BY DEF CountInv, EarlierRemain
    <3>2. QED
      BY <2>1, <2>2, <3>1, MoreRows
  <2>4. Cardinality(RowsOf(events, Distinct)) = FailedRows + others
    <3>1. FailedEvents \cap now = {} /\ Distinct = FailedEvents \cup now
      BY <2>1 DEF FailedEvents, EventsOK, EventOK
    <3>2. QED
      BY <2>1, <3>1, DisjointRows DEF FailedRows
  <2>5. proc[w].buf[1] \in Nat /\ proc[w].buf[1] <= FailedRows
    BY <1>1, <1>5, AtMeans DEF StepOK, CountInv, Counted
  <2>6. before \in Nat /\ others \in Nat /\ FailedRows \in Nat
    BY <2>1, <2>2, RowsAreFinite DEF FailedRows
  <2>7. exported'.total - exported'.failed >= before
    <3>1. exported'.total = FailedRows + others /\ exported'.failed = proc[w].buf[1]
      BY <1>5, <2>4
    <3> HIDE DEF before, others
    <3>2. QED
      BY <2>3, <2>5, <2>6, <3>1
  <2>8. ExportIsConsistent'
    BY <2>7 DEF ExportIsConsistent, RowsOf
  <2>9. proc'[w] = Done(proc[w])
    BY <1>5, OthersStill
  <2>10. Counted(w)'
    BY <1>1, <1>2, <2>9, EndNoCount, CountedStays DEF CountInv
  <2>11. SupportIsDistinctPrs' /\ EarlierRemain'
    BY <1>1 DEF CountInv, CountsAreRight, SupportIsDistinctPrs, EarlierRemain, Rules, Components, Distinct
  <2>12. QED
    BY <1>3, <2>8, <2>10, <2>11 DEF CountInv, CountsAreRight
<1>6. QED
  BY <1>1, <1>4, <1>5

LEMMA InitCounts == Init => CountInv
<1> SUFFICES ASSUME Init PROVE CountInv
  OBVIOUS
<1> DEFINE passed == {e \in DOMAIN EarlierEvents : e.status = "passed"}
           all == BagToSet(EarlierEvents)
<1>1. \A v \in Procs : Counted(v)
  BY DEF Init, Counted, Running, Idle
<1>2. SupportIsDistinctPrs
  BY DEF Init, SupportIsDistinctPrs
<1>3. EventsOK(EarlierEvents) /\ all = DOMAIN EarlierEvents /\ passed \subseteq DOMAIN EarlierEvents
  BY TablesAssumption DEF EventsOK, EventOK, BagToSet
<1>4. \A e \in DOMAIN EarlierEvents : EarlierEvents[e] \in Nat
  BY <1>3 DEF EventsOK, IsABag
<1>5. EarlierRemain
  BY <1>4 DEF Init, EarlierRemain
<1>6. Cardinality(RowsOf(EarlierEvents, passed)) <= Cardinality(RowsOf(EarlierEvents, all))
  BY <1>3, <1>4, MoreRows
<1>7. /\ Cardinality(RowsOf(EarlierEvents, passed)) \in Nat
      /\ Cardinality(RowsOf(EarlierEvents, all)) \in Nat
  BY <1>3, RowsAreFinite
<1>8. ExportIsConsistent
  <2>1. exported.failed = 0 /\ exported.total = Cardinality(RowsOf(EarlierEvents, all))
    BY DEF Init
  <2>2. exported.total - exported.failed >= Cardinality(RowsOf(EarlierEvents, passed))
    BY <1>6, <1>7, <2>1
  <2>3. QED
    BY <2>2 DEF ExportIsConsistent
<1>9. QED
  BY <1>1, <1>2, <1>5, <1>8 DEF CountInv, CountsAreRight

LEMMA NextCounts == TypeInv /\ CountInv /\ [Next]_vars => CountInv'
<1> SUFFICES ASSUME TypeInv, CountInv, [Next]_vars PROVE CountInv'
  OBVIOUS
<1>1. TypeInv'
  BY NextType
<1>2. ASSUME UNCHANGED <<events, guidance, exported>>, \A v \in Procs : Still(v) \/ NoCount(v)
      PROVE  CountInv'
  BY <1>1, <1>2, SameEvents, CountsStayIf
<1>3. ASSUME \/ Tick
             \/ \E w \in Procs : (\E c \in Calls : Start(w, c)) \/ Fails(w) \/ Killed(w)
      PROVE  CountInv'
  <2>1. UNCHANGED <<events, guidance, exported>>
    BY <1>3 DEF Tick, Start, Fails, Killed, tables
  <2>2. QED
    BY <1>2, <1>3, <2>1, OthersNoCount
<1>4. ASSUME NEW w \in Procs, Step(w) PROVE CountInv'
  <2>1. CASE RecordPr(w) \/ (\E f \in Paths : RecordFile(w, f)) \/ FindResults(w)
    <3>1. UNCHANGED <<events, guidance, exported>>
      BY <2>1 DEF RecordPr, RecordFile, FindResults, tables
    <3>2. QED
      BY <1>2, <2>1, <3>1, RecordsNoCount
  <2>2. CASE \E r \in proc[w].left : RecordTestEvent(w, r)
    BY <2>2, RecordKeepsCounts
  <2>3. CASE \/ SelectPairs(w) \/ SelectActiveRules(w) \/ SelectTouched(w)
             \/ \E r \in Rules : CountRecent(w, r) \/ NextPair(w, r)
    <3>1. UNCHANGED <<events, guidance, exported>>
      BY <2>3 DEF SelectPairs, SelectActiveRules, SelectTouched, CountRecent, NextPair, tables
    <3>2. QED
      BY <1>2, <2>3, <3>1, LoopsNoCount
  <2>4. CASE SelectFailed(w) \/ SelectUniverse(w)
    BY <2>4, FailedKeepsCounts, UniverseKeepsCounts
  <2>5. CASE (\E g \in proc[w].picked : UpsertGuidance(w, g)) \/ Deactivate(w)
    BY <2>5, UpsertKeepsCounts, DeactivateKeepsCounts
  <2>6. CASE \/ SelectComponents(w) \/ EmitWarnings(w) \/ GateCompliance(w)
             \/ SelectForTelemetry(w) \/ SelectForDocs(w) \/ Stage(w)
    <3>1. UNCHANGED <<events, guidance, exported>>
      BY <2>6 DEF SelectComponents, EmitWarnings, GateCompliance, SelectForTelemetry, SelectForDocs, Stage,
                  tables
    <3>2. QED
      BY <1>2, <2>6, <3>1, QueriesNoCount
  <2>7. CASE ExportStats(w)
    BY <2>7, ExportKeepsCounts
  <2>8. CASE \/ LoadTelemetry(w) \/ LoadForSummary(w) \/ LoadMemory(w) \/ LoadDocs(w)
             \/ Truncate(w) \/ Fill(w)
    <3>1. UNCHANGED <<events, guidance, exported>>
      BY <2>8 DEF LoadTelemetry, LoadForSummary, LoadMemory, LoadDocs, Truncate, Fill, Read, tables
    <3>2. QED
      BY <1>2, <2>8, <3>1, FilesNoCount
  <2>9. QED
    BY <1>4, <2>1, <2>2, <2>3, <2>4, <2>5, <2>6, <2>7, <2>8 DEF Step
<1>5. CASE UNCHANGED vars
  <2>1. UNCHANGED <<events, guidance, exported, proc>>
    BY <1>5 DEF vars, tables
  <2>2. QED
    BY <1>2, <2>1 DEF Still
<1>6. QED
  BY <1>3, <1>4, <1>5 DEF Next

\* The support of a rule never exceeds the pull requests that failed its test,
\* and no export makes passed events vanish, whoever ingests meanwhile.
THEOREM CountsComeFromEvents == Spec => []CountsAreRight
<1>1. CountInv => CountsAreRight
  BY DEF CountInv
<1>2. QED
  BY <1>1, InitType, InitCounts, NextType, NextCounts, PTL DEF Spec

-----------------------------------------------------------------------------
(* What a process that runs alone has achieved *)

\* The counts a rule would be judged by now, and those that would bring it about.
CountsNow(r) == Contingency(PrsTouching(r[1]), PrsFailing(r[2], day), PrsSeen(day))
Deserved(r) == r \in DistinctPairs(day) /\ Qualifies(CountsNow(r))
Sound(r) == Recent(r, day) /\ ~Worn(CountsNow(r))

\* What is left of analyze: the pairs L to look at and the candidates P to
\* write; of prune: the rules L to look at.
Found(L, P) == \A r \in Rules : Deserved(r) => r \in L \/ r \in Active \/ \E g \in P : g.rule = r
Checked(L) == \A r \in Active : r \in L \/ Sound(r)
Made == Found({}, {})
Pruned == Checked({})
Passed(c) ==
    LET required == Required(ActiveFor(ComponentsOfPr(c.pr)))
    IN  \/ ~c.fail_on_violation \/ ManifestOf(c) = NoManifest \/ required = {}
        \/ Compliant(required, ManifestOf(c), c.require_any)

Hand(p) == IF p.at \in {"touched", "failed", "universe", "deactivate"} THEN {p.table.rule} ELSE {}

\* What the last queries of the process have told it still holds.
QueriesInv(p) ==
    /\ p.at = "guidance" => p.left = ComponentsOfPr(p.call.pr)
    /\ p.at \in {"failed", "universe"} =>
          p.table.touched = PrsTouching(p.table.rule[1]) /\ p.table.cutoff = day
    /\ p.at = "universe" => p.table.failed = PrsFailing(p.table.rule[2], day)
AnalyzeInv(p) ==
    Head(p.todo) = "analyze" /\ p.at # "start" => Found(p.left \cup Hand(p), p.picked)
PruneInv(p) ==
    Head(p.todo) = "prune" /\ p.at # "start" =>
        /\ p.table.cutoff = day /\ Checked(p.left \cup Hand(p))
        /\ p.at \in {"touched", "failed", "universe"} => Recent(p.table.rule, day)
        /\ p.at = "deactivate" => ~Deserved(p.table.rule)

\* How far a workflow is: a step is still to come, or it is behind with all
\* that could undo it, and what it is for holds.
Behind(t, S) == \A x \in S : ~Holds(t, x)
Inputs == {"record-pr", "ingest-tests", "analyze"}
Progress(t, c) ==
    /\ Holds(t, "analyze") \/ (Behind(t, Inputs) /\ Made)
    /\ c.prune => Holds(t, "prune") \/ (Behind(t, Inputs \cup {"prune"}) /\ Pruned)
    /\ \/ Holds(t, "emit-warnings")
       \/ Behind(t, Inputs \cup {"prune", "emit-warnings"}) /\ Passed(c)

Work(w) == /\ QueriesInv(proc[w]) /\ AnalyzeInv(proc[w]) /\ PruneInv(proc[w])
           /\ proc[w].call.cmd = "run-workflow" => Progress(proc[w].todo, proc[w].call)
AloneInv == \A w \in Procs : Running(w) /\ proc[w].alone => \A v \in Procs \ {w} : ~Running(v)
WorkInv == AloneInv /\ \A w \in Procs : Running(w) /\ proc[w].alone => Work(w)

\* What is asked of the tables is answered as long as they do not change.
LEMMA SameAnswers ==
    ASSUME UNCHANGED <<day, prFiles, events>>
    PROVE  \A r : /\ CountsNow(r)' = CountsNow(r) /\ (Deserved(r)' <=> Deserved(r)) /\ (Sound(r)' <=> Sound(r))
                  /\ (Recent(r, day)' <=> Recent(r, day))
<1>1. Distinct' = Distinct /\ DistinctPairs(day)' = DistinctPairs(day) /\ PrsSeen(day)' = PrsSeen(day)
  BY DEF Distinct, DistinctPairs, PrsSeen
<1>2. \A c : PrsTouching(c)' = PrsTouching(c)
  BY DEF PrsTouching
<1>3. \A t : PrsFailing(t, day)' = PrsFailing(t, day)
  BY DEF PrsFailing, Distinct
<1>4. \A r : CountsNow(r)' = CountsNow(r)
  BY <1>1, <1>2, <1>3 DEF CountsNow
<1>5. \A r : Recent(r, day)' <=> Recent(r, day)
  BY DEF Recent, Distinct
<1>6. QED
  BY <1>1, <1>4, <1>5 DEF Deserved, Sound

LEMMA SameRules ==
    ASSUME UNCHANGED <<day, prFiles, events, guidance>>
    PROVE  /\ \A L, P : Found(L, P)' <=> Found(L, P)
           /\ \A L : Checked(L)' <=> Checked(L)
           /\ \A c : Passed(c)' <=> Passed(c)
<1>1. Active' = Active
  BY DEF Active, Rules, Components
<1>2. Rules' = Rules
  BY DEF Rules, Components
<1>3. \A L, P : Found(L, P)' <=> Found(L, P)
  BY <1>1, <1>2, SameAnswers DEF Found
<1>4. \A L : Checked(L)' <=> Checked(L)
  BY <1>1, SameAnswers DEF Checked
<1>5. \A n : ComponentsOfPr(n)' = ComponentsOfPr(n)
  BY DEF ComponentsOfPr
<1>6. \A C : ActiveFor(C)' = ActiveFor(C)
  BY <1>1 DEF ActiveFor
<1>7. \A c : Passed(c)' <=> Passed(c)
  BY <1>5, <1>6 DEF Passed, Required, ManifestOf
<1>8. QED
  BY <1>3, <1>4, <1>7

\* A pair that failed in the window, with counts that qualify, is sound.
LEMMA DeservedIsSound ==
    ASSUME TypeInv, NEW r \in Rules, Deserved(r)
    PROVE  Sound(r)
<1>1. PICK e \in Distinct : /\ InWindow(e, day) /\ e.status = "failed"
                            /\ r = <<e.component, e.test>>
  BY DEF Deserved, DistinctPairs
<1>2. r[1] = e.component /\ r[2] = e.test
  BY <1>1
<1>3. Recent(r, day)
  BY <1>1, <1>2 DEF Recent
<1>4. CountsNow(r) \in [a : Nat, b : Nat, c : Nat, d : Nat]
  <2>1. PrsTouching(r[1]) \subseteq Prs
    BY DEF PrsTouching
  <2>2. PrsFailing(r[2], day) \subseteq Prs /\ PrsSeen(day) \subseteq Prs
    BY FailingArePrs DEF TypeInv
  <2>3. QED
    BY <2>1, <2>2, ContingencyType DEF CountsNow
<1>5. ~Worn(CountsNow(r))
  BY <1>4, QualifiesMeans DEF Deserved
<1>6. QED
  BY <1>3, <1>5 DEF Sound

-----------------------------------------------------------------------------
(* How a step moves its process *)

\* What is left to do after the end of a step.
Rest(t, u) == u = Tail(t) \/ (Head(t) = "telemetry" /\ u = Tail(Tail(t)))
Shift(p, q) ==
    /\ q.call = p.call /\ q.alone = p.alone
    /\ \/ q.todo = p.todo
       \/ q.at = "start" /\ Rest(p.todo, q.todo)
       \/ q.todo = <<>> /\ q.exit # "0"

LEMMA EndShifts ==
    ASSUME NEW p, ProcOK(p), p.todo # <<>>
    PROVE  /\ Shift(p, Done(p)) /\ Done(p).at = "start"
           /\ \A code \in Codes \ {"none", "0"} : Shift(p, Exits(p, code)) /\ Exits(p, code).todo = <<>>
<1>1. Shift(p, Done(p)) /\ Done(p).at = "start"
  BY DoneIs DEF Shift, Rest
<1>2. p \in Process /\ p.call # NoCall
  BY DEF ProcOK
<1>3. \A code \in Codes \ {"none", "0"} : Shift(p, Exits(p, code)) /\ Exits(p, code).todo = <<>>
  BY <1>2, ExitsIs DEF Shift
<1>4. QED
  BY <1>1, <1>3

LEMMA LoopShifts ==
    ASSUME NEW p, ProcOK(p), p.todo # <<>>, Head(p.todo) \in {"analyze", "prune"},
           NEW q, ProcOK(q), q.todo = p.todo, q.call = p.call, q.alone = p.alone
    PROVE  Shift(p, Loop(q)) /\ Loop(q).at \in {"start", "next", "upsert"}
<1>1. /\ Shift(q, Done(q)) /\ Done(q).at = "start"
      /\ Done(q).call = q.call /\ Done(q).alone = q.alone
  BY EndShifts, DoneIs
<1>2. /\ Loop(q).call = q.call /\ Loop(q).alone = q.alone
      /\ \/ Loop(q).at \in {"next", "upsert"} /\ Loop(q).todo = q.todo
         \/ Loop(q) = Done(q)
  BY LoopIs
<1>3. QED
  BY <1>1, <1>2 DEF Shift

\* Only the process whose step it is moves.
LEMMA OthersSame ==
    ASSUME TypeInv, NEW w \in Procs, NEW q, Becomes(w, q)
    PROVE  proc'[w] = q /\ \A v \in Procs \ {w} : proc'[v] = proc[v]
BY DEF Becomes, TypeInv, ProcsOK

Mine(w) == Running(w) /\ Shift(proc[w], proc'[w]) /\ \A v \in Procs \ {w} : proc'[v] = proc[v]

LEMMA RecordsShift ==
    ASSUME TypeInv, NEW w \in Procs,
           \/ RecordPr(w) \/ \E f \in Paths : RecordFile(w, f)
           \/ FindResults(w) \/ \E r \in proc[w].left : RecordTestEvent(w, r)
    PROVE  Mine(w) /\ proc'[w].at \in {"start", "rows", "events"}
<1> DEFINE p == proc[w]
<1>1. Running(w) /\ Head(p.todo) \in {"record-pr", "ingest-tests"} /\ p.at \in {"start", "rows", "events"}
  BY DEF RecordPr, RecordFile, FindResults, RecordTestEvent, At
<1>2. ProcOK(p) /\ p \in Process /\ p.todo # <<>>
  BY <1>1, AtMeans
<1>3. Shift(p, Done(p)) /\ Done(p).at = "start"
  BY <1>2, EndShifts
<1>4. CASE RecordPr(w)
  <2> DEFINE q == [p EXCEPT !.at = "rows", !.left = p.call.paths]
  <2>1. q.at = "rows" /\ q.todo = p.todo /\ q.call = p.call /\ q.alone = p.alone
    BY <1>2 DEF Process
  <2> HIDE DEF q
  <2>2. Becomes(w, q) \/ Becomes(w, Done(p))
    BY <1>4 DEF RecordPr, q
  <2>3. QED
    BY <1>1, <1>3, <2>1, <2>2, OthersSame DEF Mine, Shift
<1>5. CASE FindResults(w)
  <2> DEFINE q == [p EXCEPT !.at = "events", !.left = p.call.results]
  <2>1. q.at = "events" /\ q.todo = p.todo /\ q.call = p.call /\ q.alone = p.alone
    BY <1>2 DEF Process
  <2> HIDE DEF q
  <2>2. Becomes(w, q) \/ Becomes(w, Done(p))
    BY <1>5 DEF FindResults, q
  <2>3. QED
    BY <1>1, <1>3, <2>1, <2>2, OthersSame DEF Mine, Shift
<1>6. ASSUME NEW x, RecordFile(w, x) \/ RecordTestEvent(w, x)
      PROVE  Mine(w) /\ proc'[w].at \in {"start", "rows", "events"}
  <2> DEFINE q == [p EXCEPT !.left = @ \ {x}]
  <2>1. q.at = p.at /\ ProcOK(q) /\ q.todo = p.todo /\ q.call = p.call /\ q.alone = p.alone
    BY <1>2, OneLess
  <2> HIDE DEF q
  <2>2. Shift(q, Done(q)) /\ Done(q).at = "start"
    BY <1>2, <2>1, EndShifts
  <2>3. Becomes(w, q) \/ Becomes(w, Done(q))
    BY <1>6 DEF RecordFile, RecordTestEvent, q
  <2>4. QED
    BY <1>1, <2>1, <2>2, <2>3, OthersSame DEF Mine, Shift
<1>7. QED
  BY <1>4, <1>5, <1>6

LEMMA LoopsShift ==
    ASSUME TypeInv, NEW w \in Procs,
           \/ SelectPairs(w) \/ SelectActiveRules(w)
           \/ \E r \in Rules : CountRecent(w, r) \/ NextPair(w, r)
           \/ SelectTouched(w) \/ SelectFailed(w) \/ SelectUniverse(w)
           \/ \E g \in proc[w].picked : UpsertGuidance(w, g)
           \/ Deactivate(w)
    PROVE  Mine(w) /\ Head(proc[w].todo) \in {"analyze", "prune"}
<1> DEFINE p == proc[w]
<1>1. Running(w) /\ Head(p.todo) \in {"analyze", "prune"}
  BY DEF SelectPairs, SelectActiveRules, CountRecent, NextPair, SelectTouched, SelectFailed, SelectUniverse,
         UpsertGuidance, Deactivate, InLoop, At
<1>2. ProcOK(p) /\ p.todo # <<>>
  BY <1>1, AtMeans
<1>3. \E q : Becomes(w, q)
  BY DEF SelectPairs, SelectActiveRules, CountRecent, NextPair, SelectTouched, SelectFailed, SelectUniverse,
         UpsertGuidance, Deactivate
<1>4. Shift(p, proc'[w])
  <2>1. CASE SelectPairs(w)
    <3>1. \E q : /\ ProcOK(q) /\ q.todo = p.todo /\ q.call = p.call /\ q.alone = p.alone
                 /\ proc'[w] = Loop(q)
      BY <2>1, SelectPairsType
    <3>2. QED
      BY <1>1, <1>2, <3>1, LoopShifts
  <2>2. CASE SelectActiveRules(w)
    <3>1. \E q : /\ ProcOK(q) /\ q.todo = p.todo /\ q.call = p.call /\ q.alone = p.alone
                 /\ proc'[w] = Loop(q)
      BY <2>2, SelectActiveRulesType
    <3>2. QED
      BY <1>1, <1>2, <3>1, LoopShifts
  <2>3. CASE \E r \in Rules : CountRecent(w, r)
    BY <2>3, CountRecentType DEF Shift
  <2>4. CASE \E r \in Rules : NextPair(w, r)
    BY <2>4, NextPairType DEF Shift
  <2>5. CASE SelectTouched(w)
    BY <2>5, SelectTouchedType DEF Shift
  <2>6. CASE SelectFailed(w)
    BY <2>6, SelectFailedType DEF Shift
  <2>7. CASE SelectUniverse(w)
    <3>1. \/ proc'[w].todo = p.todo /\ proc'[w].call = p.call /\ proc'[w].alone = p.alone
          \/ \E q : /\ ProcOK(q) /\ q.todo = p.todo /\ q.call = p.call /\ q.alone = p.alone
                    /\ proc'[w] = Loop(q)
      BY <2>7, SelectUniverseType
    <3>2. QED
      BY <1>1, <1>2, <3>1, LoopShifts DEF Shift
  <2>8. CASE \E g \in p.picked : UpsertGuidance(w, g)
    <3>1. \E q : /\ ProcOK(q) /\ q.todo = p.todo /\ q.call = p.call /\ q.alone = p.alone
                 /\ proc'[w] = Loop(q)
      BY <2>8, UpsertType
    <3>2. QED
      BY <1>1, <1>2, <3>1, LoopShifts
  <2>9. CASE Deactivate(w)
    BY <1>1, <1>2, <2>9, DeactivateType, LoopShifts
  <2>10. QED
    BY <2>1, <2>2, <2>3, <2>4, <2>5, <2>6, <2>7, <2>8, <2>9
<1>5. QED
  BY <1>1, <1>3, <1>4, OthersSame DEF Mine

LEMMA QueriesShift ==
    ASSUME TypeInv, NEW w \in Procs,
           SelectComponents(w) \/ EmitWarnings(w) \/ GateCompliance(w) \/ ExportStats(w)
    PROVE  /\ Mine(w) /\ UNCHANGED <<day, tables>>
           /\ Head(proc[w].todo) \in {"emit-warnings", "check-compliance", "telemetry", "export"}
           /\ EmitWarnings(w) => proc'[w].todo = <<>> \/ proc'[w].at = "start"
           /\ GateCompliance(w) \/ ExportStats(w) =>
                 proc'[w].todo = <<>> \/ proc'[w].at \in {"start", "total"}
<1> DEFINE p == proc[w]
<1>1. /\ Running(w) /\ UNCHANGED <<day, tables>> /\ \E q : Becomes(w, q)
      /\ Head(p.todo) \in {"emit-warnings", "check-compliance", "telemetry", "export"}
  BY DEF SelectComponents, EmitWarnings, GateCompliance, ExportStats, At
<1>2. /\ Shift(p, Done(p)) /\ Done(p).at = "start" /\ "2" \in Codes \ {"none", "0"}
      /\ Shift(p, Exits(p, "2")) /\ Exits(p, "2").todo = <<>>
  BY <1>1, AtMeans, EndShifts DEF Codes
<1>3. CASE SelectComponents(w)
  <2>1. Shift(p, proc'[w]) /\ proc'[w].at = "guidance"
    BY <1>3, SelectComponentsType DEF Shift
  <2>2. ~EmitWarnings(w) /\ ~GateCompliance(w) /\ ~ExportStats(w)
    <3>1. p.at = "start"
      BY <1>3 DEF SelectComponents, At
    <3>2. ~EmitWarnings(w) /\ ~GateCompliance(w)
      BY <3>1 DEF EmitWarnings, GateCompliance, At
    <3>3. Head(p.todo) # "export"
      BY <1>3 DEF SelectComponents, At
    <3>4. QED
      BY <3>2, <3>3 DEF ExportStats, At
  <2>3. QED
    BY <1>1, <2>1, <2>2, OthersSame DEF Mine
<1>4. CASE EmitWarnings(w) \/ GateCompliance(w)
  <2>1. Becomes(w, Exits(p, "2")) \/ Becomes(w, Done(p))
    BY <1>4, EmitWarningsType, GateComplianceType
  <2>2. QED
    BY <1>1, <1>2, <2>1, OthersSame DEF Mine
<1>5. CASE ExportStats(w)
  <2>1. \/ /\ proc'[w].todo = p.todo /\ proc'[w].call = p.call /\ proc'[w].alone = p.alone
           /\ proc'[w].at = "total"
        \/ Becomes(w, Done(p))
    BY <1>5, ExportStatsType
  <2>2. Shift(p, proc'[w]) /\ proc'[w].at \in {"start", "total"}
    BY <1>2, <2>1, OthersSame DEF Shift
  <2>3. ~EmitWarnings(w)
    BY <1>5 DEF ExportStats, EmitWarnings, At
  <2>4. QED
    BY <1>1, <2>2, <2>3, OthersSame DEF Mine
<1>6. QED
  BY <1>3, <1>4, <1>5

LEMMA FilesShift ==
    ASSUME TypeInv, NEW w \in Procs,
           \/ SelectForTelemetry(w) \/ LoadTelemetry(w) \/ LoadForSummary(w) \/ LoadMemory(w)
           \/ SelectForDocs(w) \/ LoadDocs(w) \/ Truncate(w) \/ Fill(w) \/ Stage(w)
    PROVE  /\ Mine(w) /\ UNCHANGED <<day, tables>>
           /\ Head(proc[w].todo) \in {"telemetry", "summary", "memory", "update-docs"}
           /\ proc'[w].todo = <<>> \/ proc'[w].at \in {"start", "load", "truncate", "fill", "stage"}
<1> DEFINE p == proc[w]
<1>1. /\ Running(w) /\ Head(p.todo) \in {"telemetry", "summary", "memory", "update-docs"}
      /\ UNCHANGED <<day, tables>> /\ \E q : Becomes(w, q)
  BY DEF SelectForTelemetry, LoadTelemetry, LoadForSummary, LoadMemory, SelectForDocs, LoadDocs, Truncate,
         Fill, Stage, At, InFile, Read
<1>2. /\ Shift(p, Done(p)) /\ Done(p).at = "start"
      /\ Shift(p, Exits(p, "1")) /\ Exits(p, "1").todo = <<>>
      /\ Shift(p, Exits(p, "error")) /\ Exits(p, "error").todo = <<>>
  BY <1>1, AtMeans, EndShifts DEF Codes
<1>3. CASE SelectForTelemetry(w) \/ LoadTelemetry(w) \/ LoadForSummary(w) \/ LoadMemory(w) \/ SelectForDocs(w)
  <2>1. /\ proc'[w].todo = p.todo /\ proc'[w].call = p.call /\ proc'[w].alone = p.alone
        /\ proc'[w].at \in {"load", "truncate"}
    BY <1>3, SelectForTelemetryType, LoadTelemetryType, LoadForSummaryType, LoadMemoryType, SelectForDocsType
  <2>2. QED
    BY <1>1, <2>1, OthersSame DEF Mine, Shift
<1>4. CASE LoadDocs(w)
  <2>1. \/ /\ proc'[w].todo = p.todo /\ proc'[w].call = p.call /\ proc'[w].alone = p.alone
           /\ proc'[w].at = "truncate"
        \/ Becomes(w, Exits(p, "error"))
    BY <1>4, LoadDocsType
  <2>2. QED
    BY <1>1, <1>2, <2>1, OthersSame DEF Mine, Shift
<1>5. CASE Truncate(w) \/ Fill(w)
  <2>1. \/ /\ proc'[w].todo = p.todo /\ proc'[w].call = p.call /\ proc'[w].alone = p.alone
           /\ proc'[w].at \in {"fill", "stage"}
        \/ proc'[w] = Done(p)
    BY <1>5, TruncateType, FillType
  <2>2. QED
    BY <1>1, <1>2, <2>1, OthersSame DEF Mine, Shift
<1>6. CASE Stage(w)
  <2>1. Becomes(w, Done(p)) \/ Becomes(w, Exits(p, "1"))
    BY <1>6, StageType
  <2>2. QED
    BY <1>1, <1>2, <2>1, OthersSame DEF Mine
<1>7. QED
  BY <1>3, <1>4, <1>5, <1>6

LEMMA FaultsShift ==
    ASSUME TypeInv, NEW w \in Procs, Fails(w) \/ Killed(w)
    PROVE  /\ Mine(w) /\ UNCHANGED <<day, tables>>
           /\ proc'[w].todo = <<>> \/ proc'[w].at = "start"
           /\ proc'[w].todo # <<>> \/ proc'[w].exit = "0" => Head(proc[w].todo) \in {"telemetry", "summary"}
<1>1. CASE Fails(w)
  BY <1>1, FailsType DEF Mine, Shift, Rest
<1>2. CASE Killed(w)
  BY <1>2, KilledType DEF Mine, Shift
<1>3. QED
  BY <1>1, <1>2

-----------------------------------------------------------------------------
(* The progress of a workflow *)

\* After a step nothing of what had to come before it is left.
LEMMA NothingBefore ==
    ASSUME NEW t, TodoOK(t), t # <<>>, NEW u, Rest(t, u)
    PROVE  /\ \A x : Holds(u, x) => Holds(t, x)
           /\ \A x \in {"analyze", "prune", "emit-warnings"} : Holds(t, x) => Head(t) = x \/ Holds(u, x)
           /\ Head(t) = "analyze" => Behind(u, Inputs)
           /\ Head(t) = "prune" => Behind(u, Inputs \cup {"prune"})
           /\ Head(t) = "emit-warnings" => Behind(u, Inputs \cup {"prune", "emit-warnings"})
<1> DEFINE r == Tail(t)
<1>1. /\ TodoOK(r) /\ \A x : Holds(t, x) <=> Head(t) = x \/ Holds(r, x)
      /\ Head(t) = "telemetry" => r # <<>> /\ Head(r) = "summary"
      /\ \A i \in DOMAIN r : Low(Head(t)) < High(r[i])
  BY RestOfScript
<1> HIDE DEF r
<1>2. r # <<>> => \A x : Holds(r, x) <=> Head(r) = x \/ Holds(Tail(r), x)
  BY <1>1, RestOfScript
<1>3. u = r \/ (Head(t) = "telemetry" /\ u = Tail(r))
  BY DEF Rest, r
<1>4. \A x : Holds(u, x) => Holds(t, x)
  BY <1>1, <1>2, <1>3
<1>5. \A x \in {"analyze", "prune", "emit-warnings"} : Holds(t, x) => Head(t) = x \/ Holds(u, x)
  BY <1>1, <1>2, <1>3
<1>6. /\ Low("analyze") = 3 /\ Low("prune") = 5 /\ Low("emit-warnings") = 7
      /\ High("record-pr") = 1 /\ High("ingest-tests") = 2 /\ High("analyze") = 3 /\ High("prune") = 5
      /\ High("emit-warnings") = 7
  BY DEF Low, High
<1>7. ASSUME NEW x, Head(t) \in {"analyze", "prune", "emit-warnings"}, ~(Low(Head(t)) < High(x))
      PROVE  ~Holds(u, x)
  BY <1>1, <1>3, <1>7 DEF Holds
<1>8. Head(t) = "analyze" => Behind(u, Inputs)
  BY <1>6, <1>7 DEF Behind, Inputs
<1>9. Head(t) = "prune" => Behind(u, Inputs \cup {"prune"})
  BY <1>6, <1>7 DEF Behind, Inputs
<1>10. Head(t) = "emit-warnings" => Behind(u, Inputs \cup {"prune", "emit-warnings"})
  BY <1>6, <1>7 DEF Behind, Inputs
<1>11. QED
  BY <1>4, <1>5, <1>8, <1>9, <1>10

\* A workflow gets on: what was so when a step ended stays so, and what the
\* step is for is so when it ends.
LEMMA GetsOn ==
    ASSUME NEW t, TodoOK(t), t # <<>>, NEW c, Progress(t, c), NEW u, u = t \/ Rest(t, u),
           Behind(t, Inputs) /\ Made => Made',
           Behind(t, Inputs \cup {"prune"}) /\ Pruned => Pruned',
           Behind(t, Inputs \cup {"prune", "emit-warnings"}) /\ Passed(c) => Passed(c)',
           u # t /\ Head(t) = "analyze" => Made', u # t /\ Head(t) = "prune" => Pruned',
           u # t /\ Head(t) = "emit-warnings" => Passed(c)'
    PROVE  Progress(u, c)'
<1>1. CASE u = t
  BY <1>1 DEF Progress, Behind, Holds, Inputs
<1>2. CASE u # t
  <2>1. Rest(t, u)
    BY <1>2
  <2>2. \A S : Behind(t, S) => Behind(u, S)
    BY <2>1, NothingBefore DEF Behind
  <2>3. Holds(u, "analyze") \/ (Behind(u, Inputs) /\ Made')
    BY <1>2, <2>1, <2>2, NothingBefore DEF Progress
  <2>4. c.prune => Holds(u, "prune") \/ (Behind(u, Inputs \cup {"prune"}) /\ Pruned')
    BY <1>2, <2>1, <2>2, NothingBefore DEF Progress
  <2>5. Holds(u, "emit-warnings") \/ (Behind(u, Inputs \cup {"prune", "emit-warnings"}) /\ Passed(c)')
    BY <1>2, <2>1, <2>2, NothingBefore DEF Progress
  <2>6. QED
    BY <2>3, <2>4, <2>5 DEF Progress, Behind, Holds, Inputs
<1>3. QED
  BY <1>1, <1>2

\* Steps that neither analyse nor prune, and whose end settles nothing.
LEMMA OtherStepsWork ==
    ASSUME TypeInv, NEW w \in Procs, Work(w), Mine(w), Running(w)',
           Head(proc[w].todo) \notin {"analyze", "prune"},
           proc'[w].at \notin {"guidance", "failed", "universe"},
           \/ UNCHANGED <<day, prFiles, events, guidance>>
           \/ Head(proc[w].todo) \in {"record-pr", "ingest-tests"},
           Head(proc[w].todo) = "emit-warnings" =>
                proc'[w].todo = proc[w].todo \/ Passed(proc[w].call)'
    PROVE  Work(w)'
<1> DEFINE p == proc[w]
<1>1. /\ ProcOK(p) /\ TodoOK(p.todo) /\ p.todo # <<>>
  BY AtMeans DEF Mine
<1>2. PICK q, t, c : q = proc'[w] /\ t = p.todo /\ c = p.call
  OBVIOUS
<1>3. /\ q.call = c /\ q.todo # <<>> /\ proc'[w].call = c
      /\ q.todo = t \/ (q.at = "start" /\ Rest(t, q.todo))
  BY <1>2 DEF Mine, Shift, Running
<1>4. QueriesInv(q)'
  BY <1>2 DEF QueriesInv
<1>5. AnalyzeInv(q)' /\ PruneInv(q)'
  BY <1>2, <1>3 DEF AnalyzeInv, PruneInv
<1>6. ASSUME c.cmd = "run-workflow" PROVE Progress(q.todo, c)'
  <2>1. Progress(t, c) /\ TodoOK(t) /\ t # <<>>
    BY <1>1, <1>2, <1>6 DEF Work
  <2>2. Head(t) = "emit-warnings" => q.todo = t \/ Passed(c)'
    BY <1>2, <1>3
  <2>3. CASE UNCHANGED <<day, prFiles, events, guidance>>
    <3>1. (Made' <=> Made) /\ (Pruned' <=> Pruned) /\ (Passed(c)' <=> Passed(c))
      BY <2>3, SameRules DEF Made, Pruned
    <3>2. QED
      BY <1>2, <1>3, <2>1, <2>2, <3>1, GetsOn
  <2>4. CASE Head(t) \in {"record-pr", "ingest-tests"}
    <3>1. Holds(t, Head(t))
      BY <2>1, RestOfScript
    <3>2. ~Behind(t, Inputs) /\ ~Behind(t, Inputs \cup {"prune"})
          /\ ~Behind(t, Inputs \cup {"prune", "emit-warnings"})
      BY <2>4, <3>1 DEF Behind, Inputs
    <3>3. QED
      BY <1>2, <1>3, <2>1, <2>4, <3>2, GetsOn
  <2>5. QED
    BY <1>2, <2>3, <2>4
<1>7. QED
  BY <1>2, <1>3, <1>4, <1>5, <1>6 DEF Work

-----------------------------------------------------------------------------
(* analyze *)

LEMMA AnalyzeGoesOn ==
    ASSUME TypeInv, NEW w \in Procs, Work(w), Mine(w), Running(w)', Head(proc[w].todo) = "analyze",
           NEW q, q = proc'[w], QueriesInv(q)',
           q.at # "start" => Found(q.left \cup Hand(q), q.picked)', q.at = "start" => Made'
    PROVE  Work(w)'
<1>1. PICK t, c : t = proc[w].todo /\ c = proc[w].call
  OBVIOUS
<1>2. TodoOK(t) /\ t # <<>> /\ Head(t) = "analyze"
  BY <1>1, AtMeans DEF Mine
<1>3. /\ q.call = c /\ q.todo # <<>>
      /\ q.todo = t \/ (q.at = "start" /\ Rest(t, q.todo))
  BY <1>1 DEF Mine, Shift, Running
<1>4. AnalyzeInv(q)' /\ PruneInv(q)'
  BY <1>2, <1>3 DEF AnalyzeInv, PruneInv
<1>5. ASSUME c.cmd = "run-workflow" PROVE Progress(q.todo, c)'
  <2>1. Progress(t, c)
    BY <1>1, <1>5 DEF Work
  <2>2. Holds(t, "analyze")
    BY <1>2, RestOfScript
  <2>3. /\ ~Behind(t, Inputs) /\ ~Behind(t, Inputs \cup {"prune"})
        /\ ~Behind(t, Inputs \cup {"prune", "emit-warnings"})
    BY <2>2 DEF Behind, Inputs
  <2>4. q.todo # t => Made'
    BY <1>3
  <2>5. QED
    BY <1>2, <1>3, <2>1, <2>3, <2>4, GetsOn
<1>6. QED
  BY <1>1, <1>3, <1>4, <1>5 DEF Work

\* Back to the head of the loop with the pairs and candidates that are left.
LEMMA AnalyzeLoops ==
    ASSUME TypeInv, NEW w \in Procs, Work(w), Mine(w), Running(w)', Head(proc[w].todo) = "analyze",
           NEW p, ProcOK(p), p.todo = proc[w].todo, proc'[w] = Loop(p), Found(p.left, p.picked)'
    PROVE  Work(w)'
<1>1. PICK q : q = proc'[w]
  OBVIOUS
<1>2. p.todo # <<>> /\ Head(p.todo) = "analyze"
  BY AtMeans DEF Mine
<1>3. \/ q.at \in {"next", "upsert"} /\ q.left = p.left /\ q.picked = p.picked
      \/ q.at = "start" /\ p.left = {} /\ p.picked = {}
  BY <1>1, <1>2, LoopIs, DoneIs
<1>4. QueriesInv(q)'
  BY <1>3 DEF QueriesInv
<1>5. q.at # "start" => Found(q.left \cup Hand(q), q.picked)'
  <2> SUFFICES ASSUME q.at # "start" PROVE Found(q.left \cup Hand(q), q.picked)'
    OBVIOUS
  <2>1. Hand(q) = {} /\ q.left = p.left /\ q.picked = p.picked
    BY <1>3 DEF Hand
  <2>2. q.left \cup Hand(q) = p.left
    BY <2>1
  <2>3. QED
    BY <2>1, <2>2
<1>6. q.at = "start" => Made'
  BY <1>3 DEF Made
<1>7. QED
  BY <1>1, <1>4, <1>5, <1>6, AnalyzeGoesOn

LEMMA SelectPairsWorks ==
    ASSUME TypeInv, NEW w \in Procs, Work(w), Running(w)', SelectPairs(w)
    PROVE  Work(w)'
<1>1. /\ Mine(w) /\ Head(proc[w].todo) = "analyze" /\ UNCHANGED <<day, prFiles, events, guidance>>
  BY LoopsShift DEF SelectPairs, At, tables
<1>2. PICK p : /\ proc'[w] = Loop(p) /\ ProcOK(p) /\ p.todo = proc[w].todo /\ p.left = DistinctPairs(day)
  BY SelectPairsType
<1>3. Found(p.left, p.picked)
  BY <1>2 DEF Found, Deserved
<1>4. Found(p.left, p.picked)'
  BY <1>1, <1>3, SameRules
<1>5. QED
  BY <1>1, <1>2, <1>4, AnalyzeLoops

LEMMA NextPairWorks ==
    ASSUME TypeInv, NEW w \in Procs, Work(w), Running(w)', NEW r \in Rules, NextPair(w, r)
    PROVE  Work(w)'
<1>1. /\ Mine(w) /\ Head(proc[w].todo) = "analyze" /\ proc[w].at = "next"
      /\ UNCHANGED <<day, prFiles, events, guidance>>
  BY LoopsShift DEF NextPair, At, tables
<1>2. PICK q : q = proc'[w]
  OBVIOUS
<1>3. /\ q.left = proc[w].left \ {r} /\ q.table.rule = r /\ q.picked = proc[w].picked /\ q.at = "touched"
  BY <1>2, NextPairType
<1>4. QueriesInv(q)'
  BY <1>3 DEF QueriesInv
<1>5. Found(proc[w].left \cup Hand(proc[w]), proc[w].picked) /\ Hand(proc[w]) = {}
  BY <1>1 DEF Work, AnalyzeInv, Hand
<1>6. Hand(q) = {r}
  BY <1>3 DEF Hand
<1>7. Found(q.left \cup Hand(q), q.picked)
  BY <1>3, <1>5, <1>6 DEF Found
<1>8. Found(q.left \cup Hand(q), q.picked)'
  BY <1>1, <1>7, SameRules DEF Hand
<1>9. QED
  BY <1>1, <1>2, <1>3, <1>4, <1>8, AnalyzeGoesOn

LEMMA UpsertWorks ==
    ASSUME TypeInv, NEW w \in Procs, Work(w), Running(w)', NEW g \in proc[w].picked, UpsertGuidance(w, g)
    PROVE  Work(w)'
<1>1. /\ Mine(w) /\ Head(proc[w].todo) = "analyze" /\ proc[w].at = "upsert"
      /\ UNCHANGED <<day, prFiles, events>>
  BY LoopsShift DEF UpsertGuidance, At
<1>2. PICK p : /\ ProcOK(p) /\ p.todo = proc[w].todo /\ p.left = proc[w].left
               /\ p.picked = proc[w].picked \ {g} /\ proc'[w] = Loop(p)
  BY UpsertType
<1>3. /\ g \in Candidates /\ g.rule \in Rules
      /\ guidance' = [guidance EXCEPT ![g.rule] = [support |-> g.support, active |-> TRUE]]
      /\ guidance \in [Rules -> Rows \cup {NoRow}]
      /\ [support |-> g.support, active |-> TRUE] \in Rows
  BY UpsertType DEF Candidates, Rows, TypeInv, TablesOK
<1>4. Found(proc[w].left, proc[w].picked)
  <2>1. Found(proc[w].left \cup Hand(proc[w]), proc[w].picked) /\ Hand(proc[w]) = {}
    BY <1>1 DEF Work, AnalyzeInv, Hand
  <2>2. proc[w].left \cup Hand(proc[w]) = proc[w].left
    BY <2>1
  <2>3. QED
    BY <2>1, <2>2
<1>5. Rules' = Rules
  BY DEF Rules, Components
<1>6. g.rule \in Active'
  <2>1. guidance'[g.rule] = [support |-> g.support, active |-> TRUE]
    BY <1>3
  <2>2. QED
    BY <1>3, <1>5, <2>1, BlanksAssumption DEF Active
<1>7. Active \subseteq Active'
  <2>1. \A r \in Rules : r # g.rule => guidance'[r] = guidance[r]
    BY <1>3
  <2>2. QED
    BY <1>5, <1>6, <2>1 DEF Active
<1>8. Found(p.left, p.picked)'
  <2> SUFFICES ASSUME NEW r \in Rules, Deserved(r)'
               PROVE  r \in p.left \/ r \in Active' \/ \E h \in p.picked : h.rule = r
    BY <1>5 DEF Found
  <2>1. Deserved(r)
    BY <1>1, SameAnswers
  <2>2. r \in proc[w].left \/ r \in Active \/ \E h \in proc[w].picked : h.rule = r
    BY <1>4, <2>1 DEF Found
  <2>3. QED
    BY <1>2, <1>6, <1>7, <2>2
<1>9. QED
  BY <1>1, <1>2, <1>8, AnalyzeLoops

-----------------------------------------------------------------------------
(* prune *)

\* What a process that prunes knows of the rules that are left and in hand.
PruneFacts(q) == /\ q.table.cutoff = day /\ Checked(q.left \cup Hand(q))
                 /\ q.at \in {"touched", "failed", "universe"} => Recent(q.table.rule, day)
                 /\ q.at = "deactivate" => ~Deserved(q.table.rule)

LEMMA PruneGoesOn ==
    ASSUME TypeInv, NEW w \in Procs, Work(w), Mine(w), Running(w)', Head(proc[w].todo) = "prune",
           NEW q, q = proc'[w], QueriesInv(q)', Made => Made',
           q.at # "start" => PruneFacts(q)', q.at = "start" => Pruned'
    PROVE  Work(w)'
<1>1. PICK t, c : t = proc[w].todo /\ c = proc[w].call
  OBVIOUS
<1>2. TodoOK(t) /\ t # <<>> /\ Head(t) = "prune"
  BY <1>1, AtMeans DEF Mine
<1>3. /\ q.call = c /\ q.todo # <<>>
      /\ q.todo = t \/ (q.at = "start" /\ Rest(t, q.todo))
  BY <1>1 DEF Mine, Shift, Running
<1>4. AnalyzeInv(q)' /\ PruneInv(q)'
  BY <1>2, <1>3 DEF AnalyzeInv, PruneInv, PruneFacts
<1>5. ASSUME c.cmd = "run-workflow" PROVE Progress(q.todo, c)'
  <2>1. Progress(t, c)
    BY <1>1, <1>5 DEF Work
  <2>2. Holds(t, "prune")
    BY <1>2, RestOfScript
  <2>3. ~Behind(t, Inputs \cup {"prune"}) /\ ~Behind(t, Inputs \cup {"prune", "emit-warnings"})
    BY <2>2 DEF Behind, Inputs
  <2>4. q.todo # t => Pruned'
    BY <1>3
  <2>5. QED
    BY <1>2, <1>3, <2>1, <2>3, <2>4, GetsOn
<1>6. QED
  BY <1>1, <1>3, <1>4, <1>5 DEF Work

\* Back to the head of the loop with the rules that are left.
LEMMA PruneLoops ==
    ASSUME TypeInv, NEW w \in Procs, Work(w), Mine(w), Running(w)', Head(proc[w].todo) = "prune",
           NEW p, ProcOK(p), p.todo = proc[w].todo, proc'[w] = Loop(p),
           p.table.cutoff = day', Checked(p.left)', Made => Made'
    PROVE  Work(w)'
<1>1. PICK q : q = proc'[w]
  OBVIOUS
<1>2. p.todo # <<>> /\ Head(p.todo) = "prune"
  BY AtMeans DEF Mine
<1>3. \/ q.at = "next" /\ q.left = p.left /\ q.table = p.table
      \/ q.at = "start" /\ p.left = {}
  BY <1>1, <1>2, LoopIs, DoneIs
<1>4. QueriesInv(q)'
  BY <1>3 DEF QueriesInv
<1>5. q.at # "start" => PruneFacts(q)'
  <2> SUFFICES ASSUME q.at # "start" PROVE PruneFacts(q)'
    OBVIOUS
  <2>1. Hand(q) = {} /\ q.left = p.left /\ q.at = "next" /\ q.table = p.table
    BY <1>3 DEF Hand
  <2>2. q.left \cup Hand(q) = p.left
    BY <2>1
  <2>3. Checked(q.left \cup Hand(q))'
    BY <2>1, <2>2
  <2>4. QED
    BY <2>1, <2>3 DEF PruneFacts
<1>6. q.at = "start" => Pruned'
  BY <1>3 DEF Pruned
<1>7. QED
  BY <1>1, <1>4, <1>5, <1>6, PruneGoesOn

LEMMA SelectActiveRulesWorks ==
    ASSUME TypeInv, NEW w \in Procs, Work(w), Running(w)', SelectActiveRules(w)
    PROVE  Work(w)'
<1>1. /\ Mine(w) /\ Head(proc[w].todo) = "prune" /\ UNCHANGED <<day, prFiles, events, guidance>>
  BY LoopsShift DEF SelectActiveRules, At, tables
<1>2. PICK p : /\ proc'[w] = Loop(p) /\ ProcOK(p) /\ p.todo = proc[w].todo /\ p.left = Active
               /\ p.table.cutoff = day
  BY SelectActiveRulesType
<1>3. Checked(p.left)
  BY <1>2 DEF Checked
<1>4. Checked(p.left)' /\ (Made => Made')
  BY <1>1, <1>3, SameRules DEF Made
<1>5. QED
  BY <1>1, <1>2, <1>4, PruneLoops

LEMMA CountRecentWorks ==
    ASSUME TypeInv, NEW w \in Procs, Work(w), Running(w)', NEW r \in Rules, CountRecent(w, r)
    PROVE  Work(w)'
<1>1. /\ Mine(w) /\ Head(proc[w].todo) = "prune" /\ proc[w].at = "next"
      /\ UNCHANGED <<day, prFiles, events, guidance>>
  BY LoopsShift DEF CountRecent, At, tables
<1>2. PICK q : q = proc'[w]
  OBVIOUS
<1>3. proc[w].table.cutoff = day /\ Checked(proc[w].left \cup Hand(proc[w])) /\ Hand(proc[w]) = {}
  BY <1>1 DEF Work, PruneInv, Hand
<1>4. /\ q.left = proc[w].left \ {r} /\ q.table.rule = r /\ q.table.cutoff = day
      /\ q.at = IF Recent(r, day) THEN "touched" ELSE "deactivate"
  BY <1>2, <1>3, CountRecentType
<1>5. QueriesInv(q)'
  BY <1>4 DEF QueriesInv
<1>6. Hand(q) = {r}
  BY <1>4 DEF Hand
<1>7. Checked(q.left \cup Hand(q))
  BY <1>3, <1>4, <1>6 DEF Checked
<1>8. Checked(q.left \cup Hand(q))'
  BY <1>1, <1>7, SameRules DEF Hand
<1>9. ~Recent(r, day) => ~Deserved(r)
  BY DeservedIsSound DEF Sound
<1>10. PruneFacts(q)'
  BY <1>1, <1>4, <1>8, <1>9, SameAnswers DEF PruneFacts
<1>11. Made => Made'
  BY <1>1, SameRules DEF Made
<1>12. QED
  BY <1>1, <1>2, <1>4, <1>5, <1>10, <1>11, PruneGoesOn

\* A rule that goes has no right to be there.
LEMMA DeactivateWorks ==
    ASSUME TypeInv, NEW w \in Procs, Work(w), Running(w)', Deactivate(w)
    PROVE  Work(w)'
<1>1. /\ Mine(w) /\ Head(proc[w].todo) = "prune" /\ proc[w].at = "deactivate" /\ ProcOK(proc[w])
      /\ UNCHANGED <<day, prFiles, events>>
  BY LoopsShift, AtMeans DEF Deactivate, At, Mine
<1>2. PICK r \in Rules : /\ r = proc[w].table.rule /\ guidance'[r] \in Rows /\ ~guidance'[r].active
                         /\ \A s \in Rules \ {r} : guidance'[s] = guidance[s]
                         /\ proc'[w] = Loop(proc[w])
  BY DeactivateType
<1>3. /\ proc[w].table.cutoff = day /\ Checked(proc[w].left \cup {r}) /\ ~Deserved(r)
  BY <1>1, <1>2 DEF Work, PruneInv, Hand
<1>4. Active' = Active \ {r}
  <2>1. Rules' = Rules
    BY DEF Rules, Components
  <2>2. QED
    BY <1>2, <2>1 DEF Active
<1>5. PICK L : L = proc[w].left
  OBVIOUS
<1>6. Checked(L)'
  <2> SUFFICES ASSUME NEW s \in Active', s \notin L PROVE Sound(s)'
    BY DEF Checked
  <2>1. Sound(s)
    BY <1>3, <1>4, <1>5 DEF Checked
  <2>2. QED
    BY <1>1, <2>1, SameAnswers
<1>7. Made => Made'
  <2> SUFFICES ASSUME Made PROVE Made'
    OBVIOUS
  <2>1. \A s \in Rules : Deserved(s) => s \in Active
    BY DEF Made, Found
  <2>2. \A s \in Rules : Deserved(s)' => s \in Active'
    BY <1>1, <1>3, <1>4, <2>1, SameAnswers
  <2>3. Rules' = Rules
    BY DEF Rules, Components
  <2>4. QED
    BY <2>2, <2>3 DEF Made, Found
<1>8. PICK p : p = proc[w]
  OBVIOUS
<1>9. Checked(p.left)' /\ p.table.cutoff = day' /\ ProcOK(p) /\ p.todo = proc[w].todo /\ proc'[w] = Loop(p)
  BY <1>1, <1>2, <1>3, <1>5, <1>6, <1>8
<1>10. QED
  BY <1>1, <1>7, <1>9, PruneLoops

-----------------------------------------------------------------------------
(* The queries that both make *)

\* A query of the loop that leaves the rules and the rule in hand as they are.
LEMMA QueryGoesOn ==
    ASSUME TypeInv, NEW w \in Procs, Work(w), Mine(w), Running(w)',
           Head(proc[w].todo) \in {"analyze", "prune"},
           proc[w].at \in {"touched", "failed"}, UNCHANGED <<day, prFiles, events, guidance>>,
           NEW q, q = proc'[w], QueriesInv(q)', q.at \in {"failed", "universe"},
           q.left = proc[w].left, q.picked = proc[w].picked, q.table.rule = proc[w].table.rule,
           Head(proc[w].todo) = "prune" => q.table.cutoff = proc[w].table.cutoff
    PROVE  Work(w)'
<1>1. Hand(q) = Hand(proc[w])
  BY DEF Hand
<1>2. PICK L, P : L = q.left \cup Hand(q) /\ P = q.picked
  OBVIOUS
<1>3. CASE Head(proc[w].todo) = "analyze"
  <2>1. Found(L, P)
    BY <1>1, <1>2, <1>3 DEF Work, AnalyzeInv
  <2>2. Found(L, P)'
    BY <2>1, SameRules
  <2>3. Found(q.left \cup Hand(q), q.picked)'
    BY <1>2, <2>2 DEF Hand
  <2>4. QED
    BY <1>3, <2>3, AnalyzeGoesOn
<1>4. CASE Head(proc[w].todo) = "prune"
  <2>1. q.table.cutoff = day /\ Checked(L) /\ Recent(q.table.rule, day)
    BY <1>1, <1>2, <1>4 DEF Work, PruneInv
  <2>2. Checked(L)' /\ Recent(q.table.rule, day)' /\ (Made => Made')
    BY <2>1, SameRules, SameAnswers DEF Made
  <2>3. PruneFacts(q)'
    BY <1>2, <2>1, <2>2 DEF PruneFacts, Hand
  <2>4. QED
    BY <1>4, <2>2, <2>3, PruneGoesOn
<1>5. QED
  BY <1>3, <1>4

LEMMA SelectTouchedWorks ==
    ASSUME TypeInv, NEW w \in Procs, Work(w), Running(w)', SelectTouched(w)
    PROVE  Work(w)'
<1>1. /\ Mine(w) /\ Head(proc[w].todo) \in {"analyze", "prune"} /\ proc[w].at = "touched"
      /\ UNCHANGED <<day, prFiles, events, guidance>>
  BY LoopsShift, InLoopMeans DEF SelectTouched, tables
<1>2. PICK q : q = proc'[w]
  OBVIOUS
<1>3. Head(proc[w].todo) = "prune" => proc[w].table.cutoff = day
  BY <1>1 DEF Work, PruneInv
<1>4. /\ q.left = proc[w].left /\ q.picked = proc[w].picked /\ q.at = "failed"
      /\ q.table.rule = proc[w].table.rule /\ q.table.touched = PrsTouching(q.table.rule[1])
      /\ q.table.cutoff = day
  BY <1>1, <1>2, <1>3, SelectTouchedType
<1>5. QueriesInv(q)'
  BY <1>1, <1>4 DEF QueriesInv, PrsTouching
<1>6. QED
  BY <1>1, <1>2, <1>3, <1>4, <1>5, QueryGoesOn

LEMMA SelectFailedWorks ==
    ASSUME TypeInv, NEW w \in Procs, Work(w), Running(w)', SelectFailed(w)
    PROVE  Work(w)'
<1>1. /\ Mine(w) /\ Head(proc[w].todo) \in {"analyze", "prune"} /\ proc[w].at = "failed"
      /\ UNCHANGED <<day, prFiles, events, guidance>>
  BY LoopsShift, InLoopMeans DEF SelectFailed, tables
<1>2. PICK q : q = proc'[w]
  OBVIOUS
<1>3. proc[w].table.touched = PrsTouching(proc[w].table.rule[1]) /\ proc[w].table.cutoff = day
  BY <1>1 DEF Work, QueriesInv
<1>4. /\ q.left = proc[w].left /\ q.picked = proc[w].picked /\ q.at = "universe"
      /\ q.table.rule = proc[w].table.rule /\ q.table.cutoff = proc[w].table.cutoff
      /\ q.table.touched = PrsTouching(q.table.rule[1]) /\ q.table.failed = PrsFailing(q.table.rule[2], day)
  BY <1>2, <1>3, SelectFailedType
<1>5. QueriesInv(q)'
  BY <1>1, <1>3, <1>4 DEF QueriesInv, PrsTouching, PrsFailing, Distinct
<1>6. QED
  BY <1>1, <1>2, <1>3, <1>4, <1>5, QueryGoesOn

\* The counts are those of now: a pair that deserves a rule becomes a
\* candidate, a rule that is worn is condemned.
LEMMA SelectUniverseWorks ==
    ASSUME TypeInv, NEW w \in Procs, Work(w), Running(w)', SelectUniverse(w)
    PROVE  Work(w)'
<1>1. /\ Mine(w) /\ Head(proc[w].todo) \in {"analyze", "prune"} /\ proc[w].at = "universe"
      /\ UNCHANGED <<day, prFiles, events, guidance>>
  BY LoopsShift, InLoopMeans DEF SelectUniverse, tables
<1>2. PICK r \in Rules : r = proc[w].table.rule
  BY <1>1, AtMeans DEF StepOK, Mine
<1>3. PICK k : k = Contingency(proc[w].table.touched, proc[w].table.failed, PrsSeen(proc[w].table.cutoff))
  OBVIOUS
<1>4. k = CountsNow(r)
  BY <1>1, <1>2, <1>3 DEF Work, QueriesInv, CountsNow
<1>5. Hand(proc[w]) = {r}
  BY <1>1, <1>2 DEF Hand
<1>6. \/ /\ Head(proc[w].todo) = "prune" /\ Worn(k)
         /\ proc'[w].at = "deactivate" /\ proc'[w].left = proc[w].left /\ proc'[w].table = proc[w].table
      \/ /\ Head(proc[w].todo) = "prune" => ~Worn(k)
         /\ \E q : /\ ProcOK(q) /\ q.todo = proc[w].todo /\ q.left = proc[w].left /\ q.table = proc[w].table
                   /\ q.picked = proc[w].picked \cup
                        (IF Head(proc[w].todo) = "analyze" /\ Qualifies(k)
                         THEN {[rule |-> proc[w].table.rule, support |-> k.a]} ELSE {})
                   /\ proc'[w] = Loop(q)
  BY <1>3, SelectUniverseType
<1>7. Made => Made'
  BY <1>1, SameRules DEF Made
<1>8. CASE /\ Head(proc[w].todo) = "prune" /\ Worn(k)
           /\ proc'[w].at = "deactivate" /\ proc'[w].left = proc[w].left /\ proc'[w].table = proc[w].table
  <2>1. PICK q : q = proc'[w]
    OBVIOUS
  <2>2. q.at = "deactivate" /\ q.left = proc[w].left /\ q.table = proc[w].table /\ q.table.rule = r
    BY <1>2, <1>8, <2>1
  <2>3. QueriesInv(q)'
    BY <2>2 DEF QueriesInv
  <2>4. PICK L : L = q.left \cup Hand(q)
    OBVIOUS
  <2>5. Checked(L) /\ q.table.cutoff = day
    BY <1>1, <1>5, <1>8, <2>2, <2>4 DEF Work, PruneInv, Hand
  <2>6. ~Deserved(r)
    BY <1>4, <1>8, DeservedIsSound DEF Sound
  <2>7. PruneFacts(q)'
    <3>1. Checked(L)' /\ ~Deserved(r)'
      BY <1>1, <2>5, <2>6, SameRules, SameAnswers
    <3>2. QED
      BY <1>1, <2>2, <2>4, <2>5, <3>1 DEF PruneFacts, Hand
  <2>8. QED
    BY <1>1, <1>7, <1>8, <2>1, <2>2, <2>3, <2>7, PruneGoesOn
<1>9. ASSUME Head(proc[w].todo) = "prune" => ~Worn(k),
             NEW q, ProcOK(q), q.todo = proc[w].todo, q.left = proc[w].left, q.table = proc[w].table,
             q.picked = proc[w].picked \cup
                (IF Head(proc[w].todo) = "analyze" /\ Qualifies(k)
                 THEN {[rule |-> proc[w].table.rule, support |-> k.a]} ELSE {}),
             proc'[w] = Loop(q)
      PROVE  Work(w)'
  <2>1. CASE Head(proc[w].todo) = "analyze"
    <3>1. Found(proc[w].left \cup {r}, proc[w].picked)
      BY <1>1, <1>5, <2>1 DEF Work, AnalyzeInv
    <3>2. Found(q.left, q.picked)
      <4> SUFFICES ASSUME NEW s \in Rules, Deserved(s)
                   PROVE  s \in q.left \/ s \in Active \/ \E g \in q.picked : g.rule = s
        BY DEF Found
      <4>1. CASE s = r
        <5>1. [rule |-> proc[w].table.rule, support |-> k.a] \in q.picked
          BY <1>4, <1>9, <2>1, <4>1 DEF Deserved
        <5>2. [rule |-> proc[w].table.rule, support |-> k.a].rule = s
          BY <1>2, <4>1
        <5>3. QED
          BY <5>1, <5>2
      <4>2. CASE s # r
        BY <1>9, <3>1, <4>2 DEF Found
      <4>3. QED
        BY <4>1, <4>2
    <3>3. Found(q.left, q.picked)'
      BY <1>1, <3>2, SameRules
    <3>4. QED
      BY <1>1, <1>9, <2>1, <3>3, AnalyzeLoops
  <2>2. CASE Head(proc[w].todo) = "prune"
    <3>1. /\ q.table.cutoff = day /\ Checked(proc[w].left \cup {r}) /\ Recent(r, day)
      BY <1>1, <1>2, <1>5, <1>9, <2>2 DEF Work, PruneInv
    <3>2. Sound(r)
      BY <1>4, <1>9, <2>2, <3>1 DEF Sound
    <3>3. Checked(q.left)
      BY <1>9, <3>1, <3>2 DEF Checked
    <3>4. Checked(q.left)' /\ q.table.cutoff = day'
      BY <1>1, <3>1, <3>3, SameRules
    <3>5. QED
      BY <1>1, <1>7, <1>9, <2>2, <3>4, PruneLoops
  <2>3. QED
    BY <1>1, <2>1, <2>2
<1>10. QED
  BY <1>6, <1>8, <1>9

-----------------------------------------------------------------------------
(* The gate *)

LEMMA SelectComponentsWorks ==
    ASSUME TypeInv, NEW w \in Procs, Work(w), Running(w)', SelectComponents(w)
    PROVE  Work(w)'
<1>1. /\ Mine(w) /\ UNCHANGED <<day, prFiles, events, guidance>>
      /\ Head(proc[w].todo) \in {"emit-warnings", "check-compliance", "telemetry", "export"}
  BY QueriesShift DEF tables
<1>2. PICK q, t, c : q = proc'[w] /\ t = proc[w].todo /\ c = proc[w].call
  OBVIOUS
<1>3. q.todo = t /\ q.call = c /\ q.at = "guidance" /\ q.left = ComponentsOfPr(c.pr)
  BY <1>2, SelectComponentsType
<1>4. QueriesInv(q)'
  BY <1>1, <1>3 DEF QueriesInv, ComponentsOfPr
<1>5. AnalyzeInv(q)' /\ PruneInv(q)'
  BY <1>1, <1>2, <1>3 DEF AnalyzeInv, PruneInv
<1>6. ASSUME c.cmd = "run-workflow" PROVE Progress(t, c)'
  <2>1. Progress(t, c) /\ TodoOK(t) /\ t # <<>>
    BY <1>1, <1>2, <1>6, AtMeans DEF Work, Mine
  <2>2. (Made' <=> Made) /\ (Pruned' <=> Pruned) /\ (Passed(c)' <=> Passed(c))
    BY <1>1, SameRules DEF Made, Pruned
  <2>3. QED
    BY <2>1, <2>2, GetsOn
<1>7. QED
  BY <1>2, <1>3, <1>4, <1>5, <1>6 DEF Work

\* emit-warnings that does not end the process with 2 has seen the manifest
\* cover what the rules of now require.
LEMMA EmitWarningsPasses ==
    ASSUME TypeInv, NEW w \in Procs, QueriesInv(proc[w]), EmitWarnings(w),
           proc'[w].todo # <<>> \/ proc'[w].exit = "0"
    PROVE  Passed(proc[w].call) /\ Passed(proc[w].call)'
<1>1. /\ Running(w) /\ proc[w].at = "guidance" /\ UNCHANGED <<day, prFiles, events, guidance>>
  BY DEF EmitWarnings, At, tables
<1>2. PICK c : c = proc[w].call
  OBVIOUS
<1>3. proc[w].left = ComponentsOfPr(c.pr)
  BY <1>1, <1>2 DEF QueriesInv
<1>4. /\ Exits(proc[w], "2").todo = <<>> /\ Exits(proc[w], "2").exit = "2"
  BY <1>1, AtMeans, ExitsIs DEF Codes
<1>5. proc'[w] # Exits(proc[w], "2")
  BY <1>4
<1>6. Passed(c)
  <2>1. ~Becomes(w, Exits(proc[w], "2"))
    BY <1>5, OthersSame
  <2>2. QED
    BY <1>2, <1>3, <2>1 DEF EmitWarnings, Passed
<1>7. Passed(c)'
  BY <1>1, <1>6, SameRules
<1>8. proc'[w].call = c
  BY <1>2, QueriesShift DEF Mine, Shift
<1>9. QED
  BY <1>2, <1>6, <1>7, <1>8

LEMMA StepWorks ==
    ASSUME TypeInv, NEW w \in Procs, Work(w), Running(w)', Step(w) \/ Fails(w) \/ Killed(w)
    PROVE  Work(w)'
<1>1. CASE RecordPr(w) \/ (\E f \in Paths : RecordFile(w, f)) \/ FindResults(w)
           \/ \E r \in proc[w].left : RecordTestEvent(w, r)
  <2>1. Mine(w) /\ proc'[w].at \in {"start", "rows", "events"}
    BY <1>1, RecordsShift
  <2>2. Head(proc[w].todo) \in {"record-pr", "ingest-tests"}
    BY <1>1 DEF RecordPr, RecordFile, FindResults, RecordTestEvent, At
  <2>3. QED
    BY <2>1, <2>2, OtherStepsWork
<1>2. CASE \/ SelectPairs(w) \/ SelectActiveRules(w)
           \/ \E r \in Rules : CountRecent(w, r) \/ NextPair(w, r)
  BY <1>2, SelectPairsWorks, SelectActiveRulesWorks, CountRecentWorks, NextPairWorks
<1>3. CASE \/ SelectTouched(w) \/ SelectFailed(w) \/ SelectUniverse(w)
           \/ \E g \in proc[w].picked : UpsertGuidance(w, g)
           \/ Deactivate(w)
  BY <1>3, SelectTouchedWorks, SelectFailedWorks, SelectUniverseWorks, UpsertWorks, DeactivateWorks
<1>4. CASE SelectComponents(w)
  BY <1>4, SelectComponentsWorks
<1>5. CASE EmitWarnings(w)
  <2>1. Mine(w) /\ UNCHANGED <<day, prFiles, events, guidance>> /\ proc'[w].at = "start"
    BY <1>5, QueriesShift DEF tables, Running
  <2>2. Head(proc[w].todo) = "emit-warnings"
    BY <1>5 DEF EmitWarnings, At
  <2>3. Passed(proc[w].call)'
    BY <1>5, EmitWarningsPasses DEF Work, Running
  <2>4. QED
    BY <2>1, <2>2, <2>3, OtherStepsWork
<1>6. CASE GateCompliance(w) \/ ExportStats(w)
  <2>1. Mine(w) /\ UNCHANGED <<day, prFiles, events, guidance>> /\ proc'[w].at \in {"start", "total"}
    BY <1>6, QueriesShift DEF tables, Running
  <2>2. Head(proc[w].todo) \in {"check-compliance", "export"}
    BY <1>6 DEF GateCompliance, ExportStats, At
  <2>3. QED
    BY <2>1, <2>2, OtherStepsWork
<1>7. CASE \/ SelectForTelemetry(w) \/ LoadTelemetry(w) \/ LoadForSummary(w) \/ LoadMemory(w)
           \/ SelectForDocs(w) \/ LoadDocs(w) \/ Truncate(w) \/ Fill(w) \/ Stage(w)
  <2>1. /\ Mine(w) /\ UNCHANGED <<day, prFiles, events, guidance>>
        /\ Head(proc[w].todo) \in {"telemetry", "summary", "memory", "update-docs"}
        /\ proc'[w].at \in {"start", "load", "truncate", "fill", "stage"}
    BY <1>7, FilesShift DEF tables, Running
  <2>2. QED
    BY <2>1, OtherStepsWork
<1>8. CASE Fails(w) \/ Killed(w)
  <2>1. /\ Mine(w) /\ UNCHANGED <<day, prFiles, events, guidance>> /\ proc'[w].at = "start"
        /\ Head(proc[w].todo) \in {"telemetry", "summary"}
    BY <1>8, FaultsShift DEF tables, Running
  <2>2. QED
    BY <2>1, OtherStepsWork
<1>9. QED
  BY <1>1, <1>2, <1>3, <1>4, <1>5, <1>6, <1>7, <1>8 DEF Step

LEMMA StepIsMine ==
    ASSUME TypeInv, NEW w \in Procs, Step(w) \/ Fails(w) \/ Killed(w)
    PROVE  Mine(w)
<1>1. CASE Fails(w) \/ Killed(w)
  BY <1>1, FaultsShift
<1>2. CASE Step(w)
  BY <1>2, RecordsShift, LoopsShift, QueriesShift, FilesShift DEF Step
<1>3. QED
  BY <1>1, <1>2

\* A process that is alone stays so until another starts or a day passes, and
\* then it no longer counts as alone.
LEMMA NextWork == TypeInv /\ WorkInv /\ [Next]_vars => WorkInv'
<1> SUFFICES ASSUME TypeInv, WorkInv, [Next]_vars PROVE WorkInv'
  OBVIOUS
<1>1. CASE UNCHANGED vars
  <2>1. UNCHANGED <<day, prFiles, events, guidance, proc>>
    BY <1>1 DEF vars, tables
  <2>2. AloneInv'
    BY <2>1 DEF WorkInv, AloneInv, Running
  <2>3. ASSUME NEW w \in Procs, Work(w) PROVE Work(w)'
    <3>1. PICK q : q = proc[w]
      OBVIOUS
    <3>2. QueriesInv(q) /\ AnalyzeInv(q) /\ PruneInv(q)
          /\ (q.call.cmd = "run-workflow" => Progress(q.todo, q.call))
      BY <2>3, <3>1 DEF Work
    <3>3. QueriesInv(q)'
      BY <2>1, <3>2 DEF QueriesInv, ComponentsOfPr, PrsTouching, PrsFailing, Distinct
    <3>4. AnalyzeInv(q)'
      BY <2>1, <3>2, SameRules DEF AnalyzeInv
    <3>5. PruneInv(q)'
      BY <2>1, <3>2, SameRules, SameAnswers DEF PruneInv
    <3>6. q.call.cmd = "run-workflow" => Progress(q.todo, q.call)'
      BY <2>1, <3>2, SameRules DEF Progress, Made, Pruned
    <3>7. QED
      BY <2>1, <3>1, <3>3, <3>4, <3>5, <3>6 DEF Work
  <2>4. QED
    BY <2>1, <2>2, <2>3 DEF WorkInv, Running
<1>2. CASE Tick
  <2>1. \A v \in Procs : proc'[v].todo = proc[v].todo /\ proc'[v].alone = (proc[v].alone /\ ~Running(v))
    BY <1>2, TickType
  <2>2. \A v \in Procs : ~(Running(v)' /\ proc'[v].alone)
    BY <2>1 DEF Running
  <2>3. QED
    BY <2>2 DEF WorkInv, AloneInv
<1>3. ASSUME NEW w \in Procs, NEW c \in Calls, Start(w, c) PROVE WorkInv'
  <2> DEFINE others == {v \in Procs \ {w} : Running(v)}
  <2>1. /\ proc'[w].call = c /\ proc'[w].alone = (others = {}) /\ proc'[w].at = "start"
        /\ proc'[w].todo = Script(c) \/ proc'[w].todo = <<>>
        /\ \A v \in Procs \ {w} : proc'[v].todo = proc[v].todo
                                  /\ proc'[v].alone = (proc[v].alone /\ v \notin others)
    BY <1>3, StartType
  <2>2. \A v \in Procs \ {w} : (Running(v)' <=> Running(v)) /\ ~(Running(v)' /\ proc'[v].alone)
    BY <2>1 DEF Running
  <2>3. AloneInv'
    BY <2>1, <2>2 DEF AloneInv
  <2>4. ASSUME Running(w)' PROVE Work(w)'
    <3>1. PICK q : q = proc'[w]
      OBVIOUS
    <3>2. q.todo = Script(c) /\ q.call = c /\ q.at = "start"
      BY <2>1, <2>4, <3>1 DEF Running
    <3>3. QueriesInv(q)' /\ AnalyzeInv(q)' /\ PruneInv(q)'
      BY <3>2 DEF QueriesInv, AnalyzeInv, PruneInv
    <3>4. c.cmd = "run-workflow" => Progress(q.todo, c)'
      BY <3>2, ScriptIs DEF Progress
    <3>5. QED
      BY <3>1, <3>2, <3>3, <3>4 DEF Work
  <2>5. QED
    BY <2>2, <2>3, <2>4 DEF WorkInv
<1>4. ASSUME NEW w \in Procs, Step(w) \/ Fails(w) \/ Killed(w) PROVE WorkInv'
  <2>1. /\ Running(w) /\ proc'[w].alone = proc[w].alone
        /\ \A v \in Procs \ {w} : proc'[v] = proc[v]
    BY <1>4, StepIsMine DEF Mine, Shift
  <2>2. AloneInv'
    BY <2>1 DEF WorkInv, AloneInv, Running
  <2>3. \A v \in Procs \ {w} : ~(Running(v)' /\ proc'[v].alone)
    BY <2>1 DEF WorkInv, AloneInv, Running
  <2>4. ASSUME Running(w)', proc'[w].alone PROVE Work(w)'
    <3>1. Work(w)
      BY <2>1, <2>4 DEF WorkInv
    <3>2. QED
      BY <1>4, <2>4, <3>1, StepWorks
  <2>5. QED
    BY <2>2, <2>3, <2>4 DEF WorkInv
<1>5. QED
  BY <1>1, <1>2, <1>3, <1>4 DEF Next

LEMMA InitWork == Init => WorkInv
BY DEF Init, Idle, WorkInv, AloneInv, Running

-----------------------------------------------------------------------------
(* What holds when a process ends with 0 *)

LEMMA LastStep ==
    ASSUME TypeInv, WorkInv, [Next]_vars, NEW w \in Procs, Ends(w)
    PROVE  /\ Step(w) \/ Fails(w)
           /\ Mine(w) /\ Work(w) /\ Rest(proc[w].todo, <<>>)
<1>1. Running(w) /\ proc'[w].todo = <<>> /\ proc'[w].exit = "0" /\ proc[w].alone
  BY DEF Ends
<1>2. \A v \in Procs : proc[v].todo = proc'[v].todo => v # w
  BY <1>1 DEF Running
<1>3. ~UNCHANGED vars
  BY <1>2 DEF vars
<1>4. ~Tick
  BY <1>2, TickType
<1>5. \A v \in Procs, c \in Calls : ~Start(v, c)
  <2> SUFFICES ASSUME NEW v \in Procs, NEW c \in Calls, Start(v, c) PROVE FALSE
    OBVIOUS
  <2>1. ~Running(v) /\ \A u \in Procs \ {v} : proc'[u].todo = proc[u].todo
    BY StartType
  <2>2. QED
    BY <1>1, <1>2, <2>1
<1>6. \A v \in Procs \ {w} : ~(Step(v) \/ Fails(v) \/ Killed(v))
  <2> SUFFICES ASSUME NEW v \in Procs \ {w}, Step(v) \/ Fails(v) \/ Killed(v) PROVE FALSE
    OBVIOUS
  <2>1. proc'[w] = proc[w]
    BY StepIsMine DEF Mine
  <2>2. QED
    BY <1>2, <2>1
<1>7. ~Killed(w)
  BY <1>1, KilledType
<1>8. Step(w) \/ Fails(w)
  BY <1>3, <1>4, <1>5, <1>6, <1>7 DEF Next
<1>9. Mine(w)
  BY <1>8, StepIsMine
<1>10. Rest(proc[w].todo, <<>>)
  BY <1>1, <1>9 DEF Mine, Shift, Running
<1>11. QED
  BY <1>1, <1>8, <1>9, <1>10 DEF WorkInv

\* The last step of the gate's commands is the gate itself.
LEMMA LastIsGate ==
    ASSUME TypeInv, NEW w \in Procs, Step(w) \/ Fails(w), proc'[w].todo = <<>>, proc'[w].exit = "0"
    PROVE  /\ Head(proc[w].todo) = "emit-warnings" => EmitWarnings(w)
           /\ Head(proc[w].todo) = "check-compliance" => GateCompliance(w)
<1> SUFFICES ASSUME Head(proc[w].todo) \in {"emit-warnings", "check-compliance"}
             PROVE  /\ Head(proc[w].todo) = "emit-warnings" => EmitWarnings(w)
                    /\ Head(proc[w].todo) = "check-compliance" => GateCompliance(w)
  OBVIOUS
<1>1. ~Fails(w)
  BY FaultsShift
<1>2. ~RecordPr(w) /\ (\A f : ~RecordFile(w, f)) /\ ~FindResults(w) /\ (\A r : ~RecordTestEvent(w, r))
  BY DEF RecordPr, RecordFile, FindResults, RecordTestEvent, At
<1>3. /\ ~SelectPairs(w) /\ ~SelectActiveRules(w) /\ ~SelectTouched(w) /\ ~SelectFailed(w) /\ ~SelectUniverse(w)
      /\ ~Deactivate(w) /\ \A r \in Rules : ~CountRecent(w, r) /\ ~NextPair(w, r)
      /\ \A g \in proc[w].picked : ~UpsertGuidance(w, g)
  BY LoopsShift
<1>4. /\ ~SelectForTelemetry(w) /\ ~LoadTelemetry(w) /\ ~LoadForSummary(w) /\ ~LoadMemory(w)
      /\ ~SelectForDocs(w) /\ ~LoadDocs(w) /\ ~Truncate(w) /\ ~Fill(w) /\ ~Stage(w)
  BY FilesShift
<1>5. ~SelectComponents(w)
  <2> SUFFICES ASSUME SelectComponents(w) PROVE FALSE
    OBVIOUS
  <2>1. Running(w) /\ proc'[w].todo = proc[w].todo
    BY SelectComponentsType
  <2>2. QED
    BY <2>1 DEF Running
<1>6. ~ExportStats(w) /\ (EmitWarnings(w) => Head(proc[w].todo) = "emit-warnings")
      /\ (GateCompliance(w) => Head(proc[w].todo) = "check-compliance")
  BY DEF ExportStats, EmitWarnings, GateCompliance, At
<1>7. QED
  BY <1>1, <1>2, <1>3, <1>4, <1>5, <1>6 DEF Step

\* The end of a workflow: everything is behind, and what it is for is so.
LEMMA WorkflowEnds ==
    ASSUME TypeInv, WorkInv, [Next]_vars, NEW w \in Procs, Ends(w), proc[w].call.cmd = "run-workflow"
    PROVE  Passed(proc[w].call) /\ Made /\ (proc[w].call.prune => Pruned)
<1>1. PICK t, c : t = proc[w].todo /\ c = proc[w].call
  OBVIOUS
<1>2. /\ Step(w) \/ Fails(w)
      /\ Running(w) /\ Work(w) /\ Rest(t, <<>>) /\ TodoOK(t) /\ t # <<>>
  BY <1>1, LastStep, AtMeans DEF Mine
<1>3. Progress(t, c)
  BY <1>1, <1>2 DEF Work
<1>4. \A x : ~Holds(<<>>, x)
  BY NoBlock
<1>5. \A x \in {"analyze", "prune", "emit-warnings"} : Holds(t, x) => Head(t) = x
  BY <1>2, <1>4, NothingBefore
<1>6. Holds(t, Head(t))
  BY <1>2, RestOfScript
<1>7. Head(t) = "emit-warnings" => Passed(c)
  BY <1>1, <1>2, LastIsGate, EmitWarningsPasses DEF Ends, Work
<1>8. Holds(t, "emit-warnings") \/ Behind(t, Inputs \cup {"prune", "emit-warnings"})
  BY <1>3 DEF Progress
<1>9. Head(t) \notin {"analyze", "prune"}
  BY <1>5, <1>6, <1>8 DEF Behind, Inputs
<1>10. QED
  BY <1>1, <1>3, <1>5, <1>7, <1>9 DEF Progress

LEMMA GateEnds ==
    ASSUME TypeInv, WorkInv, [Next]_vars, NEW w \in Procs, Ends(w), proc[w].call.cmd = "check-compliance"
    PROVE  LET c == proc[w].call
               required == Required(ActiveFor(ComponentsOfPr(c.pr)))
           IN  required = {} \/ Compliant(required, ManifestOf(c), c.require_any)
<1>1. /\ Step(w) \/ Fails(w)
      /\ Running(w) /\ Work(w)
  BY LastStep DEF Mine
<1>2. proc[w].todo = <<"check-compliance">>
  BY <1>1, AtMeans DEF ProcOK
<1>3. GateCompliance(w)
  BY <1>1, <1>2, LastIsGate DEF Ends
<1>4. proc[w].left = ComponentsOfPr(proc[w].call.pr)
  BY <1>1, <1>3 DEF Work, QueriesInv, GateCompliance, At
<1>5. Exits(proc[w], "2").exit = "2"
  BY <1>1, AtMeans, ExitsIs DEF Codes
<1>6. ~Becomes(w, Exits(proc[w], "2"))
  BY <1>5, OthersSame DEF Ends
<1>7. QED
  BY <1>3, <1>4, <1>6 DEF GateCompliance

\* The gate is never passed undeserved: with 0 ends only what the manifest, or
\* the lack of rules, has earned, those its own results brought about included.
THEOREM GateIsEarned == Spec => GateHolds
<1>1. TypeInv /\ WorkInv /\ [Next]_vars =>
        [\A w \in Procs :
           Ends(w) /\ Done1(w, {"run-workflow", "check-compliance"}) =>
             LET c == proc[w].call
                 required == Required(ActiveFor(ComponentsOfPr(c.pr)))
             IN  \/ c.cmd = "run-workflow" /\ (~c.fail_on_violation \/ ManifestOf(c) = NoManifest)
                 \/ required = {}
                 \/ Compliant(required, ManifestOf(c), c.require_any)]_vars
  BY WorkflowEnds, GateEnds DEF Done1, Passed
<1>2. QED
  BY <1>1, InitType, InitWork, NextType, NextWork, PTL DEF Spec, GateHolds

\* After an undisturbed workflow that prunes, the active rules are exactly
\* those the tables justify: none is missing and none is worn.
THEOREM RulesAreOfTheData == Spec => RulesFollowData
<1>1. TypeInv /\ WorkInv /\ [Next]_vars =>
        [\A w \in Procs :
           Ends(w) /\ Done1(w, {"run-workflow"}) /\ proc[w].call.prune =>
             LET Now(r) == Contingency(PrsTouching(r[1]), PrsFailing(r[2], day), PrsSeen(day))
             IN  /\ {r \in DistinctPairs(day) : Qualifies(Now(r))} \subseteq Active
                 /\ \A r \in Active : Recent(r, day) /\ AtLeast(Lift(Now(r)), Ratio(3, 2))]_vars
  <2> SUFFICES ASSUME TypeInv, WorkInv, [Next]_vars, NEW w \in Procs, Ends(w),
                      proc[w].call.cmd = "run-workflow", proc[w].call.prune
               PROVE  /\ {r \in DistinctPairs(day) : Qualifies(CountsNow(r))} \subseteq Active
                      /\ \A r \in Active : Recent(r, day) /\ AtLeast(Lift(CountsNow(r)), Ratio(3, 2))
    BY DEF Done1, CountsNow
  <2>1. Made /\ Pruned
    BY WorkflowEnds
  <2>2. DistinctPairs(day) \subseteq Rules
    BY PairsAreRules DEF TypeInv
  <2>3. QED
    BY <2>1, <2>2 DEF Made, Pruned, Found, Checked, Deserved, Sound, Worn
<1>2. QED
  BY <1>1, InitType, InitWork, NextType, NextWork, PTL DEF Spec, RulesFollowData
=============================================================================

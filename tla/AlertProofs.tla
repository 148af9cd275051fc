----------------------------- MODULE AlertProofs ------------------------------
(***************************************************************************)
(* Proofs about notifications and alerts, for every set of environments,    *)
(* every length of the history and any number of runs.                      *)
(***************************************************************************)
EXTENDS TelemetryAlerts, SequenceTheorems, TLAPS

USE EnvironmentsAssumption, LimitAssumption, BoundAssumption, ObservedAssumption

-----------------------------------------------------------------------------
(* One message. *)

\* What the thread of a provider knows: it has sent no more than it has tried,
\* and what it says of itself is so.
ThreadFine(p) ==
    /\ threads[p] \in Thread
    /\ threads[p].at = "none" => inbox[p] = 0 /\ p \notin DOMAIN results
    /\ threads[p].at = "try" =>
         threads[p].attempt \in 1..Attempts(p) /\ inbox[p] \in 0..(threads[p].attempt - 1)
    /\ threads[p].at = "done" =>
         /\ threads[p].attempt \in 1..Attempts(p) /\ inbox[p] \in 0..threads[p].attempt
         /\ IF threads[p].ok THEN inbox[p] > 0 \/ Simulated(p)
                             ELSE GivesUp(p) \/ Misconfigured(p)
    /\ Simulated(p) => inbox[p] = 0
    /\ p \in DOMAIN results => threads[p].at = "done" /\ results[p] = threads[p].ok

NotifyInv ==
    /\ env \in Environment
    /\ threads = [p \in Providers |-> threads[p]]
    /\ inbox = [p \in Providers |-> inbox[p]]
    /\ results = [p \in DOMAIN results |-> results[p]] /\ DOMAIN results \subseteq Providers
    /\ \A p \in Providers : ThreadFine(p)

\* Nobody is being told anything.
NoneAtWork == \A p \in Providers : threads[p].at = "none"

LEMMA AttemptsType == \A p \in Providers : Attempts(p) \in 1..2
BY DEF Attempts

LEMMA QuietIsFine ==
    ASSUME Quiet, env \in Environment
    PROVE  NotifyInv /\ NoneAtWork
BY DEF Quiet, NotifyInv, NoneAtWork, ThreadFine, NoThread, Thread

LEMMA ThreadStarts ==
    LET t == [NoThread EXCEPT !.at = "try", !.attempt = 1]
    IN  t \in Thread /\ t.at = "try" /\ t.attempt = 1
<1>1. ASSUME NEW n \in 0..2
      PROVE  LET t == [NoThread EXCEPT !.at = "try", !.attempt = n]
             IN  t \in Thread /\ t.at = "try" /\ t.attempt = n
  BY DEF Thread, NoThread
<1>2. 1 \in 0..2
  OBVIOUS
<1>3. QED
  BY <1>1, <1>2

LEMMA DispatchIsFine ==
    ASSUME NotifyInv, NoneAtWork, Dispatch
    PROVE  NotifyInv' /\ \A p \in Providers : threads'[p].at # "none" <=> p \in Discovered
<1>1. UNCHANGED <<env, inbox, results>>
      /\ threads' = [p \in Providers |->
                       IF p \in Discovered THEN [NoThread EXCEPT !.at = "try", !.attempt = 1]
                                           ELSE NoThread]
  BY DEF Dispatch
<1>2. ASSUME NEW p \in Providers
      PROVE  /\ threads'[p] \in Thread
             /\ IF p \in Discovered THEN threads'[p].at = "try" /\ threads'[p].attempt = 1
                                    ELSE threads'[p].at = "none"
             /\ inbox'[p] = 0 /\ p \notin DOMAIN results'
  <2>1. inbox'[p] = 0 /\ p \notin DOMAIN results'
    BY <1>1 DEF NotifyInv, NoneAtWork, ThreadFine
  <2>2. threads'[p] = IF p \in Discovered THEN [NoThread EXCEPT !.at = "try", !.attempt = 1]
                                          ELSE NoThread
    BY <1>1
  <2>3. NoThread \in Thread /\ NoThread.at = "none"
    BY DEF NoThread, Thread
  <2> DEFINE t == [NoThread EXCEPT !.at = "try", !.attempt = 1]
  <2>4. t \in Thread /\ t.at = "try" /\ t.attempt = 1
    BY ThreadStarts
  <2>5. CASE p \in Discovered
    <3>1. threads'[p] = t
      BY <2>2, <2>5
    <3> HIDE DEF t
    <3>2. QED
      BY <2>1, <2>4, <2>5, <3>1
  <2>6. CASE p \notin Discovered
    BY <2>1, <2>2, <2>3, <2>6
  <2>7. QED
    BY <2>5, <2>6
<1>3. ASSUME NEW p \in Providers PROVE ThreadFine(p)'
  <2>1. Attempts(p) \in 1..2
    BY AttemptsType
  <2>2. QED
    BY <1>1, <1>2, <2>1 DEF ThreadFine
<1>4. NotifyInv'
  <2>1. threads' = [p \in Providers |-> threads'[p]]
    BY <1>1
  <2>2. QED
    BY <1>1, <1>3, <2>1 DEF NotifyInv
<1>5. QED
  BY <1>2, <1>4

LEMMA TryIsFine ==
    ASSUME NotifyInv, NEW p \in Providers, Try(p)
    PROVE  NotifyInv' /\ \A q \in Providers : threads'[q].at = "none" <=> threads[q].at = "none"
<1>1. /\ threads[p] \in Thread /\ threads[p].at = "try" /\ p \notin DOMAIN results
      /\ threads[p].attempt \in 1..Attempts(p) /\ inbox[p] \in 0..(threads[p].attempt - 1)
      /\ DOMAIN threads = Providers /\ DOMAIN inbox = Providers
  BY DEF Try, NotifyInv, ThreadFine
<1>2. UNCHANGED <<env, results>>
  BY DEF Try
<1>3. Attempts(p) \in 1..2
  BY AttemptsType
<1>4. \E t \in Thread, n \in 0..2 :
        /\ threads' = [threads EXCEPT ![p] = t] /\ inbox' = [inbox EXCEPT ![p] = n]
        /\ t.at \in {"try", "done"} /\ t.attempt \in 1..Attempts(p)
        /\ t.at = "try" => n \in 0..(t.attempt - 1)
        /\ t.at = "done" =>
             /\ n \in 0..t.attempt
             /\ IF t.ok THEN n > 0 \/ Simulated(p) ELSE t.attempt = Attempts(p) \/ Misconfigured(p)
        /\ Simulated(p) => n = 0
  <2>1. CASE Misconfigured(p) \/ Simulated(p)
    <3>1. Finished(p, ~Misconfigured(p)) /\ UNCHANGED inbox
      BY <2>1 DEF Try
    <3> DEFINE t == [threads[p] EXCEPT !.at = "done", !.ok = ~Misconfigured(p)]
    <3>2. threads' = [threads EXCEPT ![p] = t]
      BY <1>1, <3>1 DEF Finished
    <3>3. t \in Thread /\ t.at = "done" /\ t.attempt = threads[p].attempt
          /\ (t.ok <=> ~Misconfigured(p))
      BY <1>1 DEF Thread, Misconfigured
    <3>4. inbox[p] \in 0..2 /\ inbox' = [inbox EXCEPT ![p] = inbox[p]]
      BY <1>1, <1>3, <3>1 DEF NotifyInv
    <3>5. Simulated(p) => inbox[p] = 0
      BY DEF NotifyInv, ThreadFine
    <3> HIDE DEF t
    <3>6. inbox[p] \in 0..t.attempt /\ t.attempt \in 1..Attempts(p) /\ t.at # "try"
      BY <1>1, <1>3, <3>3
    <3>7. IF t.ok THEN inbox[p] > 0 \/ Simulated(p)
                  ELSE t.attempt = Attempts(p) \/ Misconfigured(p)
      BY <2>1, <3>3
    <3>8. QED
      BY <3>2, <3>3, <3>4, <3>5, <3>6, <3>7
  <2>2. CASE ~Misconfigured(p) /\ ~Simulated(p)
    <3>1. PICK o \in Outcomes(p) :
            /\ inbox' = [inbox EXCEPT ![p] = @ + (IF Arrives(o) THEN 1 ELSE 0)]
            /\ \/ Taken(o) /\ Finished(p, TRUE)
               \/ ~Taken(o) /\ GivesUp(p) /\ Finished(p, FALSE)
               \/ /\ ~Taken(o) /\ ~GivesUp(p)
                  /\ threads' = [threads EXCEPT ![p].attempt = @ + 1]
      BY <2>2 DEF Try
    <3> DEFINE n == inbox[p] + (IF Arrives(o) THEN 1 ELSE 0)
    <3>2. inbox' = [inbox EXCEPT ![p] = n] /\ n \in 0..threads[p].attempt /\ n \in 0..2
      BY <1>1, <1>3, <3>1
    <3>3. Taken(o) => n > 0
      BY <1>1 DEF Taken, Arrives
    <3> HIDE DEF n
    <3>4. CASE Taken(o) /\ Finished(p, TRUE)
      <4> DEFINE t == [threads[p] EXCEPT !.at = "done", !.ok = TRUE]
      <4>1. threads' = [threads EXCEPT ![p] = t] /\ t \in Thread /\ t.at = "done"
            /\ t.attempt = threads[p].attempt /\ t.ok
        BY <1>1, <3>4 DEF Finished, Thread
      <4> HIDE DEF t
      <4>2. QED
        BY <1>1, <2>2, <3>2, <3>3, <3>4, <4>1
    <3>5. CASE ~Taken(o) /\ GivesUp(p) /\ Finished(p, FALSE)
      <4> DEFINE t == [threads[p] EXCEPT !.at = "done", !.ok = FALSE]
      <4>1. threads' = [threads EXCEPT ![p] = t] /\ t \in Thread /\ t.at = "done"
            /\ t.attempt = threads[p].attempt /\ ~t.ok
        BY <1>1, <3>5 DEF Finished, Thread
      <4>2. t.attempt = Attempts(p)
        BY <3>5, <4>1 DEF GivesUp
      <4> HIDE DEF t
      <4>3. QED
        BY <1>1, <2>2, <3>2, <4>1, <4>2
    <3>6. CASE ~Taken(o) /\ ~GivesUp(p) /\ threads' = [threads EXCEPT ![p].attempt = @ + 1]
      <4> DEFINE t == [threads[p] EXCEPT !.attempt = threads[p].attempt + 1]
      <4>1. threads[p].attempt + 1 \in 1..Attempts(p)
        BY <1>1, <1>3, <3>6 DEF GivesUp
      <4>2. threads' = [threads EXCEPT ![p] = t] /\ t \in Thread /\ t.at = "try"
            /\ t.attempt = threads[p].attempt + 1
        BY <1>1, <1>3, <3>6, <4>1 DEF Thread
      <4> HIDE DEF t
      <4>3. n \in 0..(t.attempt - 1) /\ t.attempt \in 1..Attempts(p) /\ t.at # "done"
        BY <1>1, <1>3, <3>2, <4>1, <4>2
      <4>4. QED
        BY <2>2, <3>2, <4>2, <4>3
    <3>7. QED
      BY <3>1, <3>4, <3>5, <3>6
  <2>3. QED
    BY <2>1, <2>2
<1>5. PICK t \in Thread, n \in 0..2 :
        /\ threads' = [threads EXCEPT ![p] = t] /\ inbox' = [inbox EXCEPT ![p] = n]
        /\ t.at \in {"try", "done"} /\ t.attempt \in 1..Attempts(p)
        /\ t.at = "try" => n \in 0..(t.attempt - 1)
        /\ t.at = "done" =>
             /\ n \in 0..t.attempt
             /\ IF t.ok THEN n > 0 \/ Simulated(p) ELSE t.attempt = Attempts(p) \/ Misconfigured(p)
        /\ Simulated(p) => n = 0
  BY <1>4
<1>6. \A q \in Providers : /\ threads'[q] = IF q = p THEN t ELSE threads[q]
                           /\ inbox'[q] = IF q = p THEN n ELSE inbox[q]
  BY <1>1, <1>5
<1>7. ThreadFine(p)'
  BY <1>1, <1>2, <1>5, <1>6 DEF ThreadFine, GivesUp, Simulated, Misconfigured
<1>8. ASSUME NEW q \in Providers, q # p PROVE ThreadFine(q)'
  BY <1>2, <1>6, <1>8 DEF NotifyInv, ThreadFine, GivesUp, Simulated, Misconfigured
<1>9. NotifyInv'
  BY <1>1, <1>2, <1>5, <1>7, <1>8 DEF NotifyInv
<1>10. QED
  BY <1>1, <1>5, <1>6, <1>9

LEMMA GatherIsFine ==
    ASSUME NotifyInv, NEW p \in Providers, Gather(p)
    PROVE  NotifyInv' /\ UNCHANGED threads
<1>1. /\ threads[p].at = "done" /\ p \notin DOMAIN results /\ UNCHANGED <<env, threads, inbox>>
      /\ results' = [q \in DOMAIN results \union {p} |->
                       IF q = p THEN threads[p].ok ELSE results[q]]
  BY DEF Gather
<1>2. ASSUME NEW q \in Providers PROVE ThreadFine(q)'
  BY <1>1 DEF NotifyInv, ThreadFine, GivesUp, Simulated, Misconfigured
<1>3. QED
  BY <1>1, <1>2 DEF NotifyInv

LEMMA ForgetIsFine ==
    ASSUME NotifyInv, Forget
    PROVE  NotifyInv' /\ NoneAtWork'
<1>1. Quiet' /\ env' = env
  BY DEF Forget, Quiet
<1>2. /\ threads' = [p \in Providers |-> NoThread] /\ inbox' = [p \in Providers |-> 0]
      /\ DOMAIN results' = {} /\ results' = [p \in {} |-> FALSE]
  BY <1>1 DEF Quiet
<1>3. ASSUME NEW p \in Providers PROVE ThreadFine(p)' /\ threads'[p].at = "none"
  BY <1>1, <1>2 DEF ThreadFine, NoThread, Thread
<1>4. QED
  BY <1>1, <1>2, <1>3 DEF NotifyInv, NoneAtWork

LEMMA StillFine ==
    ASSUME NotifyInv, UNCHANGED notifyVars
    PROVE  NotifyInv' /\ (NoneAtWork => NoneAtWork') /\ UNCHANGED <<threads, Discovered>>
BY DEF notifyVars, NotifyInv, NoneAtWork, ThreadFine, GivesUp, Simulated, Misconfigured,
       Discovered

\* What the answers are worth follows.
LEMMA FineIsTrue ==
    ASSUME NotifyInv
    PROVE  NotifyTypeOK /\ SuccessHasArrived /\ DryRunSpares
<1>1. ASSUME NEW p \in Providers
      PROVE  /\ threads[p] \in Thread /\ inbox[p] \in 0..2
             /\ p \in DOMAIN results => results[p] \in BOOLEAN
             /\ inbox[p] = 2 => threads[p].attempt = 2 /\ p # "email"
             /\ p \in DOMAIN results /\ results[p] => inbox[p] > 0 \/ Simulated(p)
             /\ Simulated(p) => inbox[p] = 0
  <2>1. ThreadFine(p)
    BY DEF NotifyInv
  <2>2. /\ threads[p] \in Thread /\ threads[p].at \in {"none", "try", "done"}
        /\ threads[p].ok \in BOOLEAN /\ Attempts(p) \in 1..2
        /\ p = "email" => Attempts(p) = 1
    BY <2>1, AttemptsType DEF ThreadFine, Thread, Attempts
  <2>3. inbox[p] \in 0..2 /\ (inbox[p] = 2 => threads[p].attempt = 2 /\ p # "email")
    BY <2>1, <2>2 DEF ThreadFine
  <2>4. p \in DOMAIN results => results[p] = threads[p].ok /\ threads[p].at = "done"
    BY <2>1 DEF ThreadFine
  <2>5. p \in DOMAIN results /\ results[p] => inbox[p] > 0 \/ Simulated(p)
    BY <2>1, <2>4 DEF ThreadFine
  <2>6. Simulated(p) => inbox[p] = 0
    BY <2>1 DEF ThreadFine
  <2>7. QED
    BY <2>2, <2>3, <2>4, <2>5, <2>6
<1>2. NotifyTypeOK
  BY <1>1 DEF NotifyInv, NotifyTypeOK
<1>3. QED
  BY <1>1, <1>2 DEF NotifyInv, SuccessHasArrived, DryRunSpares, Simulated

-----------------------------------------------------------------------------
(* The histories. *)

\* A history h of n runs: its lines tell of runs, or were cut short, and a later
\* line of no earlier run.
HistoryOf(h, n) ==
    /\ h \in Seq(0..n) /\ (Limit > 0 => Len(h) <= Limit)
    /\ \A i, j \in 1..Len(h) : i < j /\ h[i] # CutShort /\ h[j] # CutShort => h[i] <= h[j]

RunsOf(k, s) ==
    /\ s \in Seq([Signals(k) -> Nat])
    /\ \A n \in 1..Len(s) : s[n] \in Observed[k][n]

RunsInv ==
    /\ runs = [k \in Kinds |-> runs[k]] /\ \A k \in Kinds : RunsOf(k, runs[k])
    /\ Len(runs["test"]) + Len(runs["srs"]) + Len(runs["qa"]) <= MaxRuns
HistoryInv ==
    /\ history = [k \in Kinds |-> history[k]]
    /\ \A k \in Kinds : HistoryOf(history[k], Len(runs[k]))

\* A part of a history is one.
LEMMA PartOfHistory ==
    ASSUME NEW n \in Nat, NEW h \in Seq(0..n), NEW a \in 1..Len(h) + 1, NEW b \in 0..Len(h),
           \A i, j \in 1..Len(h) : i < j /\ h[i] # CutShort /\ h[j] # CutShort => h[i] <= h[j]
    PROVE  /\ SubSeq(h, a, b) \in Seq(0..n)
           /\ Len(SubSeq(h, a, b)) = IF a <= b THEN b - a + 1 ELSE 0
           /\ \A i, j \in 1..Len(SubSeq(h, a, b)) :
                i < j /\ SubSeq(h, a, b)[i] # CutShort /\ SubSeq(h, a, b)[j] # CutShort
                  => SubSeq(h, a, b)[i] <= SubSeq(h, a, b)[j]
<1> DEFINE c == SubSeq(h, a, b)
<1>1. Len(h) \in Nat /\ a \in Int /\ b \in Int /\ \A i \in a..b : h[i] \in 0..n
  BY LenProperties, ElementOfSeq
<1>2. /\ c \in Seq(0..n) /\ Len(c) = IF a <= b THEN b - a + 1 ELSE 0
      /\ \A i \in 1..b - a + 1 : c[i] = h[a + i - 1]
  BY <1>1, SubSeqProperties
<1> HIDE DEF c
<1>3. ASSUME NEW i \in 1..Len(c), NEW j \in 1..Len(c), i < j, c[i] # CutShort, c[j] # CutShort
      PROVE  c[i] <= c[j]
  <2>0. Len(c) = b - a + 1
    <3>1. Len(c) # 0
      BY <1>3
    <3>2. QED
      BY <1>2, <3>1
  <2>1. /\ i \in 1..b - a + 1 /\ j \in 1..b - a + 1
        /\ a + i - 1 \in 1..Len(h) /\ a + j - 1 \in 1..Len(h) /\ a + i - 1 < a + j - 1
    <3>1. i \in 1..b - a + 1 /\ j \in 1..b - a + 1
      BY <2>0
    <3>2. a \in Nat /\ a >= 1 /\ b \in Int /\ b <= Len(h) /\ Len(h) \in Nat
      BY <1>1
    <3> DEFINE m == Len(h)
    <3> HIDE DEF m
    <3>3. a \in Nat /\ a >= 1 /\ b \in Int /\ b <= m /\ m \in Nat
      BY <3>2 DEF m
    <3>4. a + i - 1 \in 1..m
      BY <3>1, <3>3
    <3>5. a + j - 1 \in 1..m /\ a + i - 1 < a + j - 1
      BY <3>1, <3>3, <1>3
    <3>6. QED
      BY <3>1, <3>4, <3>5 DEF m
  <2>2. c[i] = h[a + i - 1] /\ c[j] = h[a + j - 1]
    BY <1>2, <2>1
  <2>3. QED
    BY <1>3, <2>1, <2>2
<1>4. QED
  BY <1>2, <1>3 DEF c

\* With a line for the newest run, or a line that was cut short, at its end.
LEMMA LongerHistory ==
    ASSUME NEW n \in Nat, NEW h \in Seq(0..n), NEW x \in {CutShort, n},
           \A i, j \in 1..Len(h) : i < j /\ h[i] # CutShort /\ h[j] # CutShort => h[i] <= h[j]
    PROVE  /\ Append(h, x) \in Seq(0..n) /\ Len(Append(h, x)) = Len(h) + 1
           /\ Append(h, x)[Len(h) + 1] = x
           /\ \A i, j \in 1..Len(Append(h, x)) :
                i < j /\ Append(h, x)[i] # CutShort /\ Append(h, x)[j] # CutShort
                  => Append(h, x)[i] <= Append(h, x)[j]
<1> DEFINE g == Append(h, x)
<1>1. Len(h) \in Nat /\ \A i \in 1..Len(h) : h[i] \in 0..n
  BY LenProperties, ElementOfSeq
<1>2. x \in 0..n
  BY DEF CutShort
<1>3. /\ g \in Seq(0..n) /\ Len(g) = Len(h) + 1 /\ g[Len(h) + 1] = x
      /\ \A i \in 1..Len(h) : g[i] = h[i]
  BY <1>1, <1>2
<1> HIDE DEF g
<1>4. ASSUME NEW i \in 1..Len(g), NEW j \in 1..Len(g), i < j, g[i] # CutShort, g[j] # CutShort
      PROVE  g[i] <= g[j]
  <2>1. CASE j <= Len(h)
    <3>1. i \in 1..Len(h) /\ j \in 1..Len(h)
      BY <1>1, <1>3, <1>4, <2>1
    <3>2. g[i] = h[i] /\ g[j] = h[j]
      BY <1>3, <3>1
    <3>3. QED
      BY <1>4, <3>1, <3>2
  <2>2. CASE j = Len(h) + 1
    <3>1. i \in 1..Len(h) /\ g[i] \in 0..n /\ g[j] = n
      BY <1>1, <1>3, <1>4, <2>2
    <3>2. QED
      BY <3>1
  <2>3. QED
    BY <1>1, <1>3, <2>1, <2>2
<1>5. QED
  BY <1>3, <1>4 DEF g

\* The analysis leaves a history, whose last line is that of the newest run.
LEMMA AppendedIsHistory ==
    ASSUME RunsInv, HistoryInv, NEW k \in Kinds
    PROVE  HistoryOf(Appended(k), Len(runs[k]))
<1> DEFINE h == history[k]
           n == Newest(k)
           g == Append(h, n)
<1>1. n \in Nat /\ n = Len(runs[k])
  BY DEF RunsInv, RunsOf, Newest
<1>2. /\ h \in Seq(0..n) /\ Len(h) \in Nat
      /\ \A i, j \in 1..Len(h) : i < j /\ h[i] # CutShort /\ h[j] # CutShort => h[i] <= h[j]
  BY <1>1 DEF HistoryInv, HistoryOf
<1> HIDE DEF h, n
<1>3. /\ g \in Seq(0..n) /\ Len(g) = Len(h) + 1
      /\ \A i, j \in 1..Len(g) : i < j /\ g[i] # CutShort /\ g[j] # CutShort => g[i] <= g[j]
  BY <1>1, <1>2, LongerHistory
<1> HIDE DEF g
<1>4. Appended(k) = LastLines(g)
  BY DEF Appended, g, h, n
<1>5. CASE Limit = 0 \/ Len(g) <= Limit
  BY <1>1, <1>3, <1>4, <1>5 DEF LastLines, HistoryOf
<1>6. CASE Limit # 0 /\ Len(g) > Limit
  <2> DEFINE a == Len(g) - Limit + 1
             t == SubSeq(g, a, Len(g))
  <2>1. a \in 1..Len(g) + 1 /\ a <= Len(g) /\ Len(g) \in 0..Len(g) /\ Len(g) - a + 1 = Limit
    BY <1>2, <1>3, <1>6
  <2>2. Appended(k) = t
    BY <1>4, <1>6, <1>2, <1>3 DEF LastLines
  <2> HIDE DEF a
  <2>3. /\ t \in Seq(0..n) /\ Len(t) = Limit
        /\ \A i, j \in 1..Len(t) : i < j /\ t[i] # CutShort /\ t[j] # CutShort => t[i] <= t[j]
    BY <1>1, <1>3, <2>1, PartOfHistory
  <2> HIDE DEF t
  <2>4. QED
    BY <1>1, <2>2, <2>3 DEF HistoryOf
<1>7. QED
  BY <1>2, <1>3, <1>5, <1>6

\* So does a kill in the middle of it.
LEMMA CutIsHistory ==
    ASSUME NEW n \in Nat, NEW h, HistoryOf(h, n), NEW m \in DOMAIN h,
           NEW cut \in {<<>>, Append(SubSeq(h, 1, m - 1), CutShort)}
    PROVE  HistoryOf(cut, n)
<1>1. /\ h \in Seq(0..n) /\ Len(h) \in Nat /\ m \in 1..Len(h)
      /\ \A i, j \in 1..Len(h) : i < j /\ h[i] # CutShort /\ h[j] # CutShort => h[i] <= h[j]
  BY DEF HistoryOf
<1>2. CASE cut = <<>>
  BY <1>2 DEF HistoryOf
<1>3. CASE cut = Append(SubSeq(h, 1, m - 1), CutShort)
  <2> DEFINE s == SubSeq(h, 1, m - 1)
  <2>1. 1 \in 1..Len(h) + 1 /\ m - 1 \in 0..Len(h)
    BY <1>1
  <2>2. /\ s \in Seq(0..n) /\ Len(s) = m - 1
        /\ \A i, j \in 1..Len(s) : i < j /\ s[i] # CutShort /\ s[j] # CutShort => s[i] <= s[j]
    <3>1. (IF 1 <= m - 1 THEN m - 1 - 1 + 1 ELSE 0) = m - 1
      BY <1>1
    <3>2. /\ s \in Seq(0..n) /\ Len(s) = IF 1 <= m - 1 THEN m - 1 - 1 + 1 ELSE 0
          /\ \A i, j \in 1..Len(s) :
               i < j /\ s[i] # CutShort /\ s[j] # CutShort => s[i] <= s[j]
      BY <1>1, <2>1, PartOfHistory
    <3> HIDE DEF s
    <3>3. QED
      BY <3>1, <3>2
  <2> HIDE DEF s
  <2>3. /\ Append(s, CutShort) \in Seq(0..n) /\ Len(Append(s, CutShort)) = m
        /\ \A i, j \in 1..Len(Append(s, CutShort)) :
             i < j /\ Append(s, CutShort)[i] # CutShort /\ Append(s, CutShort)[j] # CutShort
               => Append(s, CutShort)[i] <= Append(s, CutShort)[j]
    <3>1. CutShort \in {CutShort, n} /\ Len(s) + 1 = m
      BY <1>1, <2>2
    <3>2. QED
      BY <2>2, <3>1, LongerHistory
  <2>4. cut = Append(s, CutShort)
    BY <1>3 DEF s
  <2>5. Limit > 0 => m <= Limit
    BY <1>1 DEF HistoryOf
  <2> DEFINE g == Append(s, CutShort)
  <2> HIDE DEF g
  <2>6. QED
    BY <2>3, <2>4, <2>5 DEF HistoryOf, g
<1>4. QED
  BY <1>2, <1>3

-----------------------------------------------------------------------------
(* What is told. *)

\* There is a reason to tell of s in the runs of some kind.
TrueOf(s) ==
    \E k \in Kinds : s \in Signals(k) /\
      \E i, j \in DOMAIN runs[k] :
        IF k = "qa" THEN i <= j /\ runs[k][i][s] > 0 /\ runs[k][j][s] > 0
        ELSE i < j /\ runs[k][j][s] > runs[k][i][s]

LEMMA GotWorseIsTrue ==
    ASSUME RunsInv, HistoryInv, NEW k \in Kinds, Readable(k), NEW s \in GotWorse(k)
    PROVE  s \in Signals(k) /\ TrueOf(s)
<1> DEFINE h == history[k]
           n == Len(h)
<1>1. /\ h \in Seq(0..Len(runs[k])) /\ n \in Nat /\ Len(runs[k]) \in Nat
      /\ DOMAIN h = 1..n /\ DOMAIN runs[k] = 1..Len(runs[k])
      /\ \A i, j \in 1..n : i < j /\ h[i] # CutShort /\ h[j] # CutShort => h[i] <= h[j]
  BY DEF RunsInv, RunsOf, HistoryInv, HistoryOf
<1>2. n >= 2
  BY <1>1 DEF GotWorse
<1>3. /\ s \in Signals(k)
      /\ IF k = "qa" THEN Count(k, n, s) > 0 /\ Count(k, n - 1, s) > 0
                     ELSE Count(k, n, s) > Count(k, n - 1, s)
  BY <1>1, <1>2 DEF GotWorse
<1>4. n \in 1..n /\ n - 1 \in 1..n /\ n - 1 < n
  BY <1>1, <1>2
<1>5. h[n] # CutShort /\ h[n - 1] # CutShort
  BY <1>1, <1>4 DEF Readable
<1>6. h[n - 1] <= h[n] /\ h[n] \in 1..Len(runs[k]) /\ h[n - 1] \in 1..Len(runs[k])
  <2> HIDE DEF h, n
  <2>1. h[n - 1] <= h[n]
    BY <1>1, <1>4, <1>5
  <2>2. ASSUME NEW i \in 1..n PROVE h[i] \in 0..Len(runs[k])
    BY <1>1, <2>2, ElementOfSeq DEF n
  <2>3. h[n] \in 0..Len(runs[k]) /\ h[n - 1] \in 0..Len(runs[k])
    BY <1>4, <2>2
  <2>4. h[n] # 0 /\ h[n - 1] # 0
    BY <1>5 DEF CutShort
  <2>5. QED
    BY <1>1, <2>1, <2>3, <2>4
<1>7. Count(k, n, s) = runs[k][h[n]][s] /\ Count(k, n - 1, s) = runs[k][h[n - 1]][s]
  BY DEF Count
<1> DEFINE i == h[n - 1]
           j == h[n]
<1> HIDE DEF h, n, i, j
<1>8. CASE k = "qa"
  BY <1>1, <1>3, <1>6, <1>7, <1>8 DEF TrueOf, i, j
<1>9. CASE k # "qa"
  <2>1. i \in 1..Len(runs[k]) /\ j \in 1..Len(runs[k]) /\ i <= j /\ runs[k][j][s] > runs[k][i][s]
    BY <1>3, <1>6, <1>7, <1>9 DEF i, j
  <2>2. runs[k][i] \in [Signals(k) -> Nat]
    BY <2>1, <1>1, ElementOfSeq DEF RunsInv, RunsOf
  <2>3. i # j
    BY <1>3, <2>1, <2>2
  <2>4. i < j
    BY <1>1, <2>1, <2>3
  <2>5. QED
    BY <1>1, <1>3, <1>9, <2>1, <2>4 DEF TrueOf
<1>10. QED
  BY <1>3, <1>8, <1>9

LEMMA TellingIsTrue ==
    ASSUME RunsInv, HistoryInv, NEW k \in Kinds
    PROVE  Telling(k) \subseteq AllSignals /\ \A s \in Telling(k) : TrueOf(s)
<1>1. "srs" \in Kinds /\ "test" \in Kinds /\ "qa" \in Kinds
  BY DEF Kinds
<1>2. ASSUME NEW s \in Omissions PROVE s \in AllSignals /\ TrueOf(s)
  BY <1>1, <1>2, GotWorseIsTrue DEF Omissions, AllSignals
<1>3. ASSUME NEW s \in GotWorse(k), Readable(k) PROVE s \in AllSignals /\ TrueOf(s)
  BY <1>3, GotWorseIsTrue DEF AllSignals
<1>4. ASSUME NEW s \in Telling(k) PROVE s \in AllSignals /\ TrueOf(s)
  <2>1. history[k] # <<>> /\ Readable(k)
    BY <1>4 DEF Telling, RenderRaises
  <2>2. s \in GotWorse(k) \/ s \in Omissions
    BY <1>4, <2>1 DEF Telling, RenderRaises, Kinds
  <2>3. QED
    BY <1>2, <1>3, <2>1, <2>2
<1>5. QED
  BY <1>4

\* What got worse from the last run but one to the last is told, if the history
\* ends with lines of these two runs and can be read.
LEMMA WorseIsTold ==
    ASSUME RunsInv, HistoryInv, NEW k \in Kinds, NEW s \in Signals(k), Len(runs[k]) > 1,
           IF k = "qa" THEN runs[k][Len(runs[k])][s] > 0 /\ runs[k][Len(runs[k]) - 1][s] > 0
           ELSE runs[k][Len(runs[k])][s] > runs[k][Len(runs[k]) - 1][s],
           \A i \in DOMAIN history[k] : history[k][i] # CutShort,
           Len(history[k]) >= 2,
           SubSeq(history[k], Len(history[k]) - 1, Len(history[k]))
             = <<Len(runs[k]) - 1, Len(runs[k])>>
    PROVE  s \in Telling(k)
<1> DEFINE h == history[k]
           m == Len(h)
           n == Len(runs[k])
<1>1. h \in Seq(0..n) /\ m \in Nat /\ n \in Nat
  BY DEF RunsInv, RunsOf, HistoryInv, HistoryOf
<1>2. m - 1 \in Int /\ m \in Int /\ \A i \in (m - 1)..m : h[i] \in 0..n
  <2>1. \A i \in 1..m : h[i] \in 0..n
    BY <1>1, ElementOfSeq
  <2>2. m >= 2
    OBVIOUS
  <2> HIDE DEF m, h, n
  <2>3. m - 1 \in Int /\ m \in Int /\ \A i \in (m - 1)..m : i \in 1..m
    BY <1>1, <2>2
  <2>4. QED
    BY <2>1, <2>3
<1>3. \A i \in 1..m - (m - 1) + 1 : SubSeq(h, m - 1, m)[i] = h[(m - 1) + i - 1]
  BY <1>2, SubSeqProperties
<1>4. m - (m - 1) + 1 = 2 /\ (m - 1) + 1 - 1 = m - 1 /\ (m - 1) + 2 - 1 = m
  BY <1>1
<1>5. 1 \in 1..2 /\ 2 \in 1..2
  OBVIOUS
<1>6. h[m - 1] = SubSeq(h, m - 1, m)[1] /\ h[m] = SubSeq(h, m - 1, m)[2]
  BY <1>3, <1>4, <1>5
<1>7. h[m - 1] = n - 1 /\ h[m] = n
  <2>1. SubSeq(h, m - 1, m) = <<n - 1, n>>
    OBVIOUS
  <2> DEFINE t == SubSeq(h, m - 1, m)
  <2> HIDE DEF h, m, n, t
  <2>2. t = <<n - 1, n>>
    BY <2>1 DEF t
  <2>3. h[m - 1] = t[1] /\ h[m] = t[2]
    BY <1>6 DEF t
  <2>4. t[1] = n - 1 /\ t[2] = n
    BY <2>2
  <2>5. QED
    BY <2>3, <2>4
<1>8. Count(k, m, s) = runs[k][n][s] /\ Count(k, m - 1, s) = runs[k][n - 1][s]
  BY <1>7 DEF Count
<1>9. s \in GotWorse(k)
  BY <1>1, <1>8 DEF GotWorse
<1>10. Readable(k) /\ h # <<>>
  BY <1>1 DEF Readable
<1>11. CASE k = "srs"
  BY <1>9, <1>10, <1>11 DEF Telling, RenderRaises, Omissions
<1>12. CASE k # "srs"
  BY <1>9, <1>10, <1>12 DEF Telling, RenderRaises, Kinds
<1>13. QED
  BY <1>11, <1>12

-----------------------------------------------------------------------------
(* The job. *)

\* While something is told, the threads are those of the providers there are;
\* what a job has told is what its history had to tell, unless the workflow
\* stopped at the analysis or no provider could be made.
JobInv ==
    /\ job \in Job
    /\ job.at # "idle" => runs[job.kind] # <<>>
    /\ job.at \in {"idle", "analyze", "render"} => job.told = {}
    /\ job.at \in {"alerting", "posting"} =>
         ~DiscoveryRaises /\ \A p \in Providers : threads[p].at # "none" <=> p \in Discovered
    /\ job.at \notin {"alerting", "posting"} => NoneAtWork
    /\ job.at = "alerting" => job.told = Telling(job.kind)
    /\ job.at \in {"post", "posting"} =>
         /\ job.kind = "test"
         /\ Fails("test") \/ DiscoveryRaises \/ job.told = Telling("test")

AlertInv == NotifyInv /\ RunsInv /\ HistoryInv /\ JobInv /\ ToldIsTrue

\* What depends on runs and histories only.
LEMMA DataKept ==
    ASSUME RunsInv, HistoryInv, UNCHANGED <<runs, history>>
    PROVE  /\ RunsInv' /\ HistoryInv'
           /\ \A k \in Kinds : Telling(k)' = Telling(k)
           /\ Fails("test")' = Fails("test")
           /\ \A s : TrueOf(s) => TrueOf(s)'
<1>1. RunsInv' /\ HistoryInv'
  BY DEF RunsInv, HistoryInv
<1>2. ASSUME NEW k PROVE Readable(k)' = Readable(k) /\ GotWorse(k)' = GotWorse(k)
  BY DEF Readable, GotWorse, Count
<1>3. Omissions' = Omissions
  BY <1>2 DEF Omissions
<1>4. ASSUME NEW k \in Kinds PROVE Telling(k)' = Telling(k)
  <2>1. /\ GotWorse("test")' = GotWorse("test") /\ GotWorse("qa")' = GotWorse("qa")
        /\ history' = history
    BY <1>2
  <2>2. RenderRaises(k)' = RenderRaises(k)
    BY <1>2 DEF RenderRaises
  <2>3. CASE history[k] = <<>> \/ RenderRaises(k)
    BY <2>1, <2>2, <2>3 DEF Telling
  <2>4. CASE ~(history[k] = <<>> \/ RenderRaises(k))
    <3>1. CASE k = "test"
      BY <1>3, <2>1, <2>2, <2>4, <3>1 DEF Telling
    <3>2. CASE k = "srs"
      BY <1>3, <2>1, <2>2, <2>4, <3>2 DEF Telling
    <3>3. CASE k = "qa"
      BY <1>3, <2>1, <2>2, <2>4, <3>3 DEF Telling
    <3>4. QED
      BY <3>1, <3>2, <3>3 DEF Kinds
  <2>5. QED
    BY <2>3, <2>4
<1>5. Fails("test")' = Fails("test")
  BY DEF Fails, Newest
<1>6. \A s : TrueOf(s) => TrueOf(s)'
  BY DEF TrueOf
<1>7. QED
  BY <1>1, <1>4, <1>5, <1>6

LEMMA TestRunKeeps ==
    ASSUME AlertInv, NEW k \in Kinds, TestRun(k)
    PROVE  AlertInv'
<1>1. /\ job.at = "idle" /\ UNCHANGED <<history, job, notifyVars>>
      /\ Len(runs["test"]) + Len(runs["srs"]) + Len(runs["qa"]) < MaxRuns
  BY DEF TestRun, notifyVars
<1>2. PICK c \in Observed[k][Len(runs[k]) + 1] : runs' = [runs EXCEPT ![k] = Append(runs[k], c)]
  BY DEF TestRun
<1> DEFINE n == Len(runs[k])
<1>3. \A q \in Kinds : Len(runs[q]) \in Nat /\ runs[q] \in Seq([Signals(q) -> Nat])
  BY DEF AlertInv, RunsInv, RunsOf
<1>4. n + 1 \in 1..MaxRuns
  <2>1. Len(runs["test"]) \in Nat /\ Len(runs["srs"]) \in Nat /\ Len(runs["qa"]) \in Nat
    BY <1>3 DEF Kinds
  <2>2. k = "test" \/ k = "srs" \/ k = "qa"
    BY DEF Kinds
  <2> DEFINE a == Len(runs["test"])
             b == Len(runs["srs"])
             d == Len(runs["qa"])
  <2>3. a + b + d < MaxRuns /\ (n = a \/ n = b \/ n = d)
    BY <1>1, <2>2
  <2>4. a \in Nat /\ b \in Nat /\ d \in Nat
    BY <2>1
  <2> HIDE DEF a, b, d, n
  <2>5. QED
    BY <2>3, <2>4
<1>5. c \in [Signals(k) -> Nat]
  BY <1>2, <1>4
<1>6. /\ Append(runs[k], c) \in Seq([Signals(k) -> Nat]) /\ Len(Append(runs[k], c)) = n + 1
      /\ Append(runs[k], c)[n + 1] = c
      /\ \A i \in 1..n : Append(runs[k], c)[i] = runs[k][i]
  BY <1>3, <1>5
<1>7. RunsOf(k, Append(runs[k], c))
  <2>1. \A i \in 1..n : runs[k][i] \in Observed[k][i]
    BY DEF AlertInv, RunsInv, RunsOf
  <2>2. QED
    BY <1>2, <1>3, <1>6, <2>1 DEF RunsOf
<1>8. DOMAIN runs = Kinds /\ \A q \in Kinds : runs'[q] = IF q = k THEN Append(runs[k], c) ELSE runs[q]
  BY <1>2 DEF AlertInv, RunsInv
<1>9. RunsInv'
  <2>1. runs' = [q \in Kinds |-> runs'[q]]
    BY <1>2, <1>8
  <2>2. \A q \in Kinds : RunsOf(q, runs'[q])
    BY <1>7, <1>8 DEF AlertInv, RunsInv
  <2>3. Len(runs'["test"]) + Len(runs'["srs"]) + Len(runs'["qa"]) <= MaxRuns
    <3> DEFINE L(q) == Len(runs[q])
               M(q) == Len(runs'[q])
    <3>1. \A q \in Kinds : L(q) \in Nat /\ M(q) = IF q = k THEN L(q) + 1 ELSE L(q)
      BY <1>3, <1>6, <1>8
    <3>2. L("test") + L("srs") + L("qa") < MaxRuns
      BY <1>1
    <3> HIDE DEF L, M
    <3>3. L("test") \in Nat /\ L("srs") \in Nat /\ L("qa") \in Nat
      BY <3>1 DEF Kinds
    <3>4. CASE k = "test"
      <4>1. M("test") = L("test") + 1 /\ M("srs") = L("srs") /\ M("qa") = L("qa")
        BY <3>1, <3>4 DEF Kinds
      <4>2. QED
        BY <3>2, <3>3, <4>1 DEF M
    <3>5. CASE k = "srs"
      <4>1. M("test") = L("test") /\ M("srs") = L("srs") + 1 /\ M("qa") = L("qa")
        BY <3>1, <3>5 DEF Kinds
      <4>2. QED
        BY <3>2, <3>3, <4>1 DEF M
    <3>6. CASE k = "qa"
      <4>1. M("test") = L("test") /\ M("srs") = L("srs") /\ M("qa") = L("qa") + 1
        BY <3>1, <3>6 DEF Kinds
      <4>2. QED
        BY <3>2, <3>3, <4>1 DEF M
    <3>7. QED
      BY <3>4, <3>5, <3>6 DEF Kinds
  <2>4. QED
    BY <2>1, <2>2, <2>3 DEF RunsInv, RunsOf
<1>10. HistoryInv'
  <2>1. ASSUME NEW q \in Kinds PROVE HistoryOf(history[q], Len(runs'[q]))
    <3>1. HistoryOf(history[q], Len(runs[q]))
      BY DEF AlertInv, HistoryInv
    <3>2. Len(runs'[q]) \in {Len(runs[q]), Len(runs[q]) + 1}
      BY <1>6, <1>8
    <3>3. (0..Len(runs[q])) \subseteq (0..Len(runs'[q]))
      BY <1>3, <3>2
    <3>4. history[q] \in Seq(0..Len(runs'[q]))
      BY <3>1, <3>3, SeqMonotonic DEF HistoryOf
    <3>5. QED
      BY <3>1, <3>4 DEF HistoryOf
  <2>2. QED
    BY <1>1, <2>1 DEF AlertInv, HistoryInv, HistoryOf
<1>11. NotifyInv' /\ NoneAtWork'
  BY <1>1, StillFine DEF AlertInv, JobInv
<1>12. JobInv' /\ ToldIsTrue'
  BY <1>1, <1>11 DEF AlertInv, JobInv, ToldIsTrue
<1>13. QED
  BY <1>9, <1>10, <1>11, <1>12 DEF AlertInv

LEMMA AnalyzeKeeps ==
    ASSUME AlertInv, Analyze \/ KilledInAnalyze
    PROVE  AlertInv'
<1> DEFINE k == job.kind
<1>1. /\ job.at = "analyze" /\ k \in Kinds /\ job.told = {} /\ runs[k] # <<>>
      /\ UNCHANGED <<runs, notifyVars>> /\ NoneAtWork
  BY DEF Analyze, KilledInAnalyze, AlertInv, JobInv, Job, notifyVars
<1>2. HistoryOf(Appended(k), Len(runs[k])) /\ Len(runs[k]) \in Nat
  <2> HIDE DEF k
  <2>1. HistoryOf(Appended(k), Len(runs[k]))
    BY <1>1, AppendedIsHistory DEF AlertInv
  <2>2. runs[k] \in Seq([Signals(k) -> Nat])
    BY <1>1 DEF AlertInv, RunsInv, RunsOf
  <2>3. QED
    BY <2>1, <2>2
<1>3. \E h : history' = [history EXCEPT ![k] = h] /\ HistoryOf(h, Len(runs[k]))
  <2>1. CASE Analyze
    BY <1>2, <2>1 DEF Analyze
  <2>2. CASE KilledInAnalyze
    <3>1. PICK n \in DOMAIN Appended(k) :
            \E cut \in {<<>>, Append(SubSeq(Appended(k), 1, n - 1), CutShort)} :
              history' = [history EXCEPT ![k] = cut]
      BY <2>2 DEF KilledInAnalyze
    <3>2. PICK cut \in {<<>>, Append(SubSeq(Appended(k), 1, n - 1), CutShort)} :
            history' = [history EXCEPT ![k] = cut]
      BY <3>1
    <3>3. HistoryOf(cut, Len(runs[k]))
      BY <1>2, CutIsHistory
    <3>4. QED
      BY <3>2, <3>3
  <2>3. QED
    BY <2>1, <2>2
<1>4. HistoryInv'
  BY <1>1, <1>3 DEF AlertInv, HistoryInv, HistoryOf
<1>5. RunsInv'
  BY <1>1 DEF AlertInv, RunsInv
<1>6. NotifyInv' /\ NoneAtWork'
  BY <1>1, StillFine DEF AlertInv
<1>7. Fails("test")' = Fails("test")
  BY <1>1 DEF Fails, Newest
<1>8. JobInv' /\ ToldIsTrue'
  <2>1. CASE Analyze
    <3>1. /\ job'.kind = k /\ job'.told = {} /\ job' \in Job
          /\ \/ job'.at = "render"
             \/ job'.at = "post" /\ k = "test" /\ Fails("test")
      BY <1>1, <2>1 DEF Analyze, AlertInv, JobInv, Job
    <3>2. QED
      BY <1>1, <1>6, <1>7, <3>1 DEF JobInv, ToldIsTrue
  <2>2. CASE KilledInAnalyze
    <3>1. job' = Idle
      BY <2>2 DEF KilledInAnalyze
    <3>2. QED
      BY <1>6, <3>1 DEF JobInv, ToldIsTrue, Idle, Job, Kinds
  <2>3. QED
    BY <2>1, <2>2
<1>9. QED
  BY <1>4, <1>5, <1>6, <1>8 DEF AlertInv

LEMMA BeginKeeps ==
    ASSUME AlertInv, NEW k \in Kinds, Begin(k)
    PROVE  AlertInv'
<1>1. /\ UNCHANGED <<runs, history, notifyVars>> /\ runs[k] # <<>> /\ NoneAtWork
      /\ job' = [kind |-> k, at |-> "analyze", told |-> {}]
  BY DEF Begin, AlertInv, JobInv, notifyVars
<1>2. RunsInv' /\ HistoryInv'
  BY <1>1, DataKept DEF AlertInv
<1>3. NotifyInv' /\ NoneAtWork'
  BY <1>1, StillFine DEF AlertInv
<1>4. JobInv' /\ ToldIsTrue'
  BY <1>1, <1>3 DEF JobInv, ToldIsTrue, Job
<1>5. QED
  BY <1>2, <1>3, <1>4 DEF AlertInv

\* What a job has told stays true while it runs.
LEMMA ToldStays ==
    ASSUME AlertInv, UNCHANGED <<runs, history>>, job'.told \subseteq job.told
    PROVE  ToldIsTrue'
<1>1. \A s \in job.told : TrueOf(s)
  BY DEF AlertInv, ToldIsTrue, TrueOf
<1>2. \A s \in job'.told : TrueOf(s)'
  BY <1>1, DataKept DEF AlertInv
<1>3. QED
  BY <1>2 DEF ToldIsTrue, TrueOf

\* Where a job goes after the dashboard.
LEMMA AfterRenderType ==
    ASSUME JobInv, job.at \in {"render", "alerting"}
    PROVE  /\ AfterRender \in Job /\ AfterRender.told \subseteq job.told
           /\ \/ AfterRender = Idle /\ job.kind # "test"
              \/ /\ AfterRender.at = "post" /\ AfterRender.kind = "test" /\ job.kind = "test"
                 /\ AfterRender.told = job.told
<1>1. CASE job.kind = "test"
  BY <1>1 DEF AfterRender, JobInv, Job
<1>2. CASE job.kind # "test"
  BY <1>2 DEF AfterRender, JobInv, Job, Idle, Kinds
<1>3. QED
  BY <1>1, <1>2

LEMMA RenderKeeps ==
    ASSUME AlertInv, Render
    PROVE  AlertInv'
<1> DEFINE k == job.kind
<1>1. /\ job.at = "render" /\ k \in Kinds /\ job.told = {} /\ runs[k] # <<>> /\ NoneAtWork
      /\ UNCHANGED <<runs, history>>
  BY DEF Render, AlertInv, JobInv, Job
<1>2. RunsInv' /\ HistoryInv' /\ \A q \in Kinds : Telling(q)' = Telling(q)
  BY <1>1, DataKept DEF AlertInv
<1>3. CASE Telling(k) # {} /\ ~DiscoveryRaises /\ Dispatch
           /\ job' = [job EXCEPT !.at = "alerting", !.told = Telling(k)]
  <2>1. NotifyInv' /\ \A p \in Providers : threads'[p].at # "none" <=> p \in Discovered
    BY <1>1, <1>3, DispatchIsFine DEF AlertInv
  <2>2. UNCHANGED <<DiscoveryRaises, Discovered>>
    BY <1>3 DEF Dispatch, DiscoveryRaises, Discovered
  <2>3. Telling(k) \subseteq AllSignals /\ \A s \in Telling(k) : TrueOf(s)
    BY <1>1, TellingIsTrue DEF AlertInv
  <2>4. /\ job'.at = "alerting" /\ job'.kind = k /\ job'.told = Telling(k) /\ job' \in Job
    BY <1>3, <2>3 DEF AlertInv, JobInv, Job
  <2>5. JobInv'
    BY <1>1, <1>2, <1>3, <2>1, <2>2, <2>4 DEF JobInv
  <2>6. \A s \in job'.told : TrueOf(s)'
    BY <1>1, <2>3, <2>4, DataKept DEF AlertInv
  <2>7. QED
    BY <1>2, <2>1, <2>5, <2>6 DEF AlertInv, ToldIsTrue, TrueOf
<1>4. CASE (Telling(k) = {} \/ DiscoveryRaises) /\ job' = AfterRender /\ UNCHANGED notifyVars
  <2>1. NotifyInv' /\ NoneAtWork'
    BY <1>1, <1>4, StillFine DEF AlertInv
  <2>2. UNCHANGED DiscoveryRaises
    BY <1>4 DEF notifyVars, DiscoveryRaises
  <2>3. /\ AfterRender \in Job /\ AfterRender.told \subseteq job.told
        /\ \/ AfterRender = Idle /\ job.kind # "test"
           \/ /\ AfterRender.at = "post" /\ AfterRender.kind = "test" /\ job.kind = "test"
              /\ AfterRender.told = job.told
    BY <1>1, AfterRenderType DEF AlertInv
  <2>6. JobInv'
    <3>1. CASE AfterRender = Idle
      BY <1>4, <2>1, <2>3, <3>1 DEF JobInv, Idle
    <3>2. CASE AfterRender.at = "post" /\ AfterRender.kind = "test" /\ job.kind = "test"
               /\ AfterRender.told = {}
      BY <1>1, <1>2, <1>4, <2>1, <2>2, <2>3, <3>2 DEF JobInv
    <3>3. QED
      BY <1>1, <2>3, <3>1, <3>2
  <2>7. ToldIsTrue'
    BY <1>1, <1>4, <2>3, ToldStays
  <2>8. QED
    BY <1>2, <2>1, <2>6, <2>7 DEF AlertInv
<1>5. QED
  BY <1>3, <1>4 DEF Render

LEMMA AlertedKeeps ==
    ASSUME AlertInv, Alerted
    PROVE  AlertInv'
<1>1. /\ job.at = "alerting" /\ job' = AfterRender /\ Forget /\ UNCHANGED <<runs, history>>
      /\ job.told = Telling(job.kind) /\ runs[job.kind] # <<>>
  BY DEF Alerted, AlertInv, JobInv
<1>2. RunsInv' /\ HistoryInv' /\ \A q \in Kinds : Telling(q)' = Telling(q)
  BY <1>1, DataKept DEF AlertInv
<1>3. NotifyInv' /\ NoneAtWork'
  BY <1>1, ForgetIsFine DEF AlertInv
<1>4. /\ AfterRender \in Job /\ AfterRender.told \subseteq job.told
      /\ \/ AfterRender = Idle /\ job.kind # "test"
         \/ /\ AfterRender.at = "post" /\ AfterRender.kind = "test" /\ job.kind = "test"
            /\ AfterRender.told = job.told
  BY <1>1, AfterRenderType DEF AlertInv
<1>5. JobInv'
  <2>1. CASE AfterRender = Idle
    BY <1>1, <1>3, <1>4, <2>1 DEF JobInv, Idle
  <2>2. CASE AfterRender.at = "post" /\ AfterRender.kind = "test" /\ job.kind = "test"
             /\ AfterRender.told = job.told
    <3>1. Telling("test")' = Telling("test") /\ runs' = runs
      BY <1>1, <1>2 DEF Kinds
    <3>2. QED
      BY <1>1, <1>3, <1>4, <2>2, <3>1 DEF JobInv
  <2>3. QED
    BY <1>4, <2>1, <2>2
<1>6. ToldIsTrue'
  BY <1>1, <1>4, ToldStays
<1>7. QED
  BY <1>2, <1>3, <1>5, <1>6 DEF AlertInv

LEMMA PostKeeps ==
    ASSUME AlertInv, Post
    PROVE  AlertInv'
<1>1. /\ job.at = "post" /\ UNCHANGED <<runs, history>> /\ NoneAtWork /\ job \in Job
      /\ runs[job.kind] # <<>> /\ job.kind = "test"
      /\ Fails("test") \/ DiscoveryRaises \/ job.told = Telling("test")
  BY DEF Post, AlertInv, JobInv
<1>2. RunsInv' /\ HistoryInv' /\ (\A q \in Kinds : Telling(q)' = Telling(q)) /\ Fails("test")' = Fails("test")
  BY <1>1, DataKept DEF AlertInv
<1>3. CASE DiscoveryRaises /\ job' = Idle /\ UNCHANGED notifyVars
  <2>1. NotifyInv' /\ NoneAtWork'
    BY <1>1, <1>3, StillFine DEF AlertInv
  <2>2. JobInv' /\ ToldIsTrue'
    BY <1>3, <2>1 DEF JobInv, ToldIsTrue, Idle, Job, Kinds
  <2>3. QED
    BY <1>2, <2>1, <2>2 DEF AlertInv
<1>4. CASE ~DiscoveryRaises /\ job' = [job EXCEPT !.at = "posting"] /\ Dispatch
  <2>1. NotifyInv' /\ \A p \in Providers : threads'[p].at # "none" <=> p \in Discovered
    BY <1>1, <1>4, DispatchIsFine DEF AlertInv
  <2>2. UNCHANGED <<DiscoveryRaises, Discovered>>
    BY <1>4 DEF Dispatch, DiscoveryRaises, Discovered
  <2>3. job'.at = "posting" /\ job'.kind = job.kind /\ job'.told = job.told /\ job' \in Job
    BY <1>1, <1>4 DEF Job
  <2>4. JobInv'
    <3>1. Telling("test")' = Telling("test") /\ runs' = runs
      BY <1>1, <1>2 DEF Kinds
    <3>2. QED
      BY <1>1, <1>2, <1>4, <2>1, <2>2, <2>3, <3>1 DEF JobInv
  <2>5. ToldIsTrue'
    BY <1>1, <2>3, ToldStays
  <2>6. QED
    BY <1>2, <2>1, <2>4, <2>5 DEF AlertInv
<1>5. QED
  BY <1>3, <1>4 DEF Post

LEMMA PostedKeeps ==
    ASSUME AlertInv, Posted
    PROVE  AlertInv'
<1>1. job' = Idle /\ Forget /\ UNCHANGED <<runs, history>>
  BY DEF Posted
<1>2. RunsInv' /\ HistoryInv'
  BY <1>1, DataKept DEF AlertInv
<1>3. NotifyInv' /\ NoneAtWork'
  BY <1>1, ForgetIsFine DEF AlertInv
<1>4. JobInv' /\ ToldIsTrue'
  BY <1>1, <1>3 DEF JobInv, ToldIsTrue, Idle, Job, Kinds
<1>5. QED
  BY <1>2, <1>3, <1>4 DEF AlertInv

LEMMA SendingKeeps ==
    ASSUME AlertInv, NEW p \in Providers, Try(p) \/ Gather(p), UNCHANGED <<runs, history, job>>
    PROVE  AlertInv'
<1>1. NotifyInv' /\ \A q \in Providers : threads'[q].at = "none" <=> threads[q].at = "none"
  BY TryIsFine, GatherIsFine DEF AlertInv
<1>2. env' = env
  BY DEF Try, Gather
<1>3. UNCHANGED <<DiscoveryRaises, Discovered>>
  BY <1>2 DEF DiscoveryRaises, Discovered
<1>4. /\ RunsInv' /\ HistoryInv' /\ (\A q \in Kinds : Telling(q)' = Telling(q))
      /\ Fails("test")' = Fails("test")
  BY DataKept DEF AlertInv
<1>5. JobInv'
  <2>1. JobInv /\ (NoneAtWork <=> NoneAtWork')
    BY <1>1 DEF AlertInv, NoneAtWork
  <2>2. job' = job /\ runs' = runs /\ job.kind \in Kinds /\ "test" \in Kinds
    BY <2>1 DEF JobInv, Job, Kinds
  <2>3. QED
    BY <1>1, <1>3, <1>4, <2>1, <2>2 DEF JobInv
<1>6. ToldIsTrue'
  BY ToldStays
<1>7. QED
  BY <1>1, <1>4, <1>5, <1>6 DEF AlertInv

LEMMA AlertInit == Init => AlertInv
<1> SUFFICES ASSUME Init PROVE AlertInv
  OBVIOUS
<1>1. NotifyInv /\ NoneAtWork
  BY QuietIsFine DEF Init
<1>2. RunsInv /\ HistoryInv
  <2>1. \A k \in Kinds : runs[k] = <<>> /\ history[k] = <<>>
    BY DEF Init
  <2>2. \A k \in Kinds : RunsOf(k, <<>>) /\ HistoryOf(<<>>, 0)
    BY DEF RunsOf, HistoryOf
  <2>3. Len(runs["test"]) = 0 /\ Len(runs["srs"]) = 0 /\ Len(runs["qa"]) = 0
    BY <2>1 DEF Kinds
  <2>4. /\ runs = [k \in Kinds |-> runs[k]] /\ history = [k \in Kinds |-> history[k]]
    BY DEF Init
  <2>5. RunsInv
    BY <2>1, <2>2, <2>3, <2>4 DEF RunsInv
  <2>6. \A k \in Kinds : HistoryOf(history[k], Len(runs[k]))
    <3>1. Len(<<>>) = 0
      OBVIOUS
    <3>2. QED
      BY <2>1, <2>2, <3>1
  <2>7. QED
    BY <2>4, <2>5, <2>6 DEF HistoryInv
<1>3. JobInv /\ ToldIsTrue
  BY <1>1 DEF Init, JobInv, ToldIsTrue, Idle, Job, Kinds
<1>4. QED
  BY <1>1, <1>2, <1>3 DEF AlertInv

LEMMA AlertStep == AlertInv /\ [Next]_vars => AlertInv'
<1> SUFFICES ASSUME AlertInv, [Next]_vars PROVE AlertInv'
  OBVIOUS
<1>1. CASE \E k \in Kinds : TestRun(k) \/ Begin(k)
  BY <1>1, TestRunKeeps, BeginKeeps
<1>2. CASE JobStep
  BY <1>2, AnalyzeKeeps, RenderKeeps, AlertedKeeps, PostKeeps, PostedKeeps DEF JobStep
<1>3. CASE KilledInAnalyze
  BY <1>3, AnalyzeKeeps
<1>4. CASE Sending
  BY <1>4, SendingKeeps DEF Sending
<1>5. CASE UNCHANGED vars
  <2>1. NotifyInv' /\ (NoneAtWork => NoneAtWork') /\ UNCHANGED <<threads, Discovered>>
    BY <1>5, StillFine DEF AlertInv, vars, notifyVars
  <2>2. /\ RunsInv' /\ HistoryInv' /\ (\A q \in Kinds : Telling(q)' = Telling(q))
        /\ Fails("test")' = Fails("test")
    BY <1>5, DataKept DEF AlertInv, vars
  <2>0. env' = env /\ job' = job
    BY <1>5 DEF vars
  <2>3. UNCHANGED DiscoveryRaises
    BY <2>0 DEF DiscoveryRaises
  <2>4. JobInv'
    <3>1. runs' = runs /\ (NoneAtWork => NoneAtWork') /\ threads' = threads /\ Discovered' = Discovered
      BY <1>5, <2>1 DEF vars
    <3>2. JobInv /\ \A q \in Kinds : Telling(q)' = Telling(q)
      BY <2>2 DEF AlertInv
    <3>3. job.kind \in Kinds /\ "test" \in Kinds
      BY <3>2 DEF JobInv, Job, Kinds
    <3>4. QED
      BY <2>0, <2>2, <2>3, <3>1, <3>2, <3>3 DEF JobInv
  <2>5. ToldIsTrue'
    BY <1>5, <2>0, ToldStays DEF vars
  <2>6. QED
    BY <2>1, <2>2, <2>4, <2>5 DEF AlertInv
<1>6. QED
  BY <1>1, <1>2, <1>3, <1>4, <1>5 DEF Next

LEMMA AlertHolds == Spec => []AlertInv
<1>1. QED
  BY AlertInit, AlertStep, PTL DEF Spec

-----------------------------------------------------------------------------
(* The properties. *)

LEMMA AlertTypes == AlertInv => TypeOK /\ SuccessHasArrived /\ DryRunSpares
<1> SUFFICES ASSUME AlertInv PROVE TypeOK /\ SuccessHasArrived /\ DryRunSpares
  OBVIOUS
<1>1. NotifyTypeOK /\ SuccessHasArrived /\ DryRunSpares
  BY FineIsTrue DEF AlertInv
<1>2. DOMAIN runs = Kinds /\ DOMAIN history = Kinds /\ job \in Job
  <2>1. DOMAIN runs = Kinds
    BY DEF AlertInv, RunsInv
  <2>2. DOMAIN history = Kinds
    BY DEF AlertInv, HistoryInv
  <2>3. job \in Job
    BY DEF AlertInv, JobInv
  <2>4. QED
    BY <2>1, <2>2, <2>3
<1>3. ASSUME NEW k \in Kinds, NEW n \in DOMAIN runs[k] PROVE runs[k][n] \in Observed[k][n]
  <2>1. RunsOf(k, runs[k])
    BY DEF AlertInv, RunsInv
  <2>2. n \in 1..Len(runs[k])
    BY <1>3, <2>1 DEF RunsOf
  <2>3. QED
    BY <2>1, <2>2 DEF RunsOf
<1>4. ASSUME NEW k \in Kinds PROVE Len(runs[k]) \in 0..MaxRuns
  <2> DEFINE L(q) == Len(runs[q])
  <2>1. \A q \in Kinds : L(q) \in Nat
    BY DEF AlertInv, RunsInv, RunsOf
  <2>2. L("test") + L("srs") + L("qa") <= MaxRuns
    BY DEF AlertInv, RunsInv
  <2> HIDE DEF L
  <2>3. L("test") \in Nat /\ L("srs") \in Nat /\ L("qa") \in Nat
    BY <2>1 DEF Kinds
  <2>4. L(k) = L("test") \/ L(k) = L("srs") \/ L(k) = L("qa")
    BY DEF Kinds
  <2>5. L(k) \in 0..MaxRuns
    BY <2>2, <2>3, <2>4
  <2>6. QED
    BY <2>5 DEF L
<1>5. ASSUME NEW k \in Kinds, NEW i \in DOMAIN history[k] PROVE history[k][i] \in Line
  <2>1. history[k] \in Seq(0..Len(runs[k])) /\ i \in 1..Len(history[k])
    BY <1>5 DEF AlertInv, HistoryInv, HistoryOf
  <2>2. history[k][i] \in 0..Len(runs[k])
    BY <2>1, ElementOfSeq
  <2>3. QED
    BY <1>4, <2>2 DEF Line
<1>6. \A k \in Kinds : Limit > 0 => Len(history[k]) <= Limit
  BY DEF AlertInv, HistoryInv, HistoryOf
<1>7. QED
  BY <1>1, <1>2, <1>3, <1>5, <1>6 DEF TypeOK

\* notify_all: success means that the message has arrived or was not to be sent,
\* and a dry run reaches nobody but the providers that are live.
THEOREM AnswersHold == Spec => []AnswersAreTrue
<1>1. AlertInv => AnswersAreTrue
  BY AlertTypes DEF AnswersAreTrue
<1>2. QED
  BY <1>1, AlertHolds, PTL

\* The providers' threads have been dispatched, and all have been gathered.
LEMMA AnsweredStep == AlertInv /\ [Next]_vars => AllAnswered
<1> SUFFICES ASSUME AlertInv, [Next]_vars, job.at \in {"alerting", "posting"}, job'.at # job.at,
                    NEW p \in env.set
             PROVE  \/ p = "github" /\ p \in env.badNumber
                    \/ /\ p \in DOMAIN results
                       /\ ~results[p] => \/ threads[p].attempt = (IF p = "email" THEN 1 ELSE 2)
                                         \/ p = "email" /\ env.bothTls
  BY DEF AllAnswered
<1>1. Returned
  <2>1. CASE UNCHANGED vars
    BY <2>1 DEF vars
  <2>2. CASE Next
    BY <2>2 DEF Next, JobStep, TestRun, Begin, Analyze, Render, Post, KilledInAnalyze, Sending,
                Alerted, Posted
  <2>3. QED
    BY <2>1, <2>2
<1>2. p \in Providers
  BY DEF AlertInv, NotifyInv, Environment
<1>3. CASE p \notin Discovered
  BY <1>3 DEF Discovered
<1>4. CASE p \in Discovered
  <2>1. p \in DOMAIN results
    BY <1>1, <1>2, <1>4 DEF AlertInv, JobInv, Returned
  <2>2. ThreadFine(p)
    BY <1>2 DEF AlertInv, NotifyInv
  <2>3. ~results[p] => GivesUp(p) \/ Misconfigured(p)
    BY <2>1, <2>2 DEF ThreadFine
  <2>4. QED
    BY <2>1, <2>3 DEF GivesUp, Misconfigured, Attempts
<1>5. QED
  BY <1>3, <1>4

\* notify_all returns with the answer of every provider there is, whatever
\* becomes of the others.
THEOREM NobodyIsLeftOut == Spec => NobodyLeftOut
<1>1. QED
  BY AnsweredStep, AlertHolds, PTL DEF Spec, NobodyLeftOut

\* A step that ends a job has told what got worse, or has a reason.
LEMMA ExplainedStep == AlertInv /\ [Next]_vars => EndExplained
<1> DEFINE k == job.kind
           n == Len(runs[k])
           h == history[k]
<1> SUFFICES ASSUME AlertInv, [Next]_vars, job.at \notin {"idle", "analyze"}, job'.at = "idle",
                    NEW s \in Signals(k), n > 1,
                    IF k = "qa" THEN runs[k][n][s] > 0 /\ runs[k][n - 1][s] > 0
                    ELSE runs[k][n][s] > runs[k][n - 1][s],
                    \A i \in DOMAIN h : h[i] # CutShort,
                    Len(h) >= 2, SubSeq(h, Len(h) - 1, Len(h)) = <<n - 1, n>>,
                    ~DiscoveryRaises
             PROVE  s \in job.told \/ (k = "test" /\ runs[k][n]["deps"] > 0)
  <2>1. Len(h) \in Nat
    BY DEF AlertInv, JobInv, Job, HistoryInv, HistoryOf
  <2>2. QED
    BY <2>1 DEF EndExplained, DiscoveryRaises
<1>1. s \in Telling(k) /\ k \in Kinds /\ job \in Job
  <2>1. k \in Kinds /\ job \in Job
    BY DEF AlertInv, JobInv, Job
  <2> HIDE DEF k
  <2>2. QED
    BY <2>1, WorseIsTold DEF AlertInv
<1>2. job' # job
  OBVIOUS
<1>3. CASE Render
  <2>1. ([job EXCEPT !.at = "alerting", !.told = Telling(job.kind)]).at = "alerting"
    BY <1>1 DEF Job
  <2>2. Telling(k) = {}
    BY <1>3, <2>1 DEF Render
  <2> HIDE DEF k
  <2>3. QED
    BY <1>1, <2>2
<1>4. CASE Alerted
  <2>1. job.told = Telling(k)
    BY <1>4 DEF Alerted, AlertInv, JobInv
  <2> HIDE DEF k
  <2>2. QED
    BY <1>1, <2>1
<1>5. CASE Post \/ Posted
  <2>1. job.at \in {"post", "posting"}
    BY <1>5 DEF Post, Posted
  <2>2. k = "test" /\ (Fails("test") \/ job.told = Telling("test"))
    BY <2>1 DEF AlertInv, JobInv
  <2>3. CASE Fails("test")
    BY <2>2, <2>3 DEF Fails, Newest, Signals
  <2>4. CASE job.told = Telling("test")
    <3> HIDE DEF k
    <3>1. Telling(k) = Telling("test")
      BY <2>2
    <3>2. QED
      BY <1>1, <2>4, <3>1
  <2>5. QED
    BY <2>2, <2>3, <2>4
<1>6. QED
  BY <1>2, <1>3, <1>4, <1>5 DEF Next, vars, JobStep, TestRun, Begin, Analyze, KilledInAnalyze,
                               Sending

\* What is told is so, and what got worse is told but for the named reasons.
THEOREM AlertsAreTheRuns == Spec => AlertsMatchRuns
<1>1. AlertInv => ToldIsTrue
  BY DEF AlertInv
<1>2. QED
  BY <1>1, ExplainedStep, AlertHolds, PTL DEF Spec, AlertsMatchRuns, UntoldHasCause
===============================================================================

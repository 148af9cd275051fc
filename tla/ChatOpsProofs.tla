---------------------------- MODULE ChatOpsProofs ----------------------------
(***************************************************************************)
(* Proofs about ChatOps, for any number of threads, runs of the bridge and  *)
(* of the reviewer, any comments and requests and any earlier proposals.   *)
(***************************************************************************)
EXTENDS ChatOps, SequenceTheorems, TLAPS

-----------------------------------------------------------------------------
(* Sequences that only grow *)

Begins(s, t) == Len(s) <= Len(t) /\ \A i \in 1..Len(s) : t[i] = s[i]

\* What the properties call a prefix.
LEMMA BeginsIsPrefix ==
    ASSUME NEW S, NEW s \in Seq(S), NEW t \in Seq(S), Begins(s, t)
    PROVE  IsPrefix(s, t)
<1>1. Len(s) \in Nat /\ Len(t) \in Nat /\ Len(s) <= Len(t)
  BY LenProperties DEF Begins
<1>2. \A i \in 1..Len(s) : s[i] \in S /\ t[i] \in S /\ t[i] = s[i]
  BY <1>1, ElementOfSeq DEF Begins
<1> DEFINE a == SubSeq(s, 1, Len(s))
           b == SubSeq(t, 1, Len(s))
<1>3. /\ a \in Seq(S) /\ b \in Seq(S) /\ Len(a) = Len(s) /\ Len(b) = Len(s)
      /\ \A i \in 1..Len(s) : a[i] = s[i] /\ b[i] = t[i]
  <2>1. /\ a \in Seq(S) /\ Len(a) = IF 1 <= Len(s) THEN Len(s) - 1 + 1 ELSE 0
        /\ \A i \in 1..Len(s) - 1 + 1 : a[i] = s[1 + i - 1]
    BY <1>1, <1>2, SubSeqProperties
  <2>2. /\ b \in Seq(S) /\ Len(b) = IF 1 <= Len(s) THEN Len(s) - 1 + 1 ELSE 0
        /\ \A i \in 1..Len(s) - 1 + 1 : b[i] = t[1 + i - 1]
    BY <1>1, <1>2, SubSeqProperties
  <2> HIDE DEF a, b
  <2>3. QED
    BY <1>1, <2>1, <2>2
<1> HIDE DEF a, b
<1>4. a = b
  <2>1. \A i \in 1..Len(a) : a[i] = b[i]
    BY <1>2, <1>3
  <2>2. QED
    BY <1>3, <2>1, SeqEqual
<1>5. QED
  BY <1>1, <1>4 DEF IsPrefix, a, b

LEMMA BeginsItself == ASSUME NEW S, NEW s \in Seq(S) PROVE Begins(s, s)
BY LenProperties DEF Begins

LEMMA BeginsChain ==
    ASSUME NEW S, NEW s \in Seq(S), NEW t \in Seq(S), NEW u \in Seq(S), Begins(s, t), Begins(t, u)
    PROVE  Begins(s, u)
<1>1. Len(s) \in Nat /\ Len(t) \in Nat /\ Len(u) \in Nat
  BY LenProperties
<1>2. \A i \in 1..Len(s) : u[i] = s[i]
  <2> TAKE i \in 1..Len(s)
  <2>1. i \in 1..Len(t) /\ t[i] = s[i]
    BY <1>1 DEF Begins
  <2>2. QED
    BY <2>1 DEF Begins
<1>3. QED
  BY <1>1, <1>2 DEF Begins

\* What is at a place stays there.
LEMMA BeginsKeeps ==
    ASSUME NEW S, NEW s \in Seq(S), NEW t \in Seq(S), Begins(s, t), NEW i \in DOMAIN s
    PROVE  i \in DOMAIN t /\ t[i] = s[i]
<1>1. Len(s) \in Nat /\ Len(t) \in Nat /\ DOMAIN s = 1..Len(s) /\ DOMAIN t = 1..Len(t)
  BY LenProperties
<1>2. QED
  BY <1>1 DEF Begins

LEMMA BeginsAppended ==
    ASSUME NEW S, NEW s \in Seq(S), NEW x \in S
    PROVE  /\ Append(s, x) \in Seq(S) /\ Len(Append(s, x)) = Len(s) + 1
           /\ Append(s, x)[Len(s) + 1] = x
           /\ \A i \in 1..Len(s) : Append(s, x)[i] = s[i]
           /\ Begins(s, Append(s, x))
<1>1. Len(s) \in Nat
  BY LenProperties
<1>2. /\ Append(s, x) \in Seq(S) /\ Len(Append(s, x)) = Len(s) + 1
      /\ \A i \in 1..Len(s) + 1 : Append(s, x)[i] = IF i <= Len(s) THEN s[i] ELSE x
  BY <1>1, AppendProperties
<1>3. QED
  BY <1>1, <1>2 DEF Begins

LEMMA BeginsJoined ==
    ASSUME NEW S, NEW s \in Seq(S), NEW t \in Seq(S)
    PROVE  s \o t \in Seq(S) /\ Begins(s, s \o t)
<1>1. Len(s) \in Nat /\ Len(t) \in Nat
  BY LenProperties
<1>2. QED
  BY <1>1, ConcatProperties DEF Begins

-----------------------------------------------------------------------------
(* Types *)

RepoOK == repo \in [rev : Nat, sessions : [Threads -> Session], patches : [Threads -> Seq(Patches)]]

RunOK(r, numbers) ==
    /\ r \in BridgeRun
    /\ r.at \in Threaded => r.comment \in Comments
    /\ r.at \in {"gate", "llm", "proposal", "session"} => r.session \in BegunSession
    /\ r.at \in {"proposal", "branch", "pr"} => r.patch \in Patches
    /\ r.at \in {"branch", "pr"} => r.pid # 0
    /\ r.at = "label" => r.pr \in numbers

LEMMA RunsOK == BridgeTypeOK <=> /\ marked \subseteq Threads
                                 /\ DOMAIN run = Runs /\ run = [w \in Runs |-> run[w]]
                                 /\ \A w \in Runs : RunOK(run[w], Numbers)
BY DEF BridgeTypeOK, RunOK

\* A run that has not begun, or whose process is gone.
LEMMA IdleOK ==
    ASSUME NEW numbers
    PROVE  RunOK(Idle, numbers) /\ RunOK([Idle EXCEPT !.at = "crashed"], numbers)
<1>1. NoSession \in Session
  BY DEF Session
<1> DEFINE none == <<>>
<1>2. none \in Seq(Patches)
  BY EmptySeq
<1>3. Idle = [comment |-> NoComment, at |-> "idle", base |-> 0, ahead |-> FALSE, hurt |-> FALSE,
              session |-> NoSession, file |-> NoSession, patches |-> none,
              pid |-> 0, patch |-> NoPatch, pr |-> 0, told |-> "nothing"]
  BY DEF Idle
<1> HIDE DEF none
<1>4. Idle \in BridgeRun
  BY <1>1, <1>2, <1>3 DEF BridgeRun, Told
<1>5. RunOK(Idle, numbers)
  BY <1>3, <1>4 DEF RunOK, Threaded
<1>6. RunOK([Idle EXCEPT !.at = "crashed"], numbers)
  BY <1>4 DEF RunOK, Threaded, BridgeRun
<1>7. QED
  BY <1>5, <1>6

LEMMA LoadedOK == \A s \in Session : Loaded(s) \in BegunSession
<1>1. [status |-> "open", msgs |-> <<>>] \in BegunSession
  BY EmptySeq DEF BegunSession
<1>2. QED
  BY <1>1 DEF Loaded, Session, NoSession, BegunSession

\* One run moves on, the others stay as they are.
LEMMA RunMoves ==
    ASSUME BridgeTypeOK, NEW w \in Runs, NEW r, Becomes(w, r)
    PROVE  /\ run'[w] = r /\ DOMAIN run' = Runs /\ run' = [u \in Runs |-> run'[u]]
           /\ \A u \in Runs \ {w} : run'[u] = run[u]
BY DEF BridgeTypeOK, Becomes

\* The types of the bridge after a step of a run.
LEMMA StepKeepsTypes ==
    ASSUME BridgeTypeOK, NEW w \in Runs, NEW r, Becomes(w, r), RunOK(r, Numbers'),
           Numbers \subseteq Numbers', marked' \subseteq Threads
    PROVE  BridgeTypeOK'
<1>1. \A u \in Runs : RunOK(run'[u], Numbers')
  BY RunMoves, RunsOK DEF RunOK
<1>2. QED
  BY <1>1, RunMoves DEF BridgeTypeOK, RunOK

LEMMA RepoType ==
    ASSUME RepoOK
    PROVE  /\ repo.rev \in Nat
           /\ \A t \in Threads : repo.sessions[t] \in Session /\ repo.patches[t] \in Seq(Patches)
BY DEF RepoOK

LEMMA StartType ==
    ASSUME RepoOK, BridgeTypeOK, NEW w \in Runs, NEW c \in Comments, Start(w, c)
    PROVE  BridgeTypeOK'
<1> DEFINE r == [Idle EXCEPT !.comment = c, !.at = "gate", !.base = repo.rev,
                             !.session = Loaded(repo.sessions[c.thread]),
                             !.file = repo.sessions[c.thread],
                             !.patches = repo.patches[c.thread]]
<1>1. Becomes(w, r) /\ Numbers' = Numbers /\ marked' \subseteq Threads
  BY DEF Start, Numbers, BridgeTypeOK
<1>2. c.thread \in Threads
  BY CommentsAssumption
<1>3. /\ repo.rev \in Nat /\ repo.sessions[c.thread] \in Session
      /\ Loaded(repo.sessions[c.thread]) \in BegunSession
      /\ repo.patches[c.thread] \in Seq(Patches)
  BY <1>2, RepoType, LoadedOK
<1>4. r \in BridgeRun /\ r.at = "gate" /\ r.session \in BegunSession /\ r.comment \in Comments
  BY <1>3, IdleOK DEF RunOK, BridgeRun, Session
<1> HIDE DEF r
<1>5. RunOK(r, Numbers')
  BY <1>4 DEF RunOK, Threaded
<1>6. QED
  BY <1>1, <1>5, StepKeepsTypes

\* A run that answers, or only goes on to the next step.
LEMMA AnswersType ==
    ASSUME BridgeTypeOK, NEW w \in Runs, NEW text \in Told, Answers(w, text),
           run[w].at \in Threaded, Numbers \subseteq Numbers', marked' \subseteq Threads
    PROVE  BridgeTypeOK'
<1>1. RunOK([run[w] EXCEPT !.at = "answer", !.told = text], Numbers')
  BY RunsOK DEF RunOK, BridgeRun, Threaded
<1>2. QED
  BY <1>1, StepKeepsTypes DEF Answers

LEMMA CrashesType ==
    ASSUME BridgeTypeOK, NEW w \in Runs, Crashes(w),
           Numbers \subseteq Numbers', marked' \subseteq Threads
    PROVE  BridgeTypeOK'
<1>1. RunOK([Idle EXCEPT !.at = "crashed"], Numbers')
  BY IdleOK DEF RunOK, Threaded, BridgeRun
<1>2. QED
  BY <1>1, StepKeepsTypes DEF Crashes

LEMMA GateType ==
    ASSUME BridgeTypeOK, NEW w \in Runs, Gate(w)
    PROVE  BridgeTypeOK'
<1> DEFINE c == run[w].comment
<1>1. /\ run[w].at = "gate" /\ RunOK(run[w], Numbers) /\ c \in Comments /\ c.verb \in Verbs
      /\ run[w].session \in BegunSession /\ run[w].at \in Threaded
      /\ Numbers' = Numbers /\ marked' \subseteq Threads
  BY RunsOK, CommentsAssumption DEF Gate, At, RunOK, Threaded, Numbers
<1>2. CASE \E text \in Told : Answers(w, text)
  BY <1>1, <1>2, AnswersType
<1>3. CASE Crashes(w)
  BY <1>1, <1>3, CrashesType
<1>4. CASE \E x \in {"open", "closed"} :
              Becomes(w, [run[w] EXCEPT !.at = "session", !.session.status = x])
  <2>1. PICK x \in {"open", "closed"} :
              Becomes(w, [run[w] EXCEPT !.at = "session", !.session.status = x])
    BY <1>4
  <2>2. RunOK([run[w] EXCEPT !.at = "session", !.session.status = x], Numbers')
    BY <1>1 DEF RunOK, BridgeRun, Session, BegunSession, Threaded
  <2>3. QED
    BY <1>1, <2>1, <2>2, StepKeepsTypes
<1>5. CASE \E x \in {"llm", "apply"} : Goes(w, x)
  <2>1. PICK x \in {"llm", "apply"} : Goes(w, x)
    BY <1>5
  <2>2. RunOK([run[w] EXCEPT !.at = x], Numbers')
    BY <1>1 DEF RunOK, BridgeRun, Threaded
  <2>3. QED
    BY <1>1, <2>1, <2>2, StepKeepsTypes DEF Goes
<1>6. QED
  <2>1. {"policy", "refused", "closed"} \subseteq Told /\ Verbs \subseteq Told
    BY DEF Told, Verbs
  <2>2. QED
    BY <1>1, <1>2, <1>3, <1>4, <1>5, <2>1 DEF Gate

LEMMA CallLlmType ==
    ASSUME BridgeTypeOK, NEW w \in Runs, CallLlm(w)
    PROVE  BridgeTypeOK'
<1>1. /\ run[w].at = "llm" /\ RunOK(run[w], Numbers) /\ run[w].session \in BegunSession
      /\ run[w].at \in Threaded /\ Numbers' = Numbers /\ marked' \subseteq Threads
  BY RunsOK DEF CallLlm, At, RunOK, Threaded, Numbers
<1>2. CASE \E text \in Told : Answers(w, text)
  BY <1>1, <1>2, AnswersType
<1>3. CASE Becomes(w, [run[w] EXCEPT !.at = "session",
                             !.session.msgs = @ \o <<<<"user", w>>, <<"assistant", w>>>>])
  <2> DEFINE m == run[w].session.msgs \o <<<<"user", w>>, <<"assistant", w>>>>
  <2>1. m \in Seq(Messages)
    <3>1. run[w].session.msgs \in Seq(Messages)
      BY <1>1 DEF BegunSession
    <3>2. <<"user", w>> \in Messages /\ <<"assistant", w>> \in Messages
      BY DEF Messages
    <3>3. <<<<"user", w>>, <<"assistant", w>>>> \in Seq(Messages)
      BY <3>2
    <3>4. QED
      BY <3>1, <3>3, ConcatProperties
  <2> HIDE DEF m
  <2>2. RunOK([run[w] EXCEPT !.at = "session", !.session.msgs = m], Numbers')
    BY <1>1, <2>1 DEF RunOK, BridgeRun, Session, BegunSession, Threaded
  <2>3. Becomes(w, [run[w] EXCEPT !.at = "session", !.session.msgs = m])
    BY <1>3 DEF m
  <2>4. QED
    BY <1>1, <2>2, <2>3, StepKeepsTypes
<1>4. CASE \E d \in Patches : Becomes(w, [run[w] EXCEPT !.at = "proposal", !.patch = d])
  <2>1. PICK d \in Patches : Becomes(w, [run[w] EXCEPT !.at = "proposal", !.patch = d])
    BY <1>4
  <2>2. RunOK([run[w] EXCEPT !.at = "proposal", !.patch = d], Numbers')
    BY <1>1 DEF RunOK, BridgeRun, Threaded
  <2>3. QED
    BY <1>1, <2>1, <2>2, StepKeepsTypes
<1>5. QED
  <2>1. {"llm failed", "no diff", "rejected"} \subseteq Told
    BY DEF Told
  <2>2. QED
    BY <1>2, <1>3, <1>4, <2>1 DEF CallLlm

\* Whatever becomes of a push, the run goes on and the server has a repository.
LEMMA PushType ==
    ASSUME RepoOK, BridgeTypeOK, NEW w \in Runs, NEW r, RunOK(r, Numbers), r.at \in {"session", "answer"},
           Push(w, r), Numbers' = Numbers, marked' \subseteq Threads
    PROVE  RepoOK' /\ BridgeTypeOK'
<1> DEFINE t == r.comment.thread
<1>1. /\ r \in BridgeRun /\ r.comment \in Comments /\ t \in Threads /\ r.at \in Threaded
      /\ r.file \in Session /\ r.patches \in Seq(Patches) /\ repo.rev \in Nat
      /\ r.at \notin {"proposal", "branch", "pr", "label"}
  BY CommentsAssumption, RepoType DEF RunOK, Threaded, BridgeRun
<1>2. CASE /\ repo' = [repo EXCEPT !.rev = @ + 1, !.sessions[t] = r.file, !.patches[t] = r.patches]
           /\ Becomes(w, [r EXCEPT !.base = repo.rev + 1, !.ahead = FALSE, !.hurt = FALSE])
  <2>1. RepoOK'
    <3> DEFINE ss == [repo.sessions EXCEPT ![t] = r.file]
               ps == [repo.patches EXCEPT ![t] = r.patches]
    <3>1. ss \in [Threads -> Session] /\ ps \in [Threads -> Seq(Patches)]
      BY <1>1 DEF RepoOK
    <3>2. repo' = [rev |-> repo.rev + 1, sessions |-> ss, patches |-> ps]
      BY <1>2 DEF RepoOK
    <3> HIDE DEF ss, ps
    <3>3. repo.rev + 1 \in Nat
      BY <1>1
    <3>4. QED
      BY <3>1, <3>2, <3>3 DEF RepoOK
  <2>2. RunOK([r EXCEPT !.base = repo.rev + 1, !.ahead = FALSE, !.hurt = FALSE], Numbers')
    <3> DEFINE q == [r EXCEPT !.base = repo.rev + 1, !.ahead = FALSE, !.hurt = FALSE]
    <3>1. repo.rev + 1 \in Nat
      BY <1>1
    <3>2. q \in BridgeRun
      BY <1>1, <3>1 DEF BridgeRun
    <3>3. q.at = r.at /\ q.comment = r.comment /\ q.session = r.session
      BY <1>1 DEF BridgeRun
    <3> HIDE DEF q
    <3>4. RunOK(q, Numbers')
      BY <1>1, <3>2, <3>3 DEF RunOK
    <3>5. QED
      BY <3>4 DEF q
  <2>3. QED
    BY <1>2, <2>1, <2>2, StepKeepsTypes
<1>3. CASE Becomes(w, r) /\ UNCHANGED repo
  BY <1>3, StepKeepsTypes DEF RepoOK
<1>4. CASE Becomes(w, [r EXCEPT !.hurt = TRUE]) /\ UNCHANGED repo
  <2>1. RunOK([r EXCEPT !.hurt = TRUE], Numbers')
    BY <1>1 DEF RunOK, BridgeRun
  <2>2. QED
    BY <1>4, <2>1, StepKeepsTypes DEF RepoOK
<1>5. QED
  BY <1>2, <1>3, <1>4 DEF Push

\* The run that SaveProposal pushes, and the one that SaveSession pushes.
WithProposal(w) ==
    LET n == NextProposalId(run[w])
        file(r) == IF n > Len(r.patches) THEN Append(r.patches, r.patch)
                   ELSE [r.patches EXCEPT ![n] = r.patch]
    IN  [run[w] EXCEPT !.at = "session", !.pid = n, !.ahead = TRUE, !.patches = file(run[w]),
                       !.session.msgs = Append(@, <<"proposal", w>>)]
WithSession(w) ==
    [run[w] EXCEPT !.at = "answer", !.told = Verb(w), !.file = run[w].session,
                   !.ahead = @ \/ run[w].file # run[w].session]

\* The new proposal is the last one, under the number it is told to have.
LEMMA ProposalSaved ==
    ASSUME BridgeTypeOK, NEW w \in Runs, run[w].at = "proposal"
    PROVE  LET r == WithProposal(w)
               n == Len(run[w].patches) + 1
           IN  /\ r \in BridgeRun /\ r.session \in BegunSession
               /\ r.at = "session" /\ r.pid = n /\ r.ahead = TRUE
               /\ r.patches = Append(run[w].patches, run[w].patch)
               /\ Len(r.patches) = n /\ r.patches[n] = run[w].patch
               /\ Begins(run[w].patches, r.patches)
               /\ Begins(run[w].session.msgs, r.session.msgs)
               /\ r.session.status = run[w].session.status
               /\ \A f \in {"comment", "base", "hurt", "file", "patch", "pr", "told"} : r[f] = run[w][f]
<1> DEFINE n == Len(run[w].patches) + 1
           ps == Append(run[w].patches, run[w].patch)
           m == Append(run[w].session.msgs, <<"proposal", w>>)
<1>1. /\ run[w] \in BridgeRun /\ run[w].patch \in Patches /\ run[w].session \in BegunSession
      /\ run[w].patches \in Seq(Patches) /\ run[w].session.msgs \in Seq(Messages)
  BY DEF BridgeTypeOK, BridgeRun, BegunSession
<1>2. /\ n \in Nat /\ n > Len(run[w].patches) /\ Len(ps) = n /\ ps[n] = run[w].patch
      /\ ps \in Seq(Patches) /\ Begins(run[w].patches, ps)
  BY <1>1, BeginsAppended, LenProperties
<1>3. m \in Seq(Messages) /\ Begins(run[w].session.msgs, m)
  <2>1. <<"proposal", w>> \in Messages
    BY DEF Messages
  <2>2. QED
    BY <1>1, <2>1, BeginsAppended
<1>4. WithProposal(w) = [run[w] EXCEPT !.at = "session", !.pid = n, !.ahead = TRUE, !.patches = ps,
                                       !.session.msgs = m]
  BY <1>1, <1>2 DEF WithProposal, NextProposalId, BridgeRun, BegunSession
<1> HIDE DEF n, ps, m
<1>5. /\ WithProposal(w) \in BridgeRun
      /\ WithProposal(w).session \in BegunSession
      /\ WithProposal(w).session.status = run[w].session.status
      /\ WithProposal(w).session.msgs = m
  <2> DEFINE x == [run[w].session EXCEPT !.msgs = m]
  <2>1. x \in BegunSession /\ x.status = run[w].session.status /\ x.msgs = m
    BY <1>1, <1>3 DEF BegunSession
  <2>2. WithProposal(w) = [run[w] EXCEPT !.at = "session", !.pid = n, !.ahead = TRUE, !.patches = ps,
                                         !.session = x]
    BY <1>4
  <2>3. x \in Session
    BY <2>1 DEF Session
  <2> HIDE DEF x
  <2>4. WithProposal(w) \in BridgeRun /\ WithProposal(w).session = x
    BY <1>1, <1>2, <2>2, <2>3 DEF BridgeRun
  <2>5. QED
    BY <2>1, <2>4
<1>6. \A f \in {"comment", "base", "hurt", "file", "patch", "pr", "told"} : WithProposal(w)[f] = run[w][f]
  BY <1>1, <1>4 DEF BridgeRun
<1>7. /\ WithProposal(w).at = "session" /\ WithProposal(w).pid = n /\ WithProposal(w).ahead = TRUE
      /\ WithProposal(w).patches = ps
  BY <1>1, <1>4 DEF BridgeRun
<1>8. QED
  BY <1>2, <1>3, <1>5, <1>6, <1>7 DEF n, ps

LEMMA SessionSaved ==
    ASSUME BridgeTypeOK, NEW w \in Runs, run[w].at = "session"
    PROVE  LET r == WithSession(w)
           IN  /\ r \in BridgeRun /\ run[w].session \in BegunSession
               /\ r.at = "answer" /\ r.told = Verb(w) /\ r.file = run[w].session
               /\ r.ahead <=> (run[w].ahead \/ run[w].file # run[w].session)
               /\ \A f \in {"comment", "base", "hurt", "session", "patches", "pid", "patch", "pr"} :
                     r[f] = run[w][f]
<1>1. /\ run[w] \in BridgeRun /\ run[w].session \in BegunSession /\ Verb(w) \in Told
      /\ BegunSession \subseteq Session
  BY CommentsAssumption DEF BridgeTypeOK, Threaded, Told, Verb, Session
<1>2. run[w].ahead \in BOOLEAN
  BY <1>1 DEF BridgeRun
<1> DEFINE a == run[w].ahead \/ run[w].file # run[w].session
<1>3. a \in BOOLEAN
  OBVIOUS
<1>4. WithSession(w) = [run[w] EXCEPT !.at = "answer", !.told = Verb(w), !.file = run[w].session, !.ahead = a]
  BY Zenon DEF WithSession
<1> HIDE DEF a
<1>5. WithSession(w) \in BridgeRun
  BY <1>1, <1>3, <1>4 DEF BridgeRun
<1>6. \A f \in {"comment", "base", "hurt", "session", "patches", "pid", "patch", "pr"} :
          WithSession(w)[f] = run[w][f]
  BY <1>1, <1>4 DEF BridgeRun
<1>7. /\ WithSession(w).at = "answer" /\ WithSession(w).told = Verb(w)
      /\ WithSession(w).file = run[w].session /\ WithSession(w).ahead = a
  BY <1>1, <1>4 DEF BridgeRun
<1>8. QED
  BY <1>1, <1>5, <1>6, <1>7 DEF a

LEMMA SaveProposalType ==
    ASSUME RepoOK, BridgeTypeOK, NEW w \in Runs, SaveProposal(w)
    PROVE  RepoOK' /\ BridgeTypeOK'
<1>1. run[w].at = "proposal" /\ Push(w, WithProposal(w)) /\ Numbers' = Numbers /\ marked' \subseteq Threads
  BY DEF SaveProposal, At, WithProposal, Numbers, BridgeTypeOK
<1>2. run[w].comment \in Comments
  BY <1>1 DEF BridgeTypeOK, Threaded
<1>3. RunOK(WithProposal(w), Numbers)
  BY <1>1, <1>2, ProposalSaved DEF RunOK
<1>4. QED
  BY <1>1, <1>3, ProposalSaved, PushType

LEMMA SaveSessionType ==
    ASSUME RepoOK, BridgeTypeOK, NEW w \in Runs, SaveSession(w)
    PROVE  RepoOK' /\ BridgeTypeOK'
<1>1. run[w].at = "session" /\ Push(w, WithSession(w)) /\ Numbers' = Numbers /\ marked' \subseteq Threads
  BY DEF SaveSession, At, WithSession, Numbers, BridgeTypeOK
<1>2. run[w].comment \in Comments
  BY <1>1 DEF BridgeTypeOK, Threaded
<1>3. RunOK(WithSession(w), Numbers)
  BY <1>1, <1>2, SessionSaved DEF RunOK
<1>4. QED
  BY <1>1, <1>3, SessionSaved, PushType

\* What a run applies is one of the proposals of its checkout.
LEMMA ApplyType ==
    ASSUME BridgeTypeOK, NEW w \in Runs, Apply(w)
    PROVE  BridgeTypeOK'
<1>1. /\ run[w].at = "apply" /\ RunOK(run[w], Numbers) /\ run[w].at \in Threaded
      /\ run[w].patches \in Seq(Patches)
      /\ Numbers' = Numbers /\ marked' \subseteq Threads
  BY RunsOK DEF Apply, At, RunOK, BridgeRun, Threaded, Numbers
<1>2. CASE \E text \in Told : Answers(w, text)
  BY <1>1, <1>2, AnswersType
<1>3. CASE Crashes(w)
  BY <1>1, <1>3, CrashesType
<1>4. CASE /\ Picked(w) \in Candidates(w)
           /\ Becomes(w, [run[w] EXCEPT !.at = "branch", !.pid = Picked(w),
                                        !.patch = run[w].patches[Picked(w)]])
  <2>1. Picked(w) \in Nat \ {0} /\ run[w].patches[Picked(w)] \in Patches
    BY <1>1, <1>4, LenProperties, ElementOfSeq DEF Candidates
  <2>2. RunOK([run[w] EXCEPT !.at = "branch", !.pid = Picked(w),
                             !.patch = run[w].patches[Picked(w)]], Numbers')
    BY <1>1, <2>1 DEF RunOK, BridgeRun, Threaded
  <2>3. QED
    BY <1>1, <1>4, <2>2, StepKeepsTypes
<1>5. QED
  <2>1. {"no proposals", "not found", "refused by guardrails", "failed"} \subseteq Told
    BY DEF Told
  <2>2. QED
    BY <1>2, <1>3, <1>4, <2>1 DEF Apply

LEMMA PushBranchType ==
    ASSUME BridgeTypeOK, NEW w \in Runs, PushBranch(w), branches \subseteq [thread : Threads, pid : Nat \ {0}]
    PROVE  /\ BridgeTypeOK' /\ Branch(w) \in [thread : Threads, pid : Nat \ {0}]
           /\ branches' \subseteq [thread : Threads, pid : Nat \ {0}]
<1>1. /\ run[w].at = "branch" /\ RunOK(run[w], Numbers) /\ run[w].at \in Threaded
      /\ run[w].pid \in Nat \ {0} /\ Thread(w) \in Threads
      /\ Numbers' = Numbers /\ marked' \subseteq Threads
  BY RunsOK, CommentsAssumption DEF PushBranch, At, RunOK, BridgeRun, Threaded, Numbers, Thread
<1>2. Branch(w) \in [thread : Threads, pid : Nat \ {0}]
  BY <1>1 DEF Branch
<1>3. CASE Answers(w, "failed") /\ UNCHANGED branches
  <2>1. "failed" \in Told
    BY DEF Told
  <2>2. QED
    BY <1>1, <1>2, <1>3, <2>1, AnswersType
<1>4. CASE branches' = branches \cup {Branch(w)} /\ Goes(w, "pr")
  <2>1. RunOK([run[w] EXCEPT !.at = "pr"], Numbers')
    BY <1>1 DEF RunOK, BridgeRun, Threaded
  <2>2. QED
    BY <1>1, <1>2, <1>4, <2>1, StepKeepsTypes DEF Goes
<1>5. QED
  BY <1>3, <1>4 DEF PushBranch

\* The pull request a run opens.
NewPr(w) == [thread |-> Thread(w), pid |-> run[w].pid, patch |-> run[w].patch,
             labels |-> {}, head |-> [rev |-> 0, secret |-> FALSE]]

\* It gets the next number, and the others keep theirs.
LEMMA PrOpened ==
    ASSUME prs \in Seq(PullRequest), NEW p \in PullRequest, prs' = Append(prs, p)
    PROVE  /\ prs' \in Seq(PullRequest) /\ Numbers' = Numbers \cup {Len(prs) + 1}
           /\ Len(prs) + 1 \notin Numbers /\ prs'[Len(prs) + 1] = p
           /\ \A n \in Numbers : prs'[n] = prs[n]
<1>1. Len(prs) \in Nat /\ Numbers = 1..Len(prs)
  BY LenProperties DEF Numbers
<1>2. prs' \in Seq(PullRequest) /\ Len(prs') = Len(prs) + 1 /\ Numbers' = 1..Len(prs')
  BY BeginsAppended, LenProperties DEF Numbers
<1>3. prs'[Len(prs) + 1] = p /\ \A n \in 1..Len(prs) : prs'[n] = prs[n]
  BY BeginsAppended
<1>4. QED
  BY <1>1, <1>2, <1>3

LEMMA OpenPrType ==
    ASSUME BridgeTypeOK, prs \in Seq(PullRequest), NEW w \in Runs, OpenPr(w)
    PROVE  BridgeTypeOK' /\ prs' \in Seq(PullRequest) /\ Numbers \subseteq Numbers'
<1>1. /\ run[w].at = "pr" /\ RunOK(run[w], Numbers) /\ run[w].at \in Threaded
      /\ run[w].pid \in Nat /\ run[w].patch \in Patches /\ Thread(w) \in Threads
      /\ marked' \subseteq Threads
  BY RunsOK, CommentsAssumption DEF OpenPr, At, RunOK, BridgeRun, Threaded, Thread, BridgeTypeOK
<1>2. CASE Crashes(w) /\ UNCHANGED prs
  BY <1>1, <1>2, CrashesType DEF Numbers
<1>3. CASE /\ prs' = Append(prs, NewPr(w))
           /\ Becomes(w, [run[w] EXCEPT !.at = "label", !.pr = Len(prs) + 1])
  <2>1. NewPr(w) \in PullRequest
    BY <1>1 DEF NewPr, PullRequest, PrHead
  <2>2. prs' \in Seq(PullRequest) /\ Numbers' = Numbers \cup {Len(prs) + 1}
    BY <1>3, <2>1, PrOpened
  <2>3. Len(prs) + 1 \in Nat
    BY LenProperties
  <2>4. RunOK([run[w] EXCEPT !.at = "label", !.pr = Len(prs) + 1], Numbers')
    BY <1>1, <2>2, <2>3 DEF RunOK, BridgeRun, Threaded
  <2>5. QED
    BY <1>1, <1>3, <2>2, <2>4, StepKeepsTypes
<1>4. QED
  BY <1>2, <1>3 DEF OpenPr, NewPr

\* Labels are only added, and nothing else of a pull request changes.
LEMMA PrLabelled ==
    ASSUME prs \in Seq(PullRequest), NEW n \in Numbers, NEW labels \in SUBSET Labels, WithLabels(n, labels)
    PROVE  /\ prs' \in Seq(PullRequest) /\ Numbers' = Numbers
           /\ \A k \in Numbers : /\ prs'[k].thread = prs[k].thread /\ prs'[k].pid = prs[k].pid
                                 /\ prs'[k].patch = prs[k].patch
                                 /\ prs'[k].labels = prs[k].labels \cup (IF k = n THEN labels ELSE {})
<1> DEFINE p == [prs[n] EXCEPT !.labels = @ \cup labels]
<1>1. n \in 1..Len(prs) /\ Numbers = 1..Len(prs) /\ \A k \in Numbers : prs[k] \in PullRequest
  BY LenProperties, ElementOfSeq DEF Numbers
<1>2. /\ p \in PullRequest /\ p.thread = prs[n].thread /\ p.pid = prs[n].pid /\ p.patch = prs[n].patch
      /\ p.labels = prs[n].labels \cup labels
  BY <1>1 DEF PullRequest
<1>3. prs' = [prs EXCEPT ![n] = p]
  BY DEF WithLabels
<1> HIDE DEF p
<1>4. /\ prs' \in Seq(PullRequest) /\ Len(prs') = Len(prs)
      /\ \A k \in 1..Len(prs) : prs'[k] = IF k = n THEN p ELSE prs[k]
  BY <1>1, <1>2, <1>3, ExceptSeq
<1>5. Numbers' = Numbers
  BY <1>1, <1>4, LenProperties DEF Numbers
<1>6. QED
  BY <1>1, <1>2, <1>4, <1>5

LEMMA LabelPrType ==
    ASSUME BridgeTypeOK, prs \in Seq(PullRequest), NEW w \in Runs, LabelPr(w)
    PROVE  BridgeTypeOK' /\ prs' \in Seq(PullRequest) /\ Numbers' = Numbers
<1>1. /\ run[w].at = "label" /\ run[w].at \in Threaded /\ run[w].pr \in Numbers /\ "apply" \in Told
      /\ marked' \subseteq Threads
  BY DEF LabelPr, At, Threaded, BridgeTypeOK, Told, Verbs
<1>2. prs' \in Seq(PullRequest) /\ Numbers' = Numbers
  <2>1. CASE UNCHANGED prs
    BY <2>1 DEF Numbers
  <2>2. CASE WithLabels(run[w].pr, {"codex-proposal", "needs-human-review"})
    <3>1. {"codex-proposal", "needs-human-review"} \in SUBSET Labels
      BY DEF Labels
    <3>2. QED
      BY <1>1, <2>2, <3>1, PrLabelled
  <2>3. QED
    BY <2>1, <2>2 DEF LabelPr
<1>3. Answers(w, "apply") \/ Crashes(w)
  BY DEF LabelPr
<1>4. QED
  BY <1>1, <1>2, <1>3, AnswersType, CrashesType

LEMMA RespondType ==
    ASSUME BridgeTypeOK, NEW w \in Runs, Respond(w)
    PROVE  BridgeTypeOK'
<1>1. /\ run[w].at = "answer" /\ RunOK(run[w], Numbers) /\ run[w].at \in Threaded
      /\ Numbers' = Numbers /\ marked' \subseteq Threads
  BY RunsOK DEF Respond, At, RunOK, Threaded, Numbers
<1>2. CASE Completes(w)
  <2> DEFINE r == run[w]
             q == [Idle EXCEPT !.comment = r.comment, !.at = "answered", !.told = r.told,
                               !.pid = r.pid, !.patch = r.patch, !.hurt = r.hurt]
  <2>1. /\ r.comment \in Comments /\ r.told \in Told /\ r.pid \in Nat
        /\ r.patch \in Patches \cup {NoPatch} /\ r.hurt \in BOOLEAN
    BY <1>1 DEF RunOK, BridgeRun
  <2>2. q \in BridgeRun /\ q.at = "answered" /\ q.comment = r.comment
    BY <2>1, IdleOK DEF RunOK, BridgeRun
  <2> HIDE DEF q
  <2>3. RunOK(q, Numbers')
    BY <2>1, <2>2 DEF RunOK, Threaded
  <2>4. QED
    BY <1>1, <1>2, <2>3, StepKeepsTypes DEF Completes, q
<1>3. CASE Crashes(w)
  BY <1>1, <1>3, CrashesType
<1>4. QED
  BY <1>2, <1>3 DEF Respond

-----------------------------------------------------------------------------
(* Types of the reviewer *)

RevOK(r, numbers) ==
    /\ r \in ReviewRun
    /\ r.at # "idle" => r.call \in Requests /\ r.call.pr \in numbers
    /\ r.at \in {"scan", "files", "llm"} => r.seen.diff \in PrHead
    /\ r.at = "llm" => r.seen.files \in PrHead
    /\ r.at \in {"post", "mark", "save"} => r.seen.review \in Critiques

Reviewed(numbers) == [pr : numbers, by : Reviews, text : {Refusal} \cup Critiques]

LEMMA RevsOK == ReviewerTypeOK <=> /\ DOMAIN cache \subseteq Numbers /\ \A n \in DOMAIN cache : cache[n] \in Inputs
                                   /\ saved \cup posted \subseteq Reviewed(Numbers)
                                   /\ DOMAIN rev = Reviews /\ rev = [v \in Reviews |-> rev[v]]
                                   /\ \A v \in Reviews : RevOK(rev[v], Numbers)
BY DEF ReviewerTypeOK, RevOK, Reviewed, Call

LEMMA FreshOK == Fresh \in Inputs
BY DEF Fresh, Inputs

LEMMA FrozenOK == ReviewerTypeOK => \A n : Frozen(n) \in Inputs
BY FreshOK DEF Frozen, ReviewerTypeOK

LEMMA UnstartedOK ==
    ASSUME NEW numbers
    PROVE  RevOK(Unstarted, numbers)
BY FreshOK DEF Unstarted, RevOK, ReviewRun

LEMMA RevMoves ==
    ASSUME ReviewerTypeOK, NEW v \in Reviews, NEW r, rev' = [rev EXCEPT ![v] = r]
    PROVE  /\ rev'[v] = r /\ DOMAIN rev' = Reviews /\ rev' = [u \in Reviews |-> rev'[u]]
           /\ \A u \in Reviews \ {v} : rev'[u] = rev[u]
BY RevsOK

\* The types of the reviewer after a step of a run.
LEMMA ReviewStepKeepsTypes ==
    ASSUME ReviewerTypeOK, NEW v \in Reviews, NEW r, rev' = [rev EXCEPT ![v] = r], RevOK(r, Numbers),
           Numbers' = Numbers, DOMAIN cache' \subseteq Numbers, \A n \in DOMAIN cache' : cache'[n] \in Inputs,
           saved' \cup posted' \subseteq Reviewed(Numbers)
    PROVE  ReviewerTypeOK'
<1>1. \A u \in Reviews : RevOK(rev'[u], Numbers')
  BY RevMoves, RevsOK
<1>2. QED
  BY <1>1, RevMoves DEF ReviewerTypeOK, RevOK, Reviewed, Call

\* The types of the reviewer after a step of another actor.
LEMMA ReviewerKeepsTypes ==
    ASSUME ReviewerTypeOK, UNCHANGED <<cache, posted, saved, rev>>, Numbers \subseteq Numbers'
    PROVE  ReviewerTypeOK'
<1>1. Reviewed(Numbers) \subseteq Reviewed(Numbers')
  BY DEF Reviewed
<1>2. QED
  BY <1>1, RevsOK DEF ReviewerTypeOK, RevOK, Reviewed, Call

LEMMA ExitType ==
    ASSUME ReviewerTypeOK, NEW v \in Reviews, NEW code \in {"0", "2", "3"}, Exit(v, code),
           rev[v].at # "idle",
           Numbers' = Numbers, UNCHANGED cache, saved' \cup posted' \subseteq Reviewed(Numbers)
    PROVE  ReviewerTypeOK'
<1>1. RevOK([Unstarted EXCEPT !.call = Call(v), !.at = code], Numbers)
  BY UnstartedOK, RevsOK DEF RevOK, ReviewRun, Call
<1>2. QED
  BY <1>1, RevsOK, ReviewStepKeepsTypes DEF Exit

LEMMA GoesType ==
    ASSUME ReviewerTypeOK, NEW v \in Reviews, NEW step, RGoes(v, step),
           RevOK([rev[v] EXCEPT !.at = step], Numbers),
           Numbers' = Numbers, UNCHANGED cache, saved' \cup posted' \subseteq Reviewed(Numbers)
    PROVE  ReviewerTypeOK'
BY RevsOK, ReviewStepKeepsTypes DEF RGoes

LEMMA PrTypes ==
    ASSUME prs \in Seq(PullRequest)
    PROVE  \A n \in Numbers : prs[n] \in PullRequest /\ prs[n].head \in PrHead /\ prs[n].head.rev \in Nat
<1>1. \A n \in Numbers : prs[n] \in PullRequest
  BY LenProperties, ElementOfSeq DEF Numbers
<1>2. QED
  BY <1>1 DEF PullRequest, PrHead

LEMMA RStartType ==
    ASSUME ReviewerTypeOK, RepoOK, prs \in Seq(PullRequest), NEW v \in Reviews, NEW c \in Requests, RStart(v, c)
    PROVE  ReviewerTypeOK'
<1> DEFINE code == IF Ignored /\ ~Quiet(c) THEN "2" ELSE "label"
           r == [Unstarted EXCEPT !.call = c, !.base = repo.rev, !.head = prs[c.pr].head.rev, !.at = code]
<1>1. c.pr \in Numbers /\ prs[c.pr].head.rev \in Nat /\ repo.rev \in Nat /\ code \in {"2", "label"}
  <2>1. c.pr \in Numbers /\ code \in {"2", "label"}
    BY DEF RStart
  <2>2. QED
    BY <2>1, RepoType, PrTypes
<1> HIDE DEF code
<1>2. RevOK(r, Numbers)
  BY <1>1, UnstartedOK DEF RevOK, ReviewRun
<1>3. rev' = [rev EXCEPT ![v] = r] /\ Numbers' = Numbers /\ UNCHANGED <<cache, posted, saved>>
  BY DEF RStart, code, Numbers
<1> HIDE DEF r
<1>4. QED
  BY <1>2, <1>3, RevsOK, ReviewStepKeepsTypes

LEMMA LabelGateType ==
    ASSUME ReviewerTypeOK, NEW v \in Reviews, LabelGate(v)
    PROVE  ReviewerTypeOK'
<1>1. rev[v].at = "label" /\ Numbers' = Numbers /\ UNCHANGED <<cache, posted, saved>> /\ RevOK(rev[v], Numbers)
  BY RevsOK DEF LabelGate, RAt, Numbers
<1>2. CASE \E code \in {"0", "2"} : Exit(v, code)
  BY <1>1, <1>2, ExitType, RevsOK
<1>3. CASE RGoes(v, "pr")
  <2>1. RevOK([rev[v] EXCEPT !.at = "pr"], Numbers)
    BY <1>1 DEF RevOK, ReviewRun
  <2>2. QED
    BY <1>1, <1>3, <2>1, GoesType, RevsOK
<1>4. QED
  BY <1>2, <1>3 DEF LabelGate

\* What a run reads, it reads from the clone or from GitHub.
LEMMA LoadType ==
    ASSUME ReviewerTypeOK, prs \in Seq(PullRequest), NEW v \in Reviews,
           NEW field \in {"pr", "diff", "files"}, NEW next \in {"2", "diff", "scan", "llm"},
           rev[v].at # "idle", Load(v, field, next), UNCHANGED <<prs, posted, saved>>,
           next = "scan" => field = "diff",
           next = "llm" => field = "files" /\ rev[v].seen.diff \in PrHead
    PROVE  ReviewerTypeOK'
<1> DEFINE n == Call(v).pr
<1>1. /\ n \in Numbers /\ RevOK(rev[v], Numbers) /\ Numbers' = Numbers
      /\ saved' \cup posted' \subseteq Reviewed(Numbers) /\ prs[n].head \in PrHead
      /\ Frozen(n) \in Inputs /\ rev[v].seen \in Inputs /\ rev[v].call \in Requests
  <2>1. n \in Numbers /\ RevOK(rev[v], Numbers) /\ rev[v].seen \in Inputs /\ rev[v].call \in Requests
    BY RevsOK DEF RevOK, Call, ReviewRun
  <2>2. Numbers' = Numbers /\ saved' \cup posted' \subseteq Reviewed(Numbers)
    BY RevsOK DEF Numbers
  <2>3. QED
    BY <2>1, <2>2, FrozenOK, PrTypes
<1>2. \A x \in PrHead : [rev[v].seen EXCEPT ![field] = x] \in Inputs
  BY <1>1 DEF Inputs
<1>3. \A x \in PrHead : next # "2" => RevOK([rev[v] EXCEPT !.seen[field] = x, !.at = next], Numbers)
  <2> SUFFICES ASSUME NEW x \in PrHead, next # "2"
               PROVE  RevOK([rev[v] EXCEPT !.seen[field] = x, !.at = next], Numbers)
    OBVIOUS
  <2> DEFINE s == [rev[v].seen EXCEPT ![field] = x]
             r == [rev[v] EXCEPT !.seen = s, !.at = next]
  <2>1. s \in Inputs /\ s[field] = x /\ (field # "diff" => s.diff = rev[v].seen.diff)
    BY <1>1, <1>2 DEF Inputs
  <2> HIDE DEF s
  <2>2. r \in ReviewRun /\ r.at = next /\ r.seen = s /\ r.call = rev[v].call
    BY <1>1, <2>1 DEF RevOK, ReviewRun
  <2>3. RevOK(r, Numbers)
    BY <1>1, <2>1, <2>2 DEF RevOK, Call
  <2>4. QED
    BY <2>3 DEF s
<1>4. ASSUME NEW x \in PrHead,
             IF next = "2" THEN Exit(v, next) ELSE rev' = [rev EXCEPT ![v].seen[field] = x, ![v].at = next],
             DOMAIN cache' \subseteq Numbers, \A k \in DOMAIN cache' : cache'[k] \in Inputs
      PROVE  ReviewerTypeOK'
  <2>1. CASE next = "2"
    <3>1. RevOK([Unstarted EXCEPT !.call = Call(v), !.at = "2"], Numbers)
      BY <1>1, UnstartedOK DEF RevOK, ReviewRun, Call
    <3>2. QED
      BY <1>1, <1>4, <2>1, <3>1, ReviewStepKeepsTypes DEF Exit
  <2>2. CASE next # "2"
    <3>1. rev' = [rev EXCEPT ![v] = [rev[v] EXCEPT !.seen[field] = x, !.at = next]]
      BY <1>4, <2>2, RevsOK
    <3>2. QED
      BY <1>1, <1>3, <1>4, <2>2, <3>1, ReviewStepKeepsTypes
  <2>3. QED
    BY <2>1, <2>2
<1>5. CASE \E x \in PrHead :
              /\ IF next = "2" THEN Exit(v, next) ELSE rev' = [rev EXCEPT ![v].seen[field] = x, ![v].at = next]
              /\ UNCHANGED cache
  BY <1>4, <1>5, RevsOK
<1>6. CASE /\ IF next = "2" THEN Exit(v, next)
              ELSE rev' = [rev EXCEPT ![v].seen[field] = prs[n].head, ![v].at = next]
           /\ Freeze(n, field, prs[n].head)
  <2>1. [Frozen(n) EXCEPT ![field] = prs[n].head] \in Inputs
    BY <1>1 DEF Inputs
  <2>2. DOMAIN cache' \subseteq Numbers /\ \A k \in DOMAIN cache' : cache'[k] \in Inputs
    BY <1>1, <1>6, <2>1, RevsOK DEF Freeze
  <2>3. QED
    BY <1>1, <1>4, <1>6, <2>2
<1>7. CASE Exit(v, "2") /\ UNCHANGED cache
  BY <1>1, <1>7, ExitType, RevsOK
<1>8. Frozen(n)[field] # Nothing => Frozen(n)[field] \in PrHead
  BY <1>1 DEF Inputs
<1>9. QED
  BY <1>1, <1>5, <1>6, <1>7, <1>8 DEF Load

LEMMA LoadsType ==
    ASSUME ReviewerTypeOK, prs \in Seq(PullRequest), NEW v \in Reviews, LoadPr(v) \/ LoadDiff(v) \/ LoadFiles(v)
    PROVE  ReviewerTypeOK'
<1>1. CASE LoadPr(v)
  <2> DEFINE next == IF Unsafe(Call(v)) THEN "2" ELSE "diff"
  <2>1. next \in {"2", "diff"} /\ Load(v, "pr", next) /\ rev[v].at # "idle" /\ UNCHANGED <<prs, posted, saved>>
    BY <1>1 DEF LoadPr, RAt
  <2> HIDE DEF next
  <2>2. QED
    BY <2>1, LoadType
<1>2. CASE LoadDiff(v)
  <2>1. Load(v, "diff", "scan") /\ rev[v].at # "idle" /\ UNCHANGED <<prs, posted, saved>>
    BY <1>2 DEF LoadDiff, RAt
  <2>2. QED
    BY <2>1, LoadType
<1>3. CASE LoadFiles(v)
  <2>1. /\ Load(v, "files", "llm") /\ rev[v].at = "files" /\ rev[v].seen.diff \in PrHead
        /\ UNCHANGED <<prs, posted, saved>>
    BY <1>3 DEF LoadFiles, RAt, ReviewerTypeOK
  <2>2. QED
    BY <2>1, LoadType
<1>4. QED
  BY <1>1, <1>2, <1>3

LEMMA ScanType ==
    ASSUME ReviewerTypeOK, NEW v \in Reviews, Scan(v)
    PROVE  ReviewerTypeOK'
<1>1. /\ rev[v].at = "scan" /\ RevOK(rev[v], Numbers) /\ Numbers' = Numbers /\ UNCHANGED <<cache, saved>>
      /\ Call(v).pr \in Numbers
  BY RevsOK DEF Scan, RAt, Numbers, RevOK, Call
<1>2. [pr |-> Call(v).pr, by |-> v, text |-> Refusal] \in Reviewed(Numbers)
  BY <1>1 DEF Reviewed
<1>3. saved' \cup posted' \subseteq Reviewed(Numbers)
  BY <1>1, <1>2, RevsOK DEF Scan
<1>4. CASE \E code \in {"0", "2"} : Exit(v, code)
  BY <1>1, <1>3, <1>4, ExitType
<1>5. CASE RGoes(v, "files")
  <2>1. RevOK([rev[v] EXCEPT !.at = "files"], Numbers)
    BY <1>1 DEF RevOK, ReviewRun
  <2>2. QED
    BY <1>1, <1>3, <1>5, <2>1, GoesType
<1>6. QED
  BY <1>4, <1>5 DEF Scan

LEMMA CritiqueType ==
    ASSUME ReviewerTypeOK, NEW v \in Reviews, rev[v].at = "llm"
    PROVE  Critique(v) \in Critiques /\ Critique(v) # Nothing
<1>1. rev[v].seen.diff \in PrHead /\ rev[v].seen.files \in PrHead
  BY DEF ReviewerTypeOK
<1>2. Critique(v) \in Critiques
  BY <1>1 DEF Critique, Critiques
<1>3. QED
  BY <1>2, NothingAssumption

\* ReviewByLlm: the run has a critique, which was frozen, is now, or is not kept;
\* or the model did not give one.
Has(v, x) == rev' = [rev EXCEPT ![v].seen.review = x, ![v].at = "post"]
Keeps(v) == FreezeReview(Call(v)) /\ Local(Call(v))
LEMMA LlmSteps ==
    ASSUME NEW v \in Reviews, ReviewByLlm(v)
    PROVE  LET n == Call(v).pr
           IN  /\ rev[v].at = "llm" /\ UNCHANGED <<repo, branches, prs, posted, saved>>
               /\ \/ Keeps(v) /\ Frozen(n).review # Nothing /\ Has(v, Frozen(n).review) /\ UNCHANGED cache
                  \/ Keeps(v) /\ Frozen(n).review = Nothing /\ Has(v, Critique(v)) /\ Freeze(n, "review", Critique(v))
                  \/ ~Keeps(v) /\ Has(v, Critique(v)) /\ UNCHANGED cache
                  \/ (Exit(v, "0") \/ Exit(v, "3")) /\ UNCHANGED cache
BY DEF ReviewByLlm, RAt, Has, Keeps

LEMMA LlmType ==
    ASSUME ReviewerTypeOK, NEW v \in Reviews, ReviewByLlm(v)
    PROVE  ReviewerTypeOK'
<1> DEFINE n == Call(v).pr
<1>1. /\ rev[v].at = "llm" /\ RevOK(rev[v], Numbers) /\ Numbers' = Numbers /\ n \in Numbers
      /\ saved' \cup posted' \subseteq Reviewed(Numbers)
      /\ Critique(v) \in Critiques /\ Frozen(n) \in Inputs
  BY LlmSteps, CritiqueType, FrozenOK, RevsOK DEF Numbers, RevOK, Call
<1>2. ASSUME NEW x \in Critiques, Has(v, x), DOMAIN cache' \subseteq Numbers,
             \A k \in DOMAIN cache' : cache'[k] \in Inputs
      PROVE  ReviewerTypeOK'
  <2> DEFINE s == [rev[v].seen EXCEPT !.review = x]
  <2>1. s \in Inputs /\ s.review = x
    BY <1>1 DEF Inputs, RevOK, ReviewRun
  <2>2. rev' = [rev EXCEPT ![v] = [rev[v] EXCEPT !.seen = s, !.at = "post"]]
    BY <1>2, RevsOK DEF Has
  <2> HIDE DEF s
  <2>3. RevOK([rev[v] EXCEPT !.seen = s, !.at = "post"], Numbers)
    BY <1>1, <2>1 DEF RevOK, ReviewRun
  <2>4. QED
    BY <1>1, <1>2, <2>2, <2>3, ReviewStepKeepsTypes
<1>3. CASE \E x \in Critiques : Has(v, x) /\ UNCHANGED cache
  BY <1>2, <1>3, RevsOK
<1>4. CASE Has(v, Critique(v)) /\ Freeze(n, "review", Critique(v))
  <2>1. [Frozen(n) EXCEPT !["review"] = Critique(v)] \in Inputs
    BY <1>1 DEF Inputs
  <2>2. DOMAIN cache' \subseteq Numbers /\ \A k \in DOMAIN cache' : cache'[k] \in Inputs
    BY <1>1, <1>4, <2>1, RevsOK DEF Freeze
  <2>3. QED
    BY <1>1, <1>2, <1>4, <2>2
<1>5. CASE (Exit(v, "0") \/ Exit(v, "3")) /\ UNCHANGED cache
  BY <1>1, <1>5, ExitType
<1>6. Frozen(n).review # Nothing => Frozen(n).review \in Critiques
  BY <1>1 DEF Inputs
<1>7. QED
  BY <1>1, <1>3, <1>4, <1>5, <1>6, LlmSteps

LEMMA ReviewType ==
    ASSUME ReviewerTypeOK, NEW v \in Reviews, rev[v].at \in {"post", "mark", "save"}
    PROVE  Review(v) \in Reviewed(Numbers) /\ Review(v).text # Refusal
<1>1. rev[v].seen.review \in Critiques /\ Call(v).pr \in Numbers
  BY DEF ReviewerTypeOK
<1>2. Review(v) \in Reviewed(Numbers)
  BY <1>1 DEF Review, Reviewed
<1>3. Review(v).text.kind = "critique" /\ Refusal.kind = "refused"
  BY <1>1 DEF Review, Critiques, Refusal
<1>4. QED
  BY <1>2, <1>3

LEMMA PostType ==
    ASSUME ReviewerTypeOK, NEW v \in Reviews, Post(v)
    PROVE  ReviewerTypeOK'
<1>1. /\ rev[v].at = "post" /\ RevOK(rev[v], Numbers) /\ Numbers' = Numbers /\ UNCHANGED <<cache, saved>>
  BY RevsOK DEF Post, RAt, Numbers
<1>2. saved' \cup posted' \subseteq Reviewed(Numbers)
  BY <1>1, RevsOK, ReviewType DEF Post
<1>3. CASE Exit(v, "2")
  BY <1>1, <1>2, <1>3, ExitType
<1>4. CASE RGoes(v, "mark")
  <2>1. RevOK([rev[v] EXCEPT !.at = "mark"], Numbers)
    BY <1>1 DEF RevOK, ReviewRun
  <2>2. QED
    BY <1>1, <1>2, <1>4, <2>1, GoesType
<1>5. QED
  BY <1>3, <1>4 DEF Post

LEMMA MarkType ==
    ASSUME ReviewerTypeOK, prs \in Seq(PullRequest), NEW v \in Reviews, MarkReviewed(v)
    PROVE  ReviewerTypeOK' /\ prs' \in Seq(PullRequest) /\ Numbers' = Numbers
<1>1. /\ rev[v].at = "mark" /\ RevOK(rev[v], Numbers) /\ UNCHANGED <<cache, posted, saved>>
      /\ Call(v).pr \in Numbers /\ saved' \cup posted' \subseteq Reviewed(Numbers)
  BY RevsOK DEF MarkReviewed, RAt, RevOK, Call
<1>2. prs' \in Seq(PullRequest) /\ Numbers' = Numbers
  <2>1. CASE UNCHANGED prs
    BY <2>1 DEF Numbers
  <2>2. CASE WithLabels(Call(v).pr, {"codex-reviewed"})
    BY <1>1, <2>2, PrLabelled DEF Labels
  <2>3. QED
    BY <2>1, <2>2 DEF MarkReviewed
<1>3. CASE Exit(v, "3")
  BY <1>1, <1>2, <1>3, ExitType
<1>4. CASE RGoes(v, "save")
  <2>1. RevOK([rev[v] EXCEPT !.at = "save"], Numbers)
    BY <1>1 DEF RevOK, ReviewRun
  <2>2. QED
    BY <1>1, <1>2, <1>4, <2>1, GoesType
<1>5. QED
  BY <1>2, <1>3, <1>4 DEF MarkReviewed

\* A commit pushed to a pull request.
LEMMA HeadMoved ==
    ASSUME prs \in Seq(PullRequest), NEW n \in Numbers, NEW h \in PrHead, prs' = [prs EXCEPT ![n].head = h]
    PROVE  /\ prs' \in Seq(PullRequest) /\ Numbers' = Numbers
           /\ \A k \in Numbers : /\ prs'[k].thread = prs[k].thread /\ prs'[k].pid = prs[k].pid
                                 /\ prs'[k].patch = prs[k].patch /\ prs'[k].labels = prs[k].labels
<1> DEFINE p == [prs[n] EXCEPT !.head = h]
<1>1. n \in 1..Len(prs) /\ Numbers = 1..Len(prs) /\ \A k \in Numbers : prs[k] \in PullRequest
  BY LenProperties, ElementOfSeq DEF Numbers
<1>2. /\ p \in PullRequest /\ p.thread = prs[n].thread /\ p.pid = prs[n].pid /\ p.patch = prs[n].patch
      /\ p.labels = prs[n].labels
  BY <1>1 DEF PullRequest
<1>3. prs' = [prs EXCEPT ![n] = p]
  OBVIOUS
<1> HIDE DEF p
<1>4. /\ prs' \in Seq(PullRequest) /\ Len(prs') = Len(prs)
      /\ \A k \in 1..Len(prs) : prs'[k] = IF k = n THEN p ELSE prs[k]
  BY <1>1, <1>2, <1>3, ExceptSeq
<1>5. Numbers' = Numbers
  BY <1>1, <1>4, LenProperties DEF Numbers
<1>6. QED
  BY <1>1, <1>2, <1>4, <1>5

\* What a saved review does to the default branch and to the pull requests.
LEMMA SaveReviewSteps ==
    ASSUME ReviewerTypeOK, RepoOK, prs \in Seq(PullRequest), NEW v \in Reviews, SaveReview(v)
    PROVE  /\ RepoOK' /\ prs' \in Seq(PullRequest) /\ Numbers' = Numbers
           /\ \/ UNCHANGED repo
              \/ repo' = [repo EXCEPT !.rev = @ + 1]
           /\ \A k \in Numbers : /\ prs'[k].thread = prs[k].thread /\ prs'[k].pid = prs[k].pid
                                 /\ prs'[k].patch = prs[k].patch /\ prs'[k].labels = prs[k].labels
           /\ rev[v].at = "save" /\ UNCHANGED <<branches, cache, posted>>
           /\ saved' = saved \/ saved' = saved \cup {Review(v)}
           /\ \E code \in {"0", "3"} : Exit(v, code)
<1> DEFINE c == Call(v)
           h == [prs[c.pr].head EXCEPT !.rev = @ + 1]
<1>1. rev[v].at = "save" /\ c.pr \in Numbers /\ h \in PrHead
  <2>1. rev[v].at = "save" /\ c.pr \in Numbers
    BY DEF SaveReview, RAt, ReviewerTypeOK
  <2>2. prs[c.pr].head \in PrHead
    BY <2>1, PrTypes
  <2>3. QED
    BY <2>1, <2>2 DEF PrHead
<1>2. /\ UNCHANGED <<branches, cache, posted>>
      /\ saved' = saved \/ saved' = saved \cup {Review(v)}
      /\ \E code \in {"0", "3"} : Exit(v, code)
  BY DEF SaveReview
<1>3. \/ UNCHANGED repo
      \/ repo' = [repo EXCEPT !.rev = @ + 1]
  BY DEF SaveReview
<1>4. RepoOK'
  <2>1. CASE UNCHANGED repo
    BY <2>1 DEF RepoOK
  <2>2. CASE repo' = [repo EXCEPT !.rev = @ + 1]
    <3>1. /\ repo.rev + 1 \in Nat /\ repo.sessions \in [Threads -> Session]
          /\ repo.patches \in [Threads -> Seq(Patches)]
      BY DEF RepoOK
    <3>2. repo' = [rev |-> repo.rev + 1, sessions |-> repo.sessions, patches |-> repo.patches]
      BY <2>2 DEF RepoOK
    <3>3. QED
      BY <3>1, <3>2 DEF RepoOK
  <2>3. QED
    BY <1>3, <2>1, <2>2
<1>5. CASE UNCHANGED prs
  BY <1>1, <1>2, <1>3, <1>4, <1>5 DEF Numbers
<1>6. CASE prs' = [prs EXCEPT ![c.pr].head.rev = @ + 1]
  <2>1. prs' = [prs EXCEPT ![c.pr].head = h]
    BY <1>6
  <2> HIDE DEF h
  <2>2. QED
    BY <1>1, <1>2, <1>3, <1>4, <2>1, HeadMoved
<1>7. QED
  BY <1>5, <1>6 DEF SaveReview

LEMMA SaveReviewType ==
    ASSUME ReviewerTypeOK, RepoOK, prs \in Seq(PullRequest), NEW v \in Reviews, SaveReview(v)
    PROVE  ReviewerTypeOK'
<1>1. rev[v].at = "save" /\ Numbers' = Numbers /\ UNCHANGED <<cache, posted>>
  BY SaveReviewSteps
<1>2. saved' \cup posted' \subseteq Reviewed(Numbers)
  BY <1>1, SaveReviewSteps, RevsOK, ReviewType
<1>3. QED
  BY <1>1, <1>2, SaveReviewSteps, ExitType

\* What the author of a pull request pushes.
LEMMA PushHeadSteps ==
    ASSUME prs \in Seq(PullRequest), NEW n \in Numbers, PushHead(n)
    PROVE  /\ prs' \in Seq(PullRequest) /\ Numbers' = Numbers
           /\ \A k \in Numbers : /\ prs'[k].thread = prs[k].thread /\ prs'[k].pid = prs[k].pid
                                 /\ prs'[k].patch = prs[k].patch /\ prs'[k].labels = prs[k].labels
<1>1. PICK secret \in BOOLEAN : prs' = [prs EXCEPT ![n].head = [rev |-> @.rev + 1, secret |-> secret]]
  BY DEF PushHead
<1> DEFINE h == [rev |-> prs[n].head.rev + 1, secret |-> secret]
<1>2. h \in PrHead
  <2>1. prs[n].head.rev \in Nat
    BY PrTypes
  <2>2. QED
    BY <2>1 DEF PrHead
<1>3. prs' = [prs EXCEPT ![n].head = h]
  BY <1>1
<1> HIDE DEF h
<1>4. QED
  BY <1>2, <1>3, HeadMoved

-----------------------------------------------------------------------------
(* Every variable has its type *)

BranchesOK == branches \subseteq [thread : Threads, pid : Nat \ {0}]

LEMMA Types == TypeOK <=> RepoOK /\ BranchesOK /\ prs \in Seq(PullRequest) /\ BridgeTypeOK /\ ReviewerTypeOK
BY DEF TypeOK, RepoOK, BranchesOK

LEMMA RepoTypesNext == TypeOK' => RepoOK'
BY DEF TypeOK, RepoOK

LEMMA InitTypes == Init => TypeOK
<1> SUFFICES ASSUME Init PROVE TypeOK
  OBVIOUS
<1> DEFINE ss == [t \in Threads |-> NoSession]
<1>1. RepoOK
  <2>1. ss \in [Threads -> Session]
    BY DEF Session
  <2>2. repo = [rev |-> 0, sessions |-> ss, patches |-> EarlierPatches]
    BY DEF Init, RepoInit
  <2> HIDE DEF ss
  <2>3. QED
    BY <2>1, <2>2, EarlierAssumption DEF RepoOK
<1>2. BranchesOK /\ prs \in Seq(PullRequest)
  BY EarlierAssumption DEF Init, RepoInit, BranchesOK
<1>3. BridgeTypeOK
  <2>1. \A w \in Runs : RunOK(run[w], Numbers)
    BY IdleOK DEF Init, BridgeInit
  <2>2. marked \subseteq Threads /\ DOMAIN run = Runs /\ run = [w \in Runs |-> run[w]]
    BY DEF Init, BridgeInit
  <2>3. QED
    BY <2>1, <2>2, RunsOK
<1>4. ReviewerTypeOK
  <2>1. \A v \in Reviews : RevOK(rev[v], Numbers)
    BY UnstartedOK DEF Init, ReviewerInit
  <2>2. /\ DOMAIN rev = Reviews /\ rev = [v \in Reviews |-> rev[v]]
        /\ saved \cup posted \subseteq Reviewed(Numbers)
        /\ cache = <<>>
    BY DEF Init, ReviewerInit
  <2>3. DOMAIN cache = {}
    BY <2>2
  <2>4. QED
    BY <2>1, <2>2, <2>3, RevsOK
<1>5. QED
  BY <1>1, <1>2, <1>3, <1>4, Types

\* One step for each action of the bridge.
LEMMA BridgeTypes ==
    ASSUME TypeOK, NEW w \in Runs, Bridge(w)
    PROVE  TypeOK'
<1> USE Types
<1>1. ASSUME RepoOK', BranchesOK', prs' \in Seq(PullRequest), BridgeTypeOK', Numbers \subseteq Numbers'
      PROVE  TypeOK'
  BY <1>1, ReviewerKeepsTypes DEF Bridge, TypeOK, RepoOK, BranchesOK
<1>2. ASSUME NEW c \in Comments, Start(w, c)
      PROVE  TypeOK'
  BY <1>1, <1>2, StartType DEF Start, RepoOK, BranchesOK, Numbers
<1>3. CASE Gate(w)
  BY <1>1, <1>3, GateType DEF Gate, RepoOK, BranchesOK, Numbers
<1>4. CASE CallLlm(w)
  BY <1>1, <1>4, CallLlmType DEF CallLlm, RepoOK, BranchesOK, Numbers
<1>5. CASE SaveProposal(w)
  BY <1>1, <1>5, SaveProposalType DEF SaveProposal, BranchesOK, Numbers
<1>6. CASE SaveSession(w)
  BY <1>1, <1>6, SaveSessionType DEF SaveSession, BranchesOK, Numbers
<1>7. CASE Apply(w)
  BY <1>1, <1>7, ApplyType DEF Apply, RepoOK, BranchesOK, Numbers
<1>8. CASE PushBranch(w)
  BY <1>1, <1>8, PushBranchType DEF PushBranch, RepoOK, BranchesOK, Numbers
<1>9. CASE OpenPr(w)
  BY <1>1, <1>9, OpenPrType DEF OpenPr, RepoOK, BranchesOK
<1>10. CASE LabelPr(w)
  BY <1>1, <1>10, LabelPrType DEF LabelPr, RepoOK, BranchesOK
<1>11. CASE Respond(w)
  BY <1>1, <1>11, RespondType DEF Respond, RepoOK, BranchesOK, Numbers
<1>12. QED
  BY <1>2, <1>3, <1>4, <1>5, <1>6, <1>7, <1>8, <1>9, <1>10, <1>11 DEF Bridge, BridgeStep

\* And one for each action of the reviewer.
LEMMA ReviewerTypes ==
    ASSUME TypeOK, NEW v \in Reviews, Reviewer(v)
    PROVE  TypeOK'
<1> USE Types
<1>1. ASSUME RepoOK', BranchesOK', prs' \in Seq(PullRequest), ReviewerTypeOK', Numbers' = Numbers
      PROVE  TypeOK'
  <2>1. BridgeTypeOK'
    BY <1>1, RunsOK DEF Reviewer, BridgeTypeOK, RunOK
  <2>2. QED
    BY <1>1, <2>1 DEF TypeOK, RepoOK, BranchesOK
<1>2. ASSUME NEW c \in Requests, RStart(v, c)
      PROVE  TypeOK'
  BY <1>1, <1>2, RStartType DEF RStart, RepoOK, BranchesOK, Numbers
<1>3. CASE LabelGate(v)
  BY <1>1, <1>3, LabelGateType DEF LabelGate, RepoOK, BranchesOK, Numbers
<1>4. CASE LoadPr(v)
  BY <1>1, <1>4, LoadsType DEF LoadPr, RepoOK, BranchesOK, Numbers
<1>5. CASE LoadDiff(v)
  BY <1>1, <1>5, LoadsType DEF LoadDiff, RepoOK, BranchesOK, Numbers
<1>6. CASE Scan(v)
  BY <1>1, <1>6, ScanType DEF Scan, RepoOK, BranchesOK, Numbers
<1>7. CASE LoadFiles(v)
  BY <1>1, <1>7, LoadsType DEF LoadFiles, RepoOK, BranchesOK, Numbers
<1>8. CASE ReviewByLlm(v)
  BY <1>1, <1>8, LlmType, LlmSteps DEF RepoOK, BranchesOK, Numbers
<1>9. CASE Post(v)
  BY <1>1, <1>9, PostType DEF Post, RepoOK, BranchesOK, Numbers
<1>10. CASE MarkReviewed(v)
  BY <1>1, <1>10, MarkType DEF MarkReviewed, RepoOK, BranchesOK
<1>11. CASE SaveReview(v)
  BY <1>1, <1>11, SaveReviewType, SaveReviewSteps DEF BranchesOK
<1>12. QED
  BY <1>2, <1>3, <1>4, <1>5, <1>6, <1>7, <1>8, <1>9, <1>10, <1>11 DEF Reviewer, ReviewerStep

LEMMA OtherTypes == TypeOK /\ Others => TypeOK'
<1> SUFFICES ASSUME TypeOK, Others PROVE TypeOK'
  OBVIOUS
<1> USE Types
<1>1. CASE \E t \in Threads : Mark(t) /\ UNCHANGED <<cache, posted, saved, rev>>
  <2>1. Numbers' = Numbers /\ UNCHANGED <<repo, branches, prs, run>> /\ marked' \subseteq Threads
    BY <1>1 DEF Mark, Numbers, BridgeTypeOK
  <2>2. BridgeTypeOK'
    BY <2>1 DEF BridgeTypeOK
  <2>3. ReviewerTypeOK'
    BY <1>1, <2>1, ReviewerKeepsTypes
  <2>4. QED
    BY <2>1, <2>2, <2>3 DEF TypeOK, RepoOK, BranchesOK
<1>2. CASE \E n \in Numbers : PushHead(n) /\ UNCHANGED <<marked, run>>
  <2>1. prs' \in Seq(PullRequest) /\ Numbers' = Numbers
    BY <1>2, PushHeadSteps
  <2>2. UNCHANGED <<repo, branches, cache, posted, saved, rev, marked, run>>
    BY <1>2 DEF PushHead
  <2>3. BridgeTypeOK' /\ ReviewerTypeOK'
    BY <2>1, <2>2, ReviewerKeepsTypes DEF BridgeTypeOK
  <2>4. QED
    BY <2>1, <2>2, <2>3 DEF TypeOK, RepoOK, BranchesOK
<1>3. QED
  BY <1>1, <1>2 DEF Others

LEMMA StutterTypes == TypeOK /\ UNCHANGED vars => TypeOK'
BY DEF vars, TypeOK, BridgeTypeOK, ReviewerTypeOK, Numbers, Call

\* Every variable always has its type, which also says that a run that works on
\* a thread has its comment, and one that has read or judged has what it needs.
THEOREM TypeCorrect == Spec => []TypeOK
<1>1. TypeOK /\ [Next]_vars => TypeOK'
  BY BridgeTypes, ReviewerTypes, OtherTypes, StutterTypes DEF Next
<1>2. QED
  BY <1>1, InitTypes, PTL DEF Spec
-----------------------------------------------------------------------------
(* What a run of the bridge has in its checkout, and what the repository has *)

ThreadOf(r) == r.comment.thread
VerbOf(r) == r.comment.verb

\* Repository R records patch d of thread t under number n.
Recorded(R, t, n, d) == n \in DOMAIN R.patches[t] /\ R.patches[t][n] = d

\* A run that has written nothing yet has what the default branch had when it
\* started, which is what it has now unless somebody pushed.
Unwritten(r, R) ==
    r.at \in {"gate", "llm", "apply", "proposal"} =>
        /\ r.session = Loaded(r.file) /\ ~r.hurt
        /\ Begins(r.patches, R.patches[ThreadOf(r)])
        /\ r.base = R.rev => r.file = R.sessions[ThreadOf(r)] /\ r.patches = R.patches[ThreadOf(r)]

\* Only an open session is added to.
Adding(r) ==
    /\ r.at = "llm" => VerbOf(r) \in {"say", "propose"}
    /\ r.at = "proposal" => VerbOf(r) = "propose"
    /\ r.at \in {"llm", "proposal"} => r.session.status # "closed"

\* A run that is about to save its session would, if it can, only add to what
\* the default branch has, and nothing when the session there is closed.
ToSave(r, R) ==
    r.at = "session" =>
        /\ VerbOf(r) \in {"init", "end", "say", "propose"}
        /\ VerbOf(r) \in {"say", "propose"} => r.file.status # "closed"
        /\ r.base = R.rev =>
              /\ r.file = R.sessions[ThreadOf(r)]
              /\ Begins(r.file.msgs, r.session.msgs)
              /\ Begins(R.patches[ThreadOf(r)], r.patches)
              /\ VerbOf(r) \in {"init", "end"} =>
                    r.session.msgs = r.file.msgs /\ r.patches = R.patches[ThreadOf(r)]
        /\ VerbOf(r) = "propose" =>
              /\ r.pid \in DOMAIN r.patches /\ r.patches[r.pid] = r.patch
              /\ ~r.hurt => Recorded(R, ThreadOf(r), r.pid, r.patch)

\* What a run announces as saved, and what it applies, the default branch has.
Announced(r, R) ==
    (r.at \in {"answer", "answered"} /\ VerbOf(r) = "propose" /\ r.told = "propose" /\ ~r.hurt) =>
        Recorded(R, ThreadOf(r), r.pid, r.patch)
ToOpen(r, R) == r.at \in {"branch", "pr"} => Recorded(R, ThreadOf(r), r.pid, r.patch)

RunInv(r, R) ==
    /\ r.base <= R.rev
    /\ Unwritten(r, R) /\ Adding(r) /\ ToSave(r, R) /\ Announced(r, R) /\ ToOpen(r, R)

\* No two pull requests, and no two runs about to open one, are for the same
\* proposal: each has pushed the branch, and a branch is only pushed once.
Opening == {w \in Runs : At(w, "pr")}
PrInv ==
    /\ \A n \in Numbers : prs[n].thread \in Threads =>
          /\ [thread |-> prs[n].thread, pid |-> prs[n].pid] \in branches
          /\ Recorded(repo, prs[n].thread, prs[n].pid, prs[n].patch)
    /\ \A n, k \in Numbers :
          (prs[n].thread \in Threads /\ prs[k].thread = prs[n].thread /\ prs[k].pid = prs[n].pid) => k = n
    /\ \A w \in Opening :
          /\ Branch(w) \in branches
          /\ \A n \in Numbers : ~(prs[n].thread = Thread(w) /\ prs[n].pid = run[w].pid)
          /\ \A u \in Opening : Branch(u) = Branch(w) => u = w

BridgeInv == (\A w \in Runs : RunInv(run[w], repo)) /\ PrInv

\* What the runs of a clone froze is what they post, and nobody changes it; what
\* is recorded of a review was posted first.
Freezes(v) == Local(Call(v)) /\ {"freezeReview", "freezeInputs"} \cap Call(v).flags # {}
ReviewInv ==
    /\ \A r \in posted : r.text # Refusal /\ Freezes(r.by) => Frozen(r.pr).review = r.text
    /\ \A v \in Reviews : rev[v].at = "post" /\ Freezes(v) => Frozen(Call(v).pr).review = rev[v].seen.review
    /\ \A v \in Reviews : rev[v].at \in {"mark", "save"} => NoPost(Call(v)) \/ Review(v) \in posted
    /\ \A r \in posted \cup saved : rev[r.by].at # "idle"
    /\ RecordFollowsReview

Inv == TypeOK /\ BridgeInv /\ ReviewInv

-----------------------------------------------------------------------------
(* The steps of the bridge *)

Repos == [rev : Nat, sessions : [Threads -> Session], patches : [Threads -> Seq(Patches)]]

\* Whoever pushes gives the default branch another revision, and drops no proposal.
Grows(R, S) ==
    \/ S = R
    \/ S.rev > R.rev /\ \A t \in Threads : Begins(R.patches[t], S.patches[t])

LEMMA GrowsType ==
    ASSUME NEW R \in Repos, NEW S \in Repos, Grows(R, S)
    PROVE  /\ R.rev \in Nat /\ S.rev \in Nat /\ S.rev >= R.rev /\ (S.rev = R.rev => S = R)
           /\ \A t \in Threads : /\ R.patches[t] \in Seq(Patches) /\ S.patches[t] \in Seq(Patches)
                                 /\ R.sessions[t] \in Session
                                 /\ Begins(R.patches[t], S.patches[t])
<1>1. /\ R.rev \in Nat /\ S.rev \in Nat
      /\ \A t \in Threads : /\ R.patches[t] \in Seq(Patches) /\ S.patches[t] \in Seq(Patches)
                            /\ R.sessions[t] \in Session
  BY DEF Repos
<1>2. \A t \in Threads : Begins(R.patches[t], R.patches[t])
  BY <1>1, BeginsItself
<1>3. QED
  BY <1>1, <1>2 DEF Grows

LEMMA RecordedStays ==
    ASSUME NEW R \in Repos, NEW S \in Repos, Grows(R, S), NEW t \in Threads, NEW n, NEW d, Recorded(R, t, n, d)
    PROVE  Recorded(S, t, n, d)
BY GrowsType, BeginsKeeps DEF Recorded

\* What a run has stays in order when somebody else pushes.
LEMMA RunInvStays ==
    ASSUME NEW R \in Repos, NEW S \in Repos, Grows(R, S), NEW r \in BridgeRun,
           r.at \in Threaded => r.comment \in Comments, RunInv(r, R)
    PROVE  RunInv(r, S)
<1> DEFINE t == ThreadOf(r)
<1>1. r.base \in Nat /\ r.patches \in Seq(Patches)
  BY DEF BridgeRun
<1>2. r.at \in Threaded => t \in Threads
  BY CommentsAssumption DEF ThreadOf
<1>3. r.base <= S.rev /\ (r.base = S.rev => S = R)
  BY <1>1, GrowsType DEF RunInv
<1>4. Unwritten(r, S)
  <2> SUFFICES ASSUME r.at \in {"gate", "llm", "apply", "proposal"}
               PROVE  /\ r.session = Loaded(r.file) /\ ~r.hurt
                      /\ Begins(r.patches, S.patches[t])
                      /\ r.base = S.rev => r.file = S.sessions[t] /\ r.patches = S.patches[t]
    BY DEF Unwritten
  <2>1. /\ r.session = Loaded(r.file) /\ ~r.hurt
        /\ Begins(r.patches, R.patches[t])
        /\ r.base = R.rev => r.file = R.sessions[t] /\ r.patches = R.patches[t]
    BY DEF RunInv, Unwritten
  <2>2. t \in Threads
    BY <1>2 DEF Threaded
  <2>3. Begins(r.patches, S.patches[t])
    BY <1>1, <2>1, <2>2, GrowsType, BeginsChain
  <2>4. QED
    BY <1>3, <2>1, <2>3
<1>5. ToSave(r, S)
  <2> SUFFICES ASSUME r.at = "session"
               PROVE  ToSave(r, S)
    BY DEF ToSave
  <2>1. t \in Threads
    BY <1>2 DEF Threaded
  <2>2. Recorded(R, t, r.pid, r.patch) => Recorded(S, t, r.pid, r.patch)
    BY <2>1, RecordedStays
  <2>3. QED
    BY <1>3, <2>2 DEF RunInv, ToSave
<1>6. Announced(r, S)
  <2>1. r.at \in {"answer", "answered"} => t \in Threads
    BY <1>2 DEF Threaded
  <2>2. QED
    BY <2>1, RecordedStays DEF RunInv, Announced
<1>7. ToOpen(r, S)
  <2>1. r.at \in {"branch", "pr"} => t \in Threads
    BY <1>2 DEF Threaded
  <2>2. QED
    BY <2>1, RecordedStays DEF RunInv, ToOpen
<1>8. QED
  BY <1>3, <1>4, <1>5, <1>6, <1>7 DEF RunInv

RunsHold == \A w \in Runs : RunInv(run[w], repo)

LEMMA RunsStay ==
    ASSUME RepoOK, RepoOK', BridgeTypeOK, RunsHold, Grows(repo, repo'), UNCHANGED run
    PROVE  RunsHold'
<1>1. repo \in Repos /\ repo' \in Repos
  BY DEF RepoOK, Repos
<1>2. \A u \in Runs : run[u] \in BridgeRun /\ (run[u].at \in Threaded => run[u].comment \in Comments)
  BY DEF BridgeTypeOK
<1>3. \A u \in Runs : RunInv(run[u], repo')
  BY <1>1, <1>2, RunInvStays DEF RunsHold
<1>4. QED
  BY <1>3 DEF RunsHold

LEMMA StepKeepsRuns ==
    ASSUME RepoOK, RepoOK', BridgeTypeOK, RunsHold, Grows(repo, repo'),
           NEW w \in Runs, NEW r, Becomes(w, r), RunInv(r, repo')
    PROVE  RunsHold'
<1>1. repo \in Repos /\ repo' \in Repos
  BY DEF RepoOK, Repos
<1>2. \A u \in Runs : run[u] \in BridgeRun /\ (run[u].at \in Threaded => run[u].comment \in Comments)
  BY DEF BridgeTypeOK
<1>3. \A u \in Runs : RunInv(run[u], repo')
  BY <1>1, <1>2, RunInvStays DEF RunsHold
<1>4. \A u \in Runs : RunInv(run'[u], repo')
  BY <1>3, RunMoves
<1>5. QED
  BY <1>4 DEF RunsHold

LEMMA AnswersKeepsRuns ==
    ASSUME RepoOK, BridgeTypeOK, RunsHold, UNCHANGED repo,
           NEW w \in Runs, NEW text, Answers(w, text), text # "propose"
    PROVE  RunsHold'
<1> DEFINE q == [run[w] EXCEPT !.at = "answer", !.told = text]
<1>1. q.at = "answer" /\ q.told = text /\ q.base = run[w].base
  BY DEF BridgeTypeOK, BridgeRun
<1> HIDE DEF q
<1>2. RunInv(q, repo)
  BY <1>1 DEF RunsHold, RunInv, Unwritten, Adding, ToSave, Announced, ToOpen
<1>3. RepoOK' /\ Grows(repo, repo') /\ RunInv(q, repo')
  BY <1>2 DEF RepoOK, Grows
<1>4. QED
  BY <1>3, StepKeepsRuns DEF Answers, q

LEMMA CrashesKeepsRuns ==
    ASSUME RepoOK, BridgeTypeOK, RunsHold, UNCHANGED repo, NEW w \in Runs, Crashes(w)
    PROVE  RunsHold'
<1> DEFINE q == [Idle EXCEPT !.at = "crashed"]
<1>1. q.at = "crashed" /\ q.base = 0
  BY DEF Idle
<1> HIDE DEF q
<1>2. RunInv(q, repo)
  BY <1>1, RepoType DEF RunInv, Unwritten, Adding, ToSave, Announced, ToOpen
<1>3. RepoOK' /\ Grows(repo, repo') /\ RunInv(q, repo')
  BY <1>2 DEF RepoOK, Grows
<1>4. QED
  BY <1>3, StepKeepsRuns DEF Crashes, q

LEMMA StartKeepsRuns ==
    ASSUME RepoOK, BridgeTypeOK, RunsHold, NEW w \in Runs, NEW c \in Comments, Start(w, c)
    PROVE  RunsHold'
<1> DEFINE q == [Idle EXCEPT !.comment = c, !.at = "gate", !.base = repo.rev,
                             !.session = Loaded(repo.sessions[c.thread]),
                             !.file = repo.sessions[c.thread],
                             !.patches = repo.patches[c.thread]]
<1>1. /\ q.at = "gate" /\ q.comment = c /\ q.base = repo.rev /\ q.hurt = FALSE
      /\ q.file = repo.sessions[c.thread] /\ q.patches = repo.patches[c.thread]
      /\ q.session = Loaded(repo.sessions[c.thread])
  BY DEF Idle
<1>2. Becomes(w, q) /\ UNCHANGED repo
  BY DEF Start
<1> HIDE DEF q
<1>3. repo.rev \in Nat /\ Begins(q.patches, repo.patches[c.thread])
  BY <1>1, RepoType, CommentsAssumption, BeginsItself
<1>4. RunInv(q, repo)
  BY <1>1, <1>3 DEF RunInv, Unwritten, Adding, ToSave, Announced, ToOpen, ThreadOf
<1>5. RepoOK' /\ Grows(repo, repo') /\ RunInv(q, repo')
  BY <1>2, <1>4 DEF RepoOK, Grows
<1>6. QED
  BY <1>2, <1>5, StepKeepsRuns

LEMMA SessionMsgs == \A s \in Session : s.msgs \in Seq(Messages)
<1> DEFINE none == <<>>
<1>1. none \in Seq(Messages)
  BY EmptySeq
<1>2. NoSession = [status |-> "none", msgs |-> none]
  BY DEF NoSession
<1> HIDE DEF none
<1>3. QED
  BY <1>1, <1>2 DEF Session, BegunSession

\* Loading adds nothing, and does not open a closed session.
LEMMA LoadedKeeps ==
    \A s \in Session : Loaded(s).msgs = s.msgs /\ (s.status = "closed" => Loaded(s).status = "closed")
<1> DEFINE none == <<>>
<1>1. /\ NoSession = [status |-> "none", msgs |-> none]
      /\ \A s : Loaded(s) = IF s.status = "none" THEN [status |-> "open", msgs |-> none] ELSE s
  BY DEF NoSession, Loaded
<1> HIDE DEF none
<1>2. \A s \in Session : s.status = "none" => s.msgs = none
  BY <1>1 DEF Session, BegunSession
<1>3. QED
  BY <1>1, <1>2

LEMMA GateKeepsRuns ==
    ASSUME RepoOK, BridgeTypeOK, RunsHold, NEW w \in Runs, Gate(w)
    PROVE  RunsHold'
<1> DEFINE r == run[w]
           t == ThreadOf(r)
<1>1. /\ r.at = "gate" /\ r \in BridgeRun /\ r.comment \in Comments /\ VerbOf(r) \in Verbs /\ t \in Threads
      /\ RunInv(r, repo) /\ UNCHANGED repo /\ RepoOK' /\ Grows(repo, repo')
      /\ r.session \in BegunSession /\ r.file \in Session /\ repo.patches[t] \in Seq(Patches)
  BY CommentsAssumption, RepoType
     DEF Gate, At, BridgeTypeOK, RepoOK, RunsHold, Grows, ThreadOf, VerbOf, Threaded, BridgeRun
<1>2. /\ r.base <= repo.rev /\ r.session = Loaded(r.file) /\ ~r.hurt
      /\ Begins(r.patches, repo.patches[t])
      /\ r.base = repo.rev => r.file = repo.sessions[t] /\ r.patches = repo.patches[t]
  BY <1>1 DEF RunInv, Unwritten
<1>3. CASE \E text \in Told \ {"propose"} : Answers(w, text)
  BY <1>1, <1>3, AnswersKeepsRuns
<1>4. CASE Crashes(w)
  BY <1>1, <1>4, CrashesKeepsRuns
<1>5. CASE /\ VerbOf(r) \in {"init", "end"}
           /\ \E x \in {"open", "closed"} :
                 Becomes(w, [r EXCEPT !.at = "session", !.session.status = x])
  <2>1. PICK x \in {"open", "closed"} :
              Becomes(w, [r EXCEPT !.at = "session", !.session.status = x])
    BY <1>5
  <2> DEFINE q == [r EXCEPT !.at = "session", !.session.status = x]
  <2>2. /\ q.at = "session" /\ q.base = r.base /\ q.file = r.file /\ q.patches = r.patches
        /\ q.comment = r.comment /\ q.session.msgs = r.session.msgs
    BY <1>1 DEF BridgeRun, BegunSession
  <2> HIDE DEF q
  <2>3. r.session.msgs = r.file.msgs
    BY <1>1, <1>2, LoadedKeeps
  <2>4. r.file.msgs \in Seq(Messages) /\ r.patches \in Seq(Patches)
    BY <1>1, <2>3 DEF BegunSession, BridgeRun
  <2>5. Begins(r.file.msgs, r.file.msgs) /\ Begins(r.patches, r.patches)
    BY <2>4, BeginsItself
  <2>6. RunInv(q, repo)
    <3>1. ToSave(q, repo)
      BY <1>2, <1>5, <2>2, <2>3, <2>5 DEF ToSave, VerbOf, ThreadOf
    <3>2. QED
      BY <1>2, <2>2, <3>1 DEF RunInv, Unwritten, Adding, Announced, ToOpen
  <2>7. RunInv(q, repo')
    BY <1>1, <2>6
  <2>8. QED
    BY <1>1, <2>1, <2>7, StepKeepsRuns DEF q
<1>6. CASE /\ \E x \in {"llm", "apply"} : Goes(w, x) /\ (x = "llm" => VerbOf(r) \in {"say", "propose"} /\ ~Closed(w))
  <2>1. PICK x \in {"llm", "apply"} : Goes(w, x) /\ (x = "llm" => VerbOf(r) \in {"say", "propose"} /\ ~Closed(w))
    BY <1>6
  <2> DEFINE q == [r EXCEPT !.at = x]
  <2>2. /\ q.at = x /\ q.base = r.base /\ q.file = r.file /\ q.patches = r.patches
        /\ q.comment = r.comment /\ q.session = r.session /\ q.hurt = r.hurt
    BY <1>1 DEF BridgeRun
  <2> HIDE DEF q
  <2>3. RunInv(q, repo)
    BY <1>2, <2>1, <2>2 DEF RunInv, Unwritten, Adding, ToSave, Announced, ToOpen, VerbOf, ThreadOf, Closed
  <2>4. RunInv(q, repo')
    BY <1>1, <2>3
  <2>5. QED
    BY <1>1, <2>1, <2>4, StepKeepsRuns DEF Goes, q
<1>7. QED
  <2>1. {"policy", "refused", "closed"} \subseteq Told \ {"propose"} /\ {"ping", "state", "other"} \subseteq Told \ {"propose"}
    BY DEF Told, Verbs
  <2>2. QED
    BY <1>1, <1>3, <1>4, <1>5, <1>6, <2>1 DEF Gate, VerbOf

LEMMA CallLlmKeepsRuns ==
    ASSUME RepoOK, BridgeTypeOK, RunsHold, NEW w \in Runs, CallLlm(w)
    PROVE  RunsHold'
<1> DEFINE r == run[w]
           t == ThreadOf(r)
<1>1. /\ r.at = "llm" /\ r \in BridgeRun /\ r.comment \in Comments /\ t \in Threads
      /\ RunInv(r, repo) /\ UNCHANGED repo /\ RepoOK' /\ Grows(repo, repo')
      /\ r.session \in BegunSession /\ r.file \in Session
  BY CommentsAssumption DEF CallLlm, At, BridgeTypeOK, RepoOK, RunsHold, Grows, ThreadOf, Threaded, BridgeRun
<1>2. /\ r.base <= repo.rev /\ r.session = Loaded(r.file) /\ ~r.hurt
      /\ Begins(r.patches, repo.patches[t]) /\ r.session.status # "closed"
      /\ r.base = repo.rev => r.file = repo.sessions[t] /\ r.patches = repo.patches[t]
  BY <1>1 DEF RunInv, Unwritten, Adding
<1>3. CASE \E text \in Told \ {"propose"} : Answers(w, text)
  BY <1>1, <1>3, AnswersKeepsRuns
<1>4. CASE VerbOf(r) = "say" /\ Becomes(w, [r EXCEPT !.at = "session",
                             !.session.msgs = @ \o <<<<"user", w>>, <<"assistant", w>>>>])
  <2> DEFINE m == r.session.msgs \o <<<<"user", w>>, <<"assistant", w>>>>
             q == [r EXCEPT !.at = "session", !.session.msgs = m]
  <2>1. Begins(r.session.msgs, m)
    <3>1. r.session.msgs \in Seq(Messages)
      BY <1>1 DEF BegunSession
    <3>2. <<"user", w>> \in Messages /\ <<"assistant", w>> \in Messages
      BY DEF Messages
    <3>3. <<<<"user", w>>, <<"assistant", w>>>> \in Seq(Messages)
      BY <3>2
    <3>4. QED
      BY <3>1, <3>3, BeginsJoined
  <2> HIDE DEF m
  <2>2. /\ q.at = "session" /\ q.base = r.base /\ q.file = r.file /\ q.patches = r.patches
        /\ q.comment = r.comment /\ q.session.msgs = m
    BY <1>1 DEF BridgeRun, BegunSession
  <2>3. Becomes(w, q)
    BY <1>4 DEF m
  <2> HIDE DEF q
  <2>4. r.session.msgs = r.file.msgs /\ r.file.status # "closed"
    BY <1>1, <1>2, LoadedKeeps
  <2>5. Begins(r.patches, r.patches)
    BY <1>1, BeginsItself DEF BridgeRun
  <2>6. ToSave(q, repo)
    BY <1>2, <1>4, <2>1, <2>2, <2>4, <2>5 DEF ToSave, VerbOf, ThreadOf
  <2>7. RunInv(q, repo)
    BY <1>2, <2>2, <2>6 DEF RunInv, Unwritten, Adding, Announced, ToOpen
  <2>8. RunInv(q, repo')
    BY <1>1, <2>7
  <2>9. QED
    BY <1>1, <2>3, <2>8, StepKeepsRuns
<1>5. CASE VerbOf(r) = "propose" /\ \E d \in Patches : Becomes(w, [r EXCEPT !.at = "proposal", !.patch = d])
  <2>1. PICK d \in Patches : Becomes(w, [r EXCEPT !.at = "proposal", !.patch = d])
    BY <1>5
  <2> DEFINE q == [r EXCEPT !.at = "proposal", !.patch = d]
  <2>2. /\ q.at = "proposal" /\ q.base = r.base /\ q.file = r.file /\ q.patches = r.patches
        /\ q.comment = r.comment /\ q.session = r.session /\ q.hurt = r.hurt
    BY <1>1 DEF BridgeRun
  <2> HIDE DEF q
  <2>3. RunInv(q, repo)
    BY <1>2, <1>5, <2>2 DEF RunInv, Unwritten, Adding, ToSave, Announced, ToOpen, VerbOf, ThreadOf
  <2>4. RunInv(q, repo')
    BY <1>1, <2>3
  <2>5. QED
    BY <1>1, <2>1, <2>4, StepKeepsRuns DEF q
<1>6. QED
  <2>1. {"llm failed", "no diff", "rejected"} \subseteq Told \ {"propose"}
    BY DEF Told
  <2>2. QED
    BY <1>1, <1>3, <1>4, <1>5, <2>1 DEF CallLlm, VerbOf, Verb

\* A session and its proposals only grow, and stay as they are once it is closed.
Trail(R, S) ==
    \A t \in Threads : /\ Begins(R.sessions[t].msgs, S.sessions[t].msgs)
                       /\ Begins(R.patches[t], S.patches[t])
                       /\ R.sessions[t].status = "closed" =>
                             S.sessions[t].msgs = R.sessions[t].msgs /\ S.patches[t] = R.patches[t]

LEMMA TrailItself == RepoOK => Trail(repo, repo)
BY RepoType, SessionMsgs, BeginsItself DEF Trail

\* A push that the server takes comes from a checkout of what the server has.
LEMMA PushKeepsTrail ==
    ASSUME RepoOK, NEW w \in Runs, NEW r \in BridgeRun, ThreadOf(r) \in Threads, Push(w, r),
           r.base = repo.rev => LET t == ThreadOf(r)
                                IN  /\ Begins(repo.sessions[t].msgs, r.file.msgs)
                                    /\ Begins(repo.patches[t], r.patches)
                                    /\ repo.sessions[t].status = "closed" =>
                                          r.file.msgs = repo.sessions[t].msgs /\ r.patches = repo.patches[t]
    PROVE  /\ Grows(repo, repo') /\ Trail(repo, repo')
           /\ \/ /\ r.base = repo.rev /\ r.ahead
                 /\ Becomes(w, [r EXCEPT !.base = repo.rev + 1, !.ahead = FALSE, !.hurt = FALSE])
                 /\ repo'.rev = repo.rev + 1
                 /\ repo'.sessions[ThreadOf(r)] = r.file /\ repo'.patches[ThreadOf(r)] = r.patches
              \/ ~r.ahead /\ Becomes(w, r) /\ UNCHANGED repo
              \/ r.ahead /\ Becomes(w, [r EXCEPT !.hurt = TRUE]) /\ UNCHANGED repo
<1> DEFINE t == ThreadOf(r)
<1>1. CASE /\ r.ahead /\ FastForward(r)
           /\ repo' = [repo EXCEPT !.rev = @ + 1, !.sessions[t] = r.file, !.patches[t] = r.patches]
           /\ Becomes(w, [r EXCEPT !.base = repo.rev + 1, !.ahead = FALSE, !.hurt = FALSE])
  <2>1. /\ repo'.rev = repo.rev + 1 /\ repo'.rev > repo.rev
        /\ \A u \in Threads : /\ repo'.sessions[u] = IF u = t THEN r.file ELSE repo.sessions[u]
                              /\ repo'.patches[u] = IF u = t THEN r.patches ELSE repo.patches[u]
    BY <1>1 DEF RepoOK
  <2>2. Trail(repo, repo')
    BY <1>1, <2>1, TrailItself DEF Trail, FastForward
  <2>3. Grows(repo, repo')
    BY <2>1, <2>2 DEF Trail, Grows
  <2>4. QED
    BY <1>1, <2>1, <2>2, <2>3 DEF FastForward
<1>2. CASE UNCHANGED repo
  <2>1. Trail(repo, repo') /\ Grows(repo, repo')
    BY <1>2, TrailItself DEF Trail, Grows
  <2>2. repo' # [repo EXCEPT !.rev = @ + 1, !.sessions[t] = r.file, !.patches[t] = r.patches]
    <3> DEFINE new == [repo EXCEPT !.rev = @ + 1, !.sessions[t] = r.file, !.patches[t] = r.patches]
    <3>1. new.rev = repo.rev + 1
      BY DEF RepoOK
    <3> HIDE DEF new
    <3>2. repo' # new
      BY <1>2, <3>1, RepoType
    <3>3. QED
      BY <3>2 DEF new
  <2>3. QED
    BY <1>2, <2>1, <2>2 DEF Push, ThreadOf
<1>3. QED
  BY <1>1, <1>2 DEF Push, ThreadOf

\* The run that pushes is not told of any other repository than the one it gets.
LEMMA SaveProposalKeepsRuns ==
    ASSUME RepoOK, BridgeTypeOK, RunsHold, NEW w \in Runs, SaveProposal(w)
    PROVE  RunsHold' /\ Grows(repo, repo') /\ Trail(repo, repo')
<1> DEFINE r == WithProposal(w)
           o == run[w]
           t == ThreadOf(o)
<1>1. /\ o.at = "proposal" /\ Push(w, r) /\ RunInv(o, repo) /\ o.comment \in Comments /\ t \in Threads
      /\ o.file \in Session /\ o.base \in Nat
  BY CommentsAssumption
     DEF SaveProposal, At, WithProposal, BridgeTypeOK, RunsHold, Threaded, ThreadOf, BridgeRun
<1>2. /\ o.base <= repo.rev /\ o.session = Loaded(o.file)
      /\ o.base = repo.rev => o.file = repo.sessions[t] /\ o.patches = repo.patches[t]
      /\ VerbOf(o) = "propose" /\ o.session.status # "closed"
  BY <1>1 DEF RunInv, Unwritten, Adding
<1>3. /\ o.session.msgs = o.file.msgs /\ o.file.status # "closed" /\ Begins(o.file.msgs, o.file.msgs)
  BY <1>1, <1>2, LoadedKeeps, SessionMsgs, BeginsItself
<1>4. /\ r \in BridgeRun /\ r.at = "session" /\ r.ahead = TRUE
      /\ r.pid \in DOMAIN r.patches /\ r.patches[r.pid] = r.patch
      /\ Begins(o.patches, r.patches) /\ Begins(o.session.msgs, r.session.msgs)
      /\ r.comment = o.comment /\ r.base = o.base /\ r.file = o.file
  <2>1. o.patches \in Seq(Patches) /\ Len(o.patches) + 1 \in Nat /\ Len(o.patches) + 1 > 0
    BY LenProperties DEF BridgeTypeOK, BridgeRun
  <2>2. r \in BridgeRun
    BY <1>1, ProposalSaved
  <2>3. DOMAIN r.patches = 1..Len(r.patches)
    BY <2>2, LenProperties DEF BridgeRun
  <2> HIDE DEF r
  <2>4. /\ r.at = "session" /\ r.ahead = TRUE /\ r.pid = Len(o.patches) + 1 /\ Len(r.patches) = Len(o.patches) + 1
        /\ r.patches[Len(o.patches) + 1] = o.patch
        /\ Begins(o.patches, r.patches) /\ Begins(o.session.msgs, r.session.msgs)
        /\ r.comment = o.comment /\ r.base = o.base /\ r.file = o.file /\ r.patch = o.patch
    BY <1>1, ProposalSaved DEF r
  <2>5. QED
    BY <2>1, <2>2, <2>3, <2>4
<1> HIDE DEF r
<1>5. ThreadOf(r) = t /\ VerbOf(r) = "propose"
  BY <1>2, <1>4 DEF ThreadOf, VerbOf
<1>6. /\ Grows(repo, repo') /\ Trail(repo, repo')
      /\ \/ /\ r.base = repo.rev
            /\ Becomes(w, [r EXCEPT !.base = repo.rev + 1, !.ahead = FALSE, !.hurt = FALSE])
            /\ repo'.rev = repo.rev + 1
            /\ repo'.sessions[t] = r.file /\ repo'.patches[t] = r.patches
         \/ Becomes(w, [r EXCEPT !.hurt = TRUE]) /\ UNCHANGED repo
  BY <1>1, <1>2, <1>3, <1>4, <1>5, PushKeepsTrail
<1>7. RepoOK'
  BY SaveProposalType
<1>8. CASE /\ r.base = repo.rev
           /\ Becomes(w, [r EXCEPT !.base = repo.rev + 1, !.ahead = FALSE, !.hurt = FALSE])
           /\ repo'.rev = repo.rev + 1
           /\ repo'.sessions[t] = r.file /\ repo'.patches[t] = r.patches
  <2> DEFINE q == [r EXCEPT !.base = repo.rev + 1, !.ahead = FALSE, !.hurt = FALSE]
  <2>1. /\ q.at = "session" /\ q.base = repo.rev + 1 /\ q.file = r.file /\ q.session = r.session
        /\ q.patches = r.patches /\ q.pid = r.pid /\ q.patch = r.patch /\ q.comment = r.comment
    BY <1>4 DEF BridgeRun
  <2> HIDE DEF q
  <2>2. Begins(r.patches, r.patches)
    BY <1>4, BeginsItself DEF BridgeRun
  <2>3. ThreadOf(q) = t /\ VerbOf(q) = "propose"
    BY <1>5, <2>1 DEF ThreadOf, VerbOf
  <2>4. Begins(q.file.msgs, q.session.msgs)
    BY <1>3, <1>4, <2>1
  <2>5. ToSave(q, repo')
    BY <1>3, <1>4, <1>8, <2>1, <2>2, <2>3, <2>4 DEF ToSave, Recorded
  <2>6. q.base <= repo'.rev
    BY <1>8, <2>1, RepoType
  <2>7. RunInv(q, repo')
    BY <2>1, <2>5, <2>6 DEF RunInv, Unwritten, Adding, Announced, ToOpen
  <2>8. QED
    BY <1>6, <1>7, <1>8, <2>7, StepKeepsRuns DEF q
<1>9. CASE Becomes(w, [r EXCEPT !.hurt = TRUE]) /\ UNCHANGED repo
  <2> DEFINE q == [r EXCEPT !.hurt = TRUE]
  <2>1. /\ q.at = "session" /\ q.base = r.base /\ q.file = r.file /\ q.session = r.session /\ q.hurt = TRUE
        /\ q.patches = r.patches /\ q.pid = r.pid /\ q.patch = r.patch /\ q.comment = r.comment
    BY <1>4 DEF BridgeRun
  <2> HIDE DEF q
  <2>2. ThreadOf(q) = t /\ VerbOf(q) = "propose"
    BY <1>5, <2>1 DEF ThreadOf, VerbOf
  <2>3. Begins(q.file.msgs, q.session.msgs)
    BY <1>3, <1>4, <2>1
  <2>4. ToSave(q, repo)
    BY <1>2, <1>3, <1>4, <2>1, <2>2, <2>3 DEF ToSave
  <2>5. RunInv(q, repo)
    BY <1>2, <1>4, <2>1, <2>4 DEF RunInv, Unwritten, Adding, Announced, ToOpen
  <2>6. RunInv(q, repo')
    BY <1>9, <2>5
  <2>7. QED
    BY <1>6, <1>7, <1>9, <2>6, StepKeepsRuns DEF q
<1>10. QED
  BY <1>6, <1>8, <1>9

LEMMA SaveSessionKeepsRuns ==
    ASSUME RepoOK, BridgeTypeOK, RunsHold, NEW w \in Runs, SaveSession(w)
    PROVE  RunsHold' /\ Grows(repo, repo') /\ Trail(repo, repo')
<1> DEFINE r == WithSession(w)
           o == run[w]
           t == ThreadOf(o)
<1>1. /\ o.at = "session" /\ Push(w, r) /\ RunInv(o, repo) /\ o.comment \in Comments /\ t \in Threads
      /\ o.base \in Nat
  BY CommentsAssumption
     DEF SaveSession, At, WithSession, BridgeTypeOK, RunsHold, Threaded, ThreadOf, BridgeRun
<1>2. o.base <= repo.rev /\ ToSave(o, repo)
  BY <1>1 DEF RunInv
<1>3. /\ r \in BridgeRun /\ r.at = "answer" /\ r.file = o.session
      /\ r.comment = o.comment /\ r.base = o.base /\ r.patches = o.patches /\ r.pid = o.pid
      /\ r.patch = o.patch /\ r.hurt = o.hurt
  <2> HIDE DEF r
  <2>1. QED
    BY <1>1, SessionSaved DEF r
<1> HIDE DEF r
<1>4. ThreadOf(r) = t /\ VerbOf(r) = VerbOf(o)
  BY <1>3 DEF ThreadOf, VerbOf
<1>5. r.base = repo.rev =>
          /\ Begins(repo.sessions[t].msgs, r.file.msgs)
          /\ Begins(repo.patches[t], r.patches)
          /\ repo.sessions[t].status = "closed" =>
                r.file.msgs = repo.sessions[t].msgs /\ r.patches = repo.patches[t]
  BY <1>1, <1>2, <1>3 DEF ToSave
<1>6. /\ Grows(repo, repo') /\ Trail(repo, repo')
      /\ \/ /\ r.base = repo.rev
            /\ Becomes(w, [r EXCEPT !.base = repo.rev + 1, !.ahead = FALSE, !.hurt = FALSE])
            /\ repo'.rev = repo.rev + 1
            /\ repo'.sessions[t] = r.file /\ repo'.patches[t] = r.patches
         \/ Becomes(w, r) /\ UNCHANGED repo
         \/ Becomes(w, [r EXCEPT !.hurt = TRUE]) /\ UNCHANGED repo
  BY <1>1, <1>3, <1>4, <1>5, PushKeepsTrail
<1>7. RepoOK'
  BY SaveSessionType
<1>8. /\ VerbOf(o) = "propose" => r.pid \in DOMAIN r.patches /\ r.patches[r.pid] = r.patch
      /\ VerbOf(o) = "propose" /\ ~r.hurt => Recorded(repo, t, r.pid, r.patch)
  BY <1>1, <1>2, <1>3 DEF ToSave
<1>9. CASE /\ Becomes(w, [r EXCEPT !.base = repo.rev + 1, !.ahead = FALSE, !.hurt = FALSE])
           /\ repo'.rev = repo.rev + 1 /\ repo'.patches[t] = r.patches
  <2> DEFINE q == [r EXCEPT !.base = repo.rev + 1, !.ahead = FALSE, !.hurt = FALSE]
  <2>1. /\ q.at = "answer" /\ q.base = repo.rev + 1 /\ q.pid = r.pid /\ q.patch = r.patch
        /\ q.comment = r.comment
    BY <1>3 DEF BridgeRun
  <2> HIDE DEF q
  <2>2. ThreadOf(q) = t /\ VerbOf(q) = VerbOf(o)
    BY <1>4, <2>1 DEF ThreadOf, VerbOf
  <2>3. Announced(q, repo')
    BY <1>8, <1>9, <2>1, <2>2 DEF Announced, Recorded
  <2>4. q.base <= repo'.rev
    BY <1>9, <2>1, RepoType
  <2>5. RunInv(q, repo')
    BY <2>1, <2>3, <2>4 DEF RunInv, Unwritten, Adding, ToSave, ToOpen
  <2>6. QED
    BY <1>6, <1>7, <1>9, <2>5, StepKeepsRuns DEF q
<1>10. CASE Becomes(w, r) /\ UNCHANGED repo
  <2>1. RunInv(r, repo)
    BY <1>2, <1>3, <1>4, <1>8 DEF RunInv, Unwritten, Adding, ToSave, Announced, ToOpen
  <2>2. RunInv(r, repo')
    BY <1>10, <2>1
  <2>3. QED
    BY <1>6, <1>7, <1>10, <2>2, StepKeepsRuns
<1>11. CASE Becomes(w, [r EXCEPT !.hurt = TRUE]) /\ UNCHANGED repo
  <2> DEFINE q == [r EXCEPT !.hurt = TRUE]
  <2>1. q.at = "answer" /\ q.base = r.base /\ q.hurt = TRUE
    BY <1>3 DEF BridgeRun
  <2> HIDE DEF q
  <2>2. RunInv(q, repo)
    BY <1>2, <1>3, <2>1 DEF RunInv, Unwritten, Adding, ToSave, Announced, ToOpen
  <2>3. RunInv(q, repo')
    BY <1>11, <2>2
  <2>4. QED
    BY <1>6, <1>7, <1>11, <2>3, StepKeepsRuns DEF q
<1>12. QED
  BY <1>6, <1>9, <1>10, <1>11

\* The proposal a run applies is one the default branch has, however old its checkout is.
LEMMA ApplyKeepsRuns ==
    ASSUME RepoOK, BridgeTypeOK, RunsHold, NEW w \in Runs, Apply(w)
    PROVE  RunsHold'
<1> DEFINE r == run[w]
           t == ThreadOf(r)
<1>1. /\ r.at = "apply" /\ r \in BridgeRun /\ t \in Threads /\ r.patches \in Seq(Patches)
      /\ RunInv(r, repo) /\ UNCHANGED repo /\ RepoOK' /\ Grows(repo, repo')
      /\ repo.patches[t] \in Seq(Patches)
  BY CommentsAssumption, RepoType
     DEF Apply, At, BridgeTypeOK, RepoOK, RunsHold, Grows, ThreadOf, Threaded, BridgeRun
<1>2. CASE \E text \in Told \ {"propose"} : Answers(w, text)
  BY <1>1, <1>2, AnswersKeepsRuns
<1>3. CASE Crashes(w)
  BY <1>1, <1>3, CrashesKeepsRuns
<1>4. CASE /\ Picked(w) \in Candidates(w)
           /\ Becomes(w, [r EXCEPT !.at = "branch", !.pid = Picked(w), !.patch = r.patches[Picked(w)]])
  <2> DEFINE n == Picked(w)
             q == [r EXCEPT !.at = "branch", !.pid = n, !.patch = r.patches[n]]
  <2>1. /\ q.at = "branch" /\ q.base = r.base /\ q.comment = r.comment /\ q.pid = n /\ q.patch = r.patches[n]
    BY <1>1 DEF BridgeRun
  <2>2. Becomes(w, q)
    BY <1>4
  <2> HIDE DEF q, n
  <2>3. n \in DOMAIN r.patches /\ Begins(r.patches, repo.patches[t]) /\ r.base <= repo.rev
    BY <1>1, <1>4 DEF n, Candidates, RunInv, Unwritten
  <2>4. Recorded(repo, t, n, r.patches[n])
    BY <1>1, <2>3, BeginsKeeps DEF Recorded
  <2>5. RunInv(q, repo)
    BY <2>1, <2>3, <2>4 DEF RunInv, Unwritten, Adding, ToSave, Announced, ToOpen, ThreadOf
  <2>6. RunInv(q, repo')
    BY <1>1, <2>5
  <2>7. QED
    BY <1>1, <2>2, <2>6, StepKeepsRuns
<1>5. QED
  <2>1. {"no proposals", "not found", "refused by guardrails", "failed"} \subseteq Told \ {"propose"}
    BY DEF Told
  <2>2. QED
    BY <1>2, <1>3, <1>4, <2>1 DEF Apply

LEMMA RespondKeepsRuns ==
    ASSUME RepoOK, BridgeTypeOK, RunsHold, NEW w \in Runs, Respond(w)
    PROVE  RunsHold'
<1> DEFINE r == run[w]
<1>1. /\ r.at = "answer" /\ r \in BridgeRun /\ RunInv(r, repo) /\ UNCHANGED repo /\ RepoOK' /\ Grows(repo, repo')
      /\ repo.rev \in Nat
  BY RepoType DEF Respond, At, BridgeTypeOK, RepoOK, RunsHold, Grows
<1>2. CASE Completes(w)
  <2> DEFINE q == [Idle EXCEPT !.comment = r.comment, !.at = "answered", !.told = r.told,
                               !.pid = r.pid, !.patch = r.patch, !.hurt = r.hurt]
  <2>1. /\ q.at = "answered" /\ q.base = 0 /\ q.comment = r.comment /\ q.told = r.told /\ q.pid = r.pid
        /\ q.patch = r.patch /\ q.hurt = r.hurt
    BY DEF Idle
  <2>2. Becomes(w, q)
    BY <1>2 DEF Completes
  <2> HIDE DEF q
  <2>3. Announced(q, repo)
    BY <1>1, <2>1 DEF RunInv, Announced, VerbOf, ThreadOf
  <2>4. RunInv(q, repo)
    BY <1>1, <2>1, <2>3 DEF RunInv, Unwritten, Adding, ToSave, ToOpen
  <2>5. RunInv(q, repo')
    BY <1>1, <2>4
  <2>6. QED
    BY <1>1, <2>2, <2>5, StepKeepsRuns
<1>3. CASE Crashes(w)
  BY <1>1, <1>3, CrashesKeepsRuns
<1>4. QED
  BY <1>2, <1>3 DEF Respond

\* Steps that open the branch and the pull request of what was applied.
LEMMA OpeningKeepsRuns ==
    ASSUME RepoOK, BridgeTypeOK, RunsHold, NEW w \in Runs, PushBranch(w) \/ OpenPr(w) \/ LabelPr(w)
    PROVE  RunsHold'
<1> DEFINE r == run[w]
<1>1. /\ r \in BridgeRun /\ RunInv(r, repo) /\ UNCHANGED repo /\ RepoOK' /\ Grows(repo, repo')
  BY DEF PushBranch, OpenPr, LabelPr, BridgeTypeOK, RepoOK, RunsHold, Grows
<1>2. CASE Answers(w, "failed") \/ Answers(w, "apply")
  BY <1>1, <1>2, AnswersKeepsRuns
<1>3. CASE Crashes(w)
  BY <1>1, <1>3, CrashesKeepsRuns
<1>4. CASE r.at = "branch" /\ Goes(w, "pr")
  <2> DEFINE q == [r EXCEPT !.at = "pr"]
  <2>1. q.at = "pr" /\ q.base = r.base /\ q.comment = r.comment /\ q.pid = r.pid /\ q.patch = r.patch
    BY <1>1 DEF BridgeRun
  <2> HIDE DEF q
  <2>2. RunInv(q, repo)
    BY <1>1, <1>4, <2>1 DEF RunInv, Unwritten, Adding, ToSave, Announced, ToOpen, ThreadOf
  <2>3. RunInv(q, repo')
    BY <1>1, <2>2
  <2>4. QED
    BY <1>1, <1>4, <2>3, StepKeepsRuns DEF Goes, q
<1>5. CASE Becomes(w, [r EXCEPT !.at = "label", !.pr = Len(prs) + 1])
  <2> DEFINE q == [r EXCEPT !.at = "label", !.pr = Len(prs) + 1]
  <2>1. q.at = "label" /\ q.base = r.base
    BY <1>1 DEF BridgeRun
  <2> HIDE DEF q
  <2>2. RunInv(q, repo)
    BY <1>1, <2>1 DEF RunInv, Unwritten, Adding, ToSave, Announced, ToOpen
  <2>3. RunInv(q, repo')
    BY <1>1, <2>2
  <2>4. QED
    BY <1>1, <1>5, <2>3, StepKeepsRuns DEF q
<1>6. QED
  BY <1>2, <1>3, <1>4, <1>5 DEF PushBranch, OpenPr, LabelPr, At

-----------------------------------------------------------------------------
(* The pull requests *)

SamePr(p, q) == p.thread = q.thread /\ p.pid = q.pid /\ p.patch = q.patch

\* A step that pushes no branch and opens no pull request.
LEMMA PrsStay ==
    ASSUME RepoOK, RepoOK', PrInv, Grows(repo, repo'), UNCHANGED branches, Numbers' = Numbers,
           \A n \in Numbers : SamePr(prs'[n], prs[n]),
           \A w \in Runs : run'[w].at = "pr" => run'[w] = run[w]
    PROVE  PrInv'
<1>1. repo \in Repos /\ repo' \in Repos
  BY DEF RepoOK, Repos
<1>2. \A w \in Opening' : /\ w \in Opening /\ run'[w].pid = run[w].pid
                          /\ Branch(w)' = Branch(w) /\ Thread(w)' = Thread(w)
  BY DEF Opening, At, Branch, Thread
<1>3. \A n, d : \A t \in Threads : Recorded(repo, t, n, d) => Recorded(repo', t, n, d)
  BY <1>1, RecordedStays
<1>4. \A n \in Numbers : prs'[n].thread \in Threads =>
          /\ [thread |-> prs'[n].thread, pid |-> prs'[n].pid] \in branches'
          /\ Recorded(repo', prs'[n].thread, prs'[n].pid, prs'[n].patch)
  BY <1>3 DEF PrInv, SamePr
<1>5. \A n, k \in Numbers :
          (prs'[n].thread \in Threads /\ prs'[k].thread = prs'[n].thread /\ prs'[k].pid = prs'[n].pid) => k = n
  BY DEF PrInv, SamePr
<1>6. \A w \in Opening' : Branch(w)' \in branches'
  BY <1>2 DEF PrInv
<1>7. \A w \in Opening', n \in Numbers : ~(prs'[n].thread = Thread(w)' /\ prs'[n].pid = run'[w].pid)
  BY <1>2 DEF PrInv, SamePr
<1>8. \A w, u \in Opening' : Branch(u)' = Branch(w)' => u = w
  BY <1>2 DEF PrInv
<1>9. QED
  BY <1>4, <1>5, <1>6, <1>7, <1>8 DEF PrInv

\* The steps of the bridge up to the branch, and the answer.
LEMMA BridgeKeepsPrs ==
    ASSUME RepoOK, RepoOK', PrInv, Grows(repo, repo'), UNCHANGED <<branches, prs>>,
           BridgeTypeOK, NEW w \in Runs, NEW r, Becomes(w, r), r.at # "pr"
    PROVE  PrInv'
<1>1. \A u \in Runs : run'[u].at = "pr" => run'[u] = run[u]
  BY RunMoves
<1>2. Numbers' = Numbers /\ \A n \in Numbers : SamePr(prs'[n], prs[n])
  BY DEF Numbers, SamePr
<1>3. QED
  BY <1>1, <1>2, PrsStay

\* The server takes a branch only once, so no other run is about to open a pull
\* request for the proposal, and none is open.
LEMMA PushBranchKeepsPrs ==
    ASSUME RepoOK, BridgeTypeOK, PrInv, RunsHold, NEW w \in Runs, PushBranch(w)
    PROVE  PrInv'
<1>1. /\ RepoOK' /\ Grows(repo, repo') /\ UNCHANGED <<repo, prs>> /\ Numbers' = Numbers
      /\ Thread(w) \in Threads /\ run[w] \in BridgeRun
  BY CommentsAssumption DEF PushBranch, RepoOK, Grows, Numbers, At, Thread, BridgeTypeOK, Threaded
<1>2. CASE Answers(w, "failed") /\ UNCHANGED branches
  <2> DEFINE q == [run[w] EXCEPT !.at = "answer", !.told = "failed"]
  <2>1. q.at # "pr"
    BY <1>1 DEF BridgeRun
  <2>2. Becomes(w, q)
    BY <1>2 DEF Answers
  <2> HIDE DEF q
  <2>3. QED
    BY <1>1, <1>2, <2>1, <2>2, BridgeKeepsPrs
<1>3. CASE BranchIsFree(w) /\ branches' = branches \cup {Branch(w)} /\ Goes(w, "pr")
  <2>1. /\ run'[w] = [run[w] EXCEPT !.at = "pr"]
        /\ \A u \in Runs \ {w} : run'[u] = run[u]
    BY <1>3, RunMoves DEF Goes
  <2>2. Branch(w)' = Branch(w) /\ Thread(w)' = Thread(w) /\ run'[w].pid = run[w].pid
    BY <1>1, <2>1 DEF Branch, Thread, BridgeRun
  <2>3. \A u \in Opening' : u = w \/ (u \in Opening /\ u # w)
    BY <2>1 DEF Opening, At
  <2>4. \A u \in Opening : u # w => /\ Branch(u)' = Branch(u) /\ Thread(u)' = Thread(u)
                                    /\ run'[u].pid = run[u].pid
    BY <2>1 DEF Opening, Branch, Thread
  <2>5. \A u \in Opening : Branch(u) # Branch(w)
    BY <1>3 DEF PrInv, BranchIsFree
  <2>6. \A n \in Numbers : ~(prs[n].thread = Thread(w) /\ prs[n].pid = run[w].pid)
    BY <1>1, <1>3 DEF PrInv, BranchIsFree, Branch
  <2>7. \A u \in Opening' : Branch(u)' \in branches'
    BY <1>3, <2>2, <2>3, <2>4 DEF PrInv
  <2>8. \A u \in Opening', n \in Numbers' : ~(prs'[n].thread = Thread(u)' /\ prs'[n].pid = run'[u].pid)
    BY <1>1, <2>2, <2>3, <2>4, <2>6 DEF PrInv
  <2>9. \A u, x \in Opening' : Branch(u)' = Branch(x)' => u = x
    BY <2>2, <2>3, <2>4, <2>5 DEF PrInv
  <2>10. \A n \in Numbers' : prs'[n].thread \in Threads =>
          /\ [thread |-> prs'[n].thread, pid |-> prs'[n].pid] \in branches'
          /\ Recorded(repo', prs'[n].thread, prs'[n].pid, prs'[n].patch)
    BY <1>1, <1>3 DEF PrInv, Recorded
  <2>11. \A n, k \in Numbers' :
          (prs'[n].thread \in Threads /\ prs'[k].thread = prs'[n].thread /\ prs'[k].pid = prs'[n].pid) => k = n
    BY <1>1 DEF PrInv
  <2>12. QED
    BY <2>7, <2>8, <2>9, <2>10, <2>11 DEF PrInv
<1>4. QED
  BY <1>2, <1>3 DEF PushBranch

\* What is opened is the proposal that was pushed, by the one run that pushed it.
LEMMA OpenPrKeepsPrs ==
    ASSUME RepoOK, BridgeTypeOK, PrInv, RunsHold, prs \in Seq(PullRequest), NEW w \in Runs, OpenPr(w)
    PROVE  PrInv'
<1>1. /\ RepoOK' /\ Grows(repo, repo') /\ UNCHANGED <<repo, branches>>
      /\ run[w] \in BridgeRun /\ w \in Opening /\ Thread(w) \in Threads
      /\ run[w].pid \in Nat /\ run[w].patch \in Patches
  BY CommentsAssumption
     DEF OpenPr, RepoOK, Grows, At, Opening, Thread, BridgeTypeOK, Threaded, BridgeRun
<1>2. CASE Crashes(w) /\ UNCHANGED prs
  <2> DEFINE q == [Idle EXCEPT !.at = "crashed"]
  <2>1. q.at # "pr"
    BY DEF Idle
  <2>2. Becomes(w, q)
    BY <1>2 DEF Crashes
  <2> HIDE DEF q
  <2>3. QED
    BY <1>1, <1>2, <2>1, <2>2, BridgeKeepsPrs
<1>3. CASE /\ prs' = Append(prs, NewPr(w))
           /\ Becomes(w, [run[w] EXCEPT !.at = "label", !.pr = Len(prs) + 1])
  <2> DEFINE m == Len(prs) + 1
             p == NewPr(w)
  <2>1. p \in PullRequest /\ p.thread = Thread(w) /\ p.pid = run[w].pid /\ p.patch = run[w].patch
    BY <1>1 DEF NewPr, PullRequest, PrHead
  <2> HIDE DEF p
  <2>2. /\ Numbers' = Numbers \cup {m} /\ m \notin Numbers /\ prs'[m] = p
        /\ \A n \in Numbers : prs'[n] = prs[n]
    BY <1>3, <2>1, PrOpened DEF p
  <2> HIDE DEF m
  <2>3. run'[w].at = "label" /\ \A u \in Runs \ {w} : run'[u] = run[u]
    <3>1. [run[w] EXCEPT !.at = "label", !.pr = Len(prs) + 1].at = "label"
      BY <1>1 DEF BridgeRun
    <3>2. QED
      BY <1>3, <3>1, RunMoves
  <2>4. \A u \in Opening' : /\ u \in Opening /\ u # w /\ run'[u].pid = run[u].pid
                            /\ Branch(u)' = Branch(u) /\ Thread(u)' = Thread(u)
    BY <2>3 DEF Opening, At, Branch, Thread
  <2>5. Branch(w) \in branches /\ Recorded(repo, Thread(w), run[w].pid, run[w].patch)
    BY <1>1 DEF PrInv, RunsHold, RunInv, ToOpen, Opening, At, Thread, ThreadOf
  <2>6. \A n \in Numbers' : prs'[n].thread \in Threads =>
          /\ [thread |-> prs'[n].thread, pid |-> prs'[n].pid] \in branches'
          /\ Recorded(repo', prs'[n].thread, prs'[n].pid, prs'[n].patch)
    <3>1. CASE TRUE
      <4> TAKE n \in Numbers'
      <4>1. CASE n = m
        BY <1>1, <2>1, <2>2, <2>5, <4>1 DEF Branch
      <4>2. CASE n \in Numbers
        BY <1>1, <2>2, <4>2 DEF PrInv
      <4>3. QED
        BY <2>2, <4>1, <4>2
    <3>2. QED
      BY <3>1
  <2>7. \A n \in Numbers : ~(prs[n].thread = Thread(w) /\ prs[n].pid = run[w].pid)
    BY <1>1 DEF PrInv
  <2>8. \A n, k \in Numbers' :
          (prs'[n].thread \in Threads /\ prs'[k].thread = prs'[n].thread /\ prs'[k].pid = prs'[n].pid) => k = n
    BY <2>1, <2>2, <2>7 DEF PrInv
  <2>9. \A u \in Opening' : Branch(u)' \in branches'
    BY <1>1, <2>4 DEF PrInv
  <2>10. \A u \in Opening', n \in Numbers' : ~(prs'[n].thread = Thread(u)' /\ prs'[n].pid = run'[u].pid)
    <3> SUFFICES ASSUME NEW u \in Opening', NEW n \in Numbers',
                        prs'[n].thread = Thread(u) /\ prs'[n].pid = run[u].pid
                 PROVE  FALSE
      BY <2>4
    <3>1. CASE n \in Numbers
      BY <2>2, <2>4, <3>1 DEF PrInv
    <3>2. CASE n = m
      <4>1. Branch(u) = Branch(w)
        BY <2>1, <2>2, <3>2 DEF Branch
      <4>2. QED
        BY <1>1, <2>4, <4>1 DEF PrInv
    <3>3. QED
      BY <2>2, <3>1, <3>2
  <2>11. \A u, x \in Opening' : Branch(u)' = Branch(x)' => u = x
    BY <2>4 DEF PrInv
  <2>12. QED
    BY <2>6, <2>8, <2>9, <2>10, <2>11 DEF PrInv
<1>4. QED
  BY <1>2, <1>3 DEF OpenPr, NewPr

LEMMA AnsweredAt ==
    ASSUME BridgeTypeOK, NEW w \in Runs, NEW text
    PROVE  [run[w] EXCEPT !.at = "answer", !.told = text].at = "answer"
BY DEF BridgeTypeOK, BridgeRun

LEMMA LabelPrKeepsPrs ==
    ASSUME RepoOK, BridgeTypeOK, PrInv, prs \in Seq(PullRequest), NEW w \in Runs, LabelPr(w)
    PROVE  PrInv'
<1>1. /\ RepoOK' /\ Grows(repo, repo') /\ UNCHANGED branches /\ run[w] \in BridgeRun /\ run[w].pr \in Numbers
  BY DEF LabelPr, RepoOK, Grows, At, BridgeTypeOK
<1>2. Numbers' = Numbers /\ \A n \in Numbers : SamePr(prs'[n], prs[n])
  <2>1. CASE UNCHANGED prs
    BY <2>1 DEF Numbers, SamePr
  <2>2. CASE WithLabels(run[w].pr, {"codex-proposal", "needs-human-review"})
    BY <1>1, <2>2, PrLabelled DEF Labels, SamePr
  <2>3. QED
    BY <2>1, <2>2 DEF LabelPr
<1>3. \A u \in Runs : run'[u].at = "pr" => run'[u] = run[u]
  <2>1. CASE Answers(w, "apply")
    <3> DEFINE q == [run[w] EXCEPT !.at = "answer", !.told = "apply"]
    <3>1. Becomes(w, q) /\ q.at = "answer"
      BY <2>1, AnsweredAt DEF Answers
    <3> HIDE DEF q
    <3>2. QED
      BY <3>1, RunMoves
  <2>2. CASE Crashes(w)
    <3>1. run'[w].at = "crashed" /\ \A u \in Runs \ {w} : run'[u] = run[u]
      BY <2>2, RunMoves DEF Crashes, Idle
    <3>2. QED
      BY <3>1
  <2>3. QED
    BY <2>1, <2>2 DEF LabelPr
<1>4. QED
  BY <1>1, <1>2, <1>3, PrsStay

\* The other steps of a run never are at the step that opens a pull request.
LEMMA OtherStepsKeepPrs ==
    ASSUME RepoOK, RepoOK', BridgeTypeOK, PrInv, Grows(repo, repo'), NEW w \in Runs,
           \/ \E c \in Comments : Start(w, c)
           \/ Gate(w) \/ CallLlm(w) \/ SaveProposal(w) \/ SaveSession(w) \/ Apply(w) \/ Respond(w)
    PROVE  PrInv'
<1>1. UNCHANGED <<branches, prs>>
  BY DEF Start, Gate, CallLlm, SaveProposal, SaveSession, Apply, Respond
<1>2. ASSUME NEW r, Becomes(w, r), r.at # "pr"
      PROVE  PrInv'
  BY <1>1, <1>2, BridgeKeepsPrs
<1>3. CASE \E text : Answers(w, text)
  <2>1. PICK text : Answers(w, text)
    BY <1>3
  <2>2. QED
    BY <1>2, <2>1, AnsweredAt DEF Answers
<1>4. CASE Crashes(w)
  <2>1. [Idle EXCEPT !.at = "crashed"].at = "crashed"
    BY DEF Idle
  <2>2. QED
    BY <1>2, <1>4, <2>1 DEF Crashes
<1>5. CASE \E x \in {"llm", "apply"} : Goes(w, x)
  <2>1. PICK x \in {"llm", "apply"} : Goes(w, x)
    BY <1>5
  <2>2. [run[w] EXCEPT !.at = x].at = x
    BY DEF BridgeTypeOK, BridgeRun
  <2>3. QED
    BY <1>2, <2>1, <2>2 DEF Goes
<1>6. ASSUME NEW r \in BridgeRun, Push(w, r), r.at # "pr"
      PROVE  PrInv'
  <2>1. /\ [r EXCEPT !.base = repo.rev + 1, !.ahead = FALSE, !.hurt = FALSE].at = r.at
        /\ [r EXCEPT !.hurt = TRUE].at = r.at
    BY <1>6 DEF BridgeRun
  <2>2. QED
    BY <1>2, <1>6, <2>1 DEF Push
<1>7. ASSUME NEW c \in Comments, Start(w, c)
      PROVE  PrInv'
  <2> DEFINE q == [Idle EXCEPT !.comment = c, !.at = "gate", !.base = repo.rev,
                               !.session = Loaded(repo.sessions[c.thread]),
                               !.file = repo.sessions[c.thread],
                               !.patches = repo.patches[c.thread]]
  <2>1. q.at = "gate"
    BY DEF Idle
  <2>2. Becomes(w, q)
    BY <1>7 DEF Start
  <2> HIDE DEF q
  <2>3. QED
    BY <1>2, <2>1, <2>2
<1>8. CASE Gate(w)
  <2>1. CASE \E x : Becomes(w, [run[w] EXCEPT !.at = "session", !.session.status = x])
    <3>1. PICK x : Becomes(w, [run[w] EXCEPT !.at = "session", !.session.status = x])
      BY <2>1
    <3>2. [run[w] EXCEPT !.at = "session", !.session.status = x].at = "session"
      BY DEF BridgeTypeOK, BridgeRun
    <3>3. QED
      BY <1>2, <3>1, <3>2
  <2>2. QED
    BY <1>3, <1>4, <1>5, <1>8, <2>1 DEF Gate
<1>9. CASE CallLlm(w)
  <2>1. CASE \E m : Becomes(w, [run[w] EXCEPT !.at = "session", !.session.msgs = m])
    <3>1. PICK m : Becomes(w, [run[w] EXCEPT !.at = "session", !.session.msgs = m])
      BY <2>1
    <3>2. [run[w] EXCEPT !.at = "session", !.session.msgs = m].at = "session"
      BY DEF BridgeTypeOK, BridgeRun
    <3>3. QED
      BY <1>2, <3>1, <3>2
  <2>2. CASE \E d : Becomes(w, [run[w] EXCEPT !.at = "proposal", !.patch = d])
    <3>1. PICK d : Becomes(w, [run[w] EXCEPT !.at = "proposal", !.patch = d])
      BY <2>2
    <3>2. [run[w] EXCEPT !.at = "proposal", !.patch = d].at = "proposal"
      BY DEF BridgeTypeOK, BridgeRun
    <3>3. QED
      BY <1>2, <3>1, <3>2
  <2>3. QED
    BY <1>3, <1>9, <2>1, <2>2 DEF CallLlm
<1>10. CASE SaveProposal(w)
  <2>1. Push(w, WithProposal(w)) /\ run[w].at = "proposal"
    BY <1>10 DEF SaveProposal, WithProposal, At
  <2>2. WithProposal(w) \in BridgeRun /\ WithProposal(w).at = "session"
    BY <2>1, ProposalSaved
  <2>3. QED
    BY <1>6, <2>1, <2>2
<1>11. CASE SaveSession(w)
  <2>1. Push(w, WithSession(w)) /\ run[w].at = "session"
    BY <1>11 DEF SaveSession, WithSession, At
  <2>2. WithSession(w) \in BridgeRun /\ WithSession(w).at = "answer"
    BY <2>1, SessionSaved
  <2>3. QED
    BY <1>6, <2>1, <2>2
<1>12. CASE Apply(w)
  <2>1. CASE \E n, d : Becomes(w, [run[w] EXCEPT !.at = "branch", !.pid = n, !.patch = d])
    <3>1. PICK n, d : Becomes(w, [run[w] EXCEPT !.at = "branch", !.pid = n, !.patch = d])
      BY <2>1
    <3>2. [run[w] EXCEPT !.at = "branch", !.pid = n, !.patch = d].at = "branch"
      BY DEF BridgeTypeOK, BridgeRun
    <3>3. QED
      BY <1>2, <3>1, <3>2
  <2>2. QED
    BY <1>3, <1>4, <1>12, <2>1 DEF Apply
<1>13. CASE Respond(w)
  <2>1. CASE Completes(w)
    <3> DEFINE r == run[w]
               q == [Idle EXCEPT !.comment = r.comment, !.at = "answered", !.told = r.told,
                                 !.pid = r.pid, !.patch = r.patch, !.hurt = r.hurt]
    <3>1. q.at = "answered"
      BY DEF Idle
    <3>2. Becomes(w, q)
      BY <2>1 DEF Completes
    <3> HIDE DEF q
    <3>3. QED
      BY <1>2, <3>1, <3>2
  <2>2. QED
    BY <1>4, <1>13, <2>1 DEF Respond
<1>14. QED
  BY <1>7, <1>8, <1>9, <1>10, <1>11, <1>12, <1>13

-----------------------------------------------------------------------------
(* The reviews *)

\* A run that has begun goes on serving the same call.
KeepsCalls == \A u \in Reviews : rev[u].at # "idle" => rev'[u].at # "idle" /\ rev'[u].call = rev[u].call
\* A review once frozen stays.
KeepsFrozen == \A n \in Numbers : Frozen(n).review # Nothing => Frozen(n)'.review = Frozen(n).review

Caused(n) == \/ \E r \in posted : r.pr = n /\ r.text # Refusal
             \/ \E u \in {x \in Reviews : ~RAt(x, "idle")} :
                   Call(u).pr = n /\ NoPost(Call(u)) /\ ~NoLabels(Call(u))
Marked(n) == "codex-reviewed" \in prs[n].labels

LEMMA CauseStays ==
    ASSUME KeepsCalls, posted \subseteq posted', NEW n, Caused(n)
    PROVE  Caused(n)'
<1>1. CASE \E r \in posted : r.pr = n /\ r.text # Refusal
  BY <1>1 DEF Caused
<1>2. CASE \E u \in {x \in Reviews : ~RAt(x, "idle")} : Call(u).pr = n /\ NoPost(Call(u)) /\ ~NoLabels(Call(u))
  <2>1. PICK u \in Reviews : rev[u].at # "idle" /\ Call(u).pr = n /\ NoPost(Call(u)) /\ ~NoLabels(Call(u))
    BY <1>2 DEF RAt
  <2>2. rev'[u].at # "idle" /\ Call(u)' = Call(u)
    BY <2>1 DEF KeepsCalls, Call
  <2>3. QED
    BY <2>1, <2>2 DEF Caused, RAt, NoPost, NoLabels
<1>3. QED
  BY <1>1, <1>2 DEF Caused

\* A step keeps the order of the reviews when what it posts, saves and marks is
\* in order, and the run that takes it is.
LEMMA ReviewsStay ==
    ASSUME ReviewerTypeOK, ReviewInv, KeepsCalls, KeepsFrozen, posted \subseteq posted',
           \A r \in posted' \ posted :
              /\ r.by \in Reviews /\ rev[r.by].at # "idle"
              /\ r.text # Refusal /\ Freezes(r.by) => Frozen(r.pr)'.review = r.text,
           \A r \in saved' \ saved :
              /\ r.by \in Reviews /\ rev[r.by].at # "idle"
              /\ r \in posted \/ NoPost(Call(r.by)),
           \A u \in Reviews :
              \/ rev'[u] = rev[u]
              \/ /\ rev'[u].at = "post" /\ Freezes(u)' => Frozen(Call(u).pr)'.review = rev'[u].seen.review
                 /\ rev'[u].at \in {"mark", "save"} => NoPost(Call(u))' \/ Review(u)' \in posted',
           \A n \in Numbers' : Marked(n)' => (n \in Numbers /\ Marked(n)) \/ Caused(n)
    PROVE  ReviewInv'
<1>1. \A r \in posted \cup saved : /\ r.by \in Reviews /\ r.pr \in Numbers /\ rev[r.by].at # "idle"
                                   /\ r.text # Refusal => r.text \in Critiques /\ r.text # Nothing
  BY NothingAssumption DEF ReviewerTypeOK, ReviewInv
<1>2. \A u \in Reviews : rev[u].at # "idle" => rev'[u].at # "idle" /\ Call(u)' = Call(u)
  BY DEF KeepsCalls, Call
<1>3. \A u \in Reviews : rev[u].at # "idle" => (Freezes(u)' <=> Freezes(u)) /\ (NoPost(Call(u))' <=> NoPost(Call(u)))
  BY <1>2 DEF Freezes, NoPost, Local
<1>4. \A r \in posted' : r.text # Refusal /\ Freezes(r.by)' => Frozen(r.pr)'.review = r.text
  <2> TAKE r \in posted'
  <2>1. CASE r \in posted
    BY <1>1, <1>3, <2>1 DEF ReviewInv, KeepsFrozen
  <2>2. CASE r \notin posted
    BY <1>3, <2>2
  <2>3. QED
    BY <2>1, <2>2
<1>5. \A u \in Reviews : rev'[u].at = "post" /\ Freezes(u)' => Frozen(Call(u).pr)'.review = rev'[u].seen.review
  <2> SUFFICES ASSUME NEW u \in Reviews, rev'[u].at = "post", Freezes(u)'
               PROVE  Frozen(Call(u).pr)'.review = rev'[u].seen.review
    OBVIOUS
  <2>1. CASE rev'[u] = rev[u]
    <3>1. rev[u].at = "post" /\ Call(u)' = Call(u) /\ Freezes(u) /\ rev[u].seen.review # Nothing /\ Call(u).pr \in Numbers
      BY <1>2, <1>3, <2>1, NothingAssumption DEF ReviewerTypeOK
    <3>2. Frozen(Call(u).pr).review = rev[u].seen.review
      BY <3>1 DEF ReviewInv
    <3>3. Frozen(Call(u).pr)'.review = Frozen(Call(u).pr).review
      BY <3>1, <3>2 DEF KeepsFrozen, Frozen
    <3>4. QED
      BY <2>1, <3>2, <3>3
  <2>2. QED
    BY <2>1
<1>6. \A u \in Reviews : rev'[u].at \in {"mark", "save"} => NoPost(Call(u))' \/ Review(u)' \in posted'
  <2> SUFFICES ASSUME NEW u \in Reviews, rev'[u].at \in {"mark", "save"}
               PROVE  NoPost(Call(u))' \/ Review(u)' \in posted'
    OBVIOUS
  <2>1. CASE rev'[u] = rev[u]
    <3>1. Call(u)' = Call(u) /\ Review(u)' = Review(u) /\ rev[u].at \in {"mark", "save"}
      BY <2>1 DEF Call, Review
    <3>2. NoPost(Call(u)) \/ Review(u) \in posted
      BY <3>1 DEF ReviewInv
    <3>3. QED
      BY <1>3, <3>1, <3>2
  <2>2. QED
    BY <2>1
<1>7. \A r \in posted' \cup saved' : rev'[r.by].at # "idle"
  BY <1>1, <1>2
<1>8. \A r \in saved' : r \in posted' \/ NoPost(Call(r.by))'
  <2> TAKE r \in saved'
  <2>1. CASE r \in saved
    <3>1. r \in posted \/ NoPost(Call(r.by))
      BY <2>1 DEF ReviewInv, RecordFollowsReview
    <3>2. QED
      BY <1>1, <1>3, <2>1, <3>1
  <2>2. CASE r \notin saved
    BY <1>3, <2>2
  <2>3. QED
    BY <2>1, <2>2
<1>9. \A n \in Numbers' : Marked(n)' => Caused(n)'
  <2> SUFFICES ASSUME NEW n \in Numbers', Marked(n)' PROVE Caused(n)'
    OBVIOUS
  <2>1. n \in Numbers /\ Marked(n) => Caused(n)
    BY DEF ReviewInv, RecordFollowsReview, Marked, Caused
  <2>2. QED
    BY <2>1, CauseStays
<1>10. RecordFollowsReview'
  BY <1>8, <1>9 DEF RecordFollowsReview, Marked, Caused
<1>11. QED
  BY <1>4, <1>5, <1>6, <1>7, <1>10 DEF ReviewInv

\* The steps of the bridge, of its users and of the authors.
LEMMA OthersKeepReviews ==
    ASSUME ReviewerTypeOK, ReviewInv, UNCHANGED <<cache, posted, saved, rev>>,
           \A n \in Numbers' : Marked(n)' => n \in Numbers /\ Marked(n)
    PROVE  ReviewInv'
<1>1. KeepsCalls /\ KeepsFrozen
  BY DEF KeepsCalls, KeepsFrozen, Frozen
<1>2. QED
  BY <1>1, ReviewsStay

LEMMA RevStep ==
    ASSUME ReviewerTypeOK, NEW v \in Reviews, NEW q, rev' = [rev EXCEPT ![v] = q],
           rev[v].at = "idle" \/ (q.call = rev[v].call /\ q.at # "idle")
    PROVE  KeepsCalls /\ rev'[v] = q /\ \A u \in Reviews \ {v} : rev'[u] = rev[u]
BY RevMoves DEF KeepsCalls

\* Steps before the critique, and those that end a run.
LEMMA QuietStep ==
    ASSUME ReviewerTypeOK, ReviewInv, NEW v \in Reviews, NEW q, rev' = [rev EXCEPT ![v] = q],
           rev[v].at = "idle" \/ (q.call = rev[v].call /\ q.at # "idle"),
           q.at \notin {"post", "mark", "save"}, UNCHANGED <<prs, saved>>, KeepsFrozen, posted \subseteq posted',
           \A r \in posted' \ posted : r.by \in Reviews /\ rev[r.by].at # "idle" /\ r.text = Refusal
    PROVE  ReviewInv'
<1>1. KeepsCalls /\ rev'[v] = q /\ \A u \in Reviews \ {v} : rev'[u] = rev[u]
  BY RevStep
<1>2. \A n \in Numbers' : Marked(n)' => n \in Numbers /\ Marked(n)
  BY DEF Numbers, Marked
<1>3. QED
  BY <1>1, <1>2, ReviewsStay

LEMMA ExitKeepsReviews ==
    ASSUME ReviewerTypeOK, ReviewInv, NEW v \in Reviews, NEW code \in {"0", "2", "3"}, Exit(v, code),
           UNCHANGED <<prs, saved>>, KeepsFrozen, posted \subseteq posted',
           \A r \in posted' \ posted : r.by \in Reviews /\ rev[r.by].at # "idle" /\ r.text = Refusal
    PROVE  ReviewInv'
<1> DEFINE q == [Unstarted EXCEPT !.call = Call(v), !.at = code]
<1>1. rev' = [rev EXCEPT ![v] = q] /\ q.at = code /\ q.call = rev[v].call
  BY DEF Exit, Unstarted, Call
<1> HIDE DEF q
<1>2. QED
  BY <1>1, QuietStep

\* What is frozen in the clone changes in one place.
LEMMA Freezing ==
    ASSUME NEW n, NEW field, NEW x, Freeze(n, field, x)
    PROVE  \A k \in Numbers : Frozen(k)' = IF k = n THEN [Frozen(n) EXCEPT ![field] = x] ELSE Frozen(k)
BY DEF Freeze, Frozen

LEMMA StartKeepsReviews ==
    ASSUME ReviewerTypeOK, ReviewInv, NEW v \in Reviews, NEW c \in Requests, RStart(v, c)
    PROVE  ReviewInv'
<1> DEFINE code == IF Ignored /\ ~Quiet(c) THEN "2" ELSE "label"
           q == [Unstarted EXCEPT !.call = c, !.base = repo.rev, !.head = prs[c.pr].head.rev, !.at = code]
<1>1. q.at = code /\ code \in {"2", "label"}
  BY DEF Unstarted
<1>2. rev[v].at = "idle" /\ rev' = [rev EXCEPT ![v] = q] /\ UNCHANGED <<prs, cache, posted, saved>>
  BY DEF RStart, RAt
<1>3. KeepsFrozen
  BY <1>2 DEF KeepsFrozen, Frozen
<1> HIDE DEF q, code
<1>4. QED
  BY <1>1, <1>2, <1>3, QuietStep

LEMMA GoesKeepsReviews ==
    ASSUME ReviewerTypeOK, ReviewInv, NEW v \in Reviews, NEW step, RGoes(v, step),
           step \notin {"idle", "post", "mark", "save"}, UNCHANGED <<prs, cache, posted, saved>>
    PROVE  ReviewInv'
<1> DEFINE q == [rev[v] EXCEPT !.at = step]
<1>1. rev' = [rev EXCEPT ![v] = q]
  BY DEF RGoes
<1>2. q.at = step /\ q.call = rev[v].call
  BY DEF ReviewerTypeOK, ReviewRun
<1>3. KeepsFrozen
  BY DEF KeepsFrozen, Frozen
<1> HIDE DEF q
<1>4. QED
  BY <1>1, <1>2, <1>3, QuietStep

\* Freezing an input keeps the review that is frozen with it.
LEMMA LoadKeepsReviews ==
    ASSUME ReviewerTypeOK, ReviewInv, NEW v \in Reviews,
           NEW field \in {"pr", "diff", "files"}, NEW next \in {"2", "diff", "scan", "llm"},
           Load(v, field, next), UNCHANGED <<prs, posted, saved>>
    PROVE  ReviewInv'
<1> DEFINE n == Call(v).pr
<1>1. KeepsFrozen
  <2>1. CASE UNCHANGED cache
    BY <2>1 DEF KeepsFrozen, Frozen
  <2>2. CASE Freeze(n, field, prs[n].head)
    <3>1. [Frozen(n) EXCEPT ![field] = prs[n].head].review = Frozen(n).review
      BY FrozenOK DEF Inputs
    <3>2. QED
      BY <2>2, <3>1, Freezing DEF KeepsFrozen
  <2>3. QED
    BY <2>1, <2>2 DEF Load
<1>2. CASE Exit(v, "2")
  BY <1>1, <1>2, ExitKeepsReviews
<1>3. CASE next # "2" /\ \E x : rev' = [rev EXCEPT ![v].seen[field] = x, ![v].at = next]
  <2>1. PICK x : rev' = [rev EXCEPT ![v].seen[field] = x, ![v].at = next]
    BY <1>3
  <2> DEFINE q == [rev[v] EXCEPT !.seen[field] = x, !.at = next]
  <2>2. rev' = [rev EXCEPT ![v] = q] /\ q.at = next /\ q.call = rev[v].call
    BY <2>1 DEF ReviewerTypeOK, ReviewRun
  <2> HIDE DEF q
  <2>3. QED
    BY <1>1, <1>3, <2>2, QuietStep
<1>4. QED
  BY <1>2, <1>3 DEF Load

LEMMA ScanKeepsReviews ==
    ASSUME ReviewerTypeOK, ReviewInv, NEW v \in Reviews, Scan(v)
    PROVE  ReviewInv'
<1>1. rev[v].at = "scan" /\ UNCHANGED <<prs, cache, saved>> /\ KeepsFrozen
  BY DEF Scan, RAt, KeepsFrozen, Frozen
<1>2. CASE /\ posted' = posted \cup {[pr |-> Call(v).pr, by |-> v, text |-> Refusal]}
           /\ Exit(v, "0")
  BY <1>1, <1>2, ExitKeepsReviews
<1>3. CASE Exit(v, "2") /\ UNCHANGED posted
  BY <1>1, <1>3, ExitKeepsReviews
<1>4. CASE RGoes(v, "files") /\ UNCHANGED posted
  BY <1>1, <1>4, GoesKeepsReviews
<1>5. QED
  BY <1>2, <1>3, <1>4 DEF Scan

\* A run that keeps reviews has the one that is frozen, or freezes the one it has.
LEMMA LlmKeepsReviews ==
    ASSUME ReviewerTypeOK, ReviewInv, NEW v \in Reviews, ReviewByLlm(v)
    PROVE  ReviewInv'
<1>0. PICK n \in Numbers : n = Call(v).pr
  BY LlmSteps DEF ReviewerTypeOK
<1>1. rev[v].at = "llm" /\ UNCHANGED <<prs, posted, saved>>
  BY LlmSteps
<1>2. ASSUME NEW x, Has(v, x), KeepsFrozen, Freezes(v) => Frozen(n)'.review = x
      PROVE  ReviewInv'
  <2> DEFINE q == [rev[v] EXCEPT !.seen.review = x, !.at = "post"]
  <2>1. rev' = [rev EXCEPT ![v] = q] /\ q.at = "post" /\ q.call = rev[v].call /\ q.seen.review = x
    BY <1>2 DEF Has, ReviewerTypeOK, ReviewRun, Inputs
  <2> HIDE DEF q
  <2>2. KeepsCalls /\ rev'[v] = q /\ \A u \in Reviews \ {v} : rev'[u] = rev[u]
    BY <1>1, <2>1, RevStep
  <2>3. Call(v)' = Call(v)
    BY <2>1, <2>2 DEF Call
  <2>4. Freezes(v)' => Freezes(v)
    BY <2>3 DEF Freezes
  <2>5. Frozen(Call(v).pr)' = Frozen(n)' /\ rev'[v].seen.review = x /\ rev'[v].at = "post"
    BY <1>0, <2>1, <2>2, <2>3
  <2>6. Freezes(v)' => Frozen(Call(v).pr)'.review = rev'[v].seen.review
    BY <1>2, <2>4, <2>5
  <2>7. \A k \in Numbers' : Marked(k)' => k \in Numbers /\ Marked(k)
    BY <1>1 DEF Numbers, Marked
  <2>8. QED
    BY <1>1, <1>2, <2>2, <2>5, <2>6, <2>7, ReviewsStay
<1>3. Freezes(v) <=> Keeps(v)
  BY DEF Freezes, Keeps, FreezeReview
<1>4. CASE Keeps(v) /\ Frozen(n).review # Nothing /\ Has(v, Frozen(n).review) /\ UNCHANGED cache
  <2>1. KeepsFrozen /\ Frozen(n)'.review = Frozen(n).review
    BY <1>4 DEF KeepsFrozen, Frozen
  <2>2. QED
    BY <1>2, <1>4, <2>1
<1>5. CASE Keeps(v) /\ Frozen(n).review = Nothing /\ Has(v, Critique(v)) /\ Freeze(n, "review", Critique(v))
  <2>1. [Frozen(n) EXCEPT !["review"] = Critique(v)].review = Critique(v)
    BY FrozenOK DEF Inputs
  <2>2. KeepsFrozen
    BY <1>5, Freezing DEF KeepsFrozen
  <2>3. QED
    BY <1>1, <1>2, <1>5, <2>1, <2>2, Freezing
<1>6. CASE ~Keeps(v) /\ Has(v, Critique(v)) /\ UNCHANGED cache
  <2>1. KeepsFrozen
    BY <1>6 DEF KeepsFrozen, Frozen
  <2>2. QED
    BY <1>2, <1>3, <1>6, <2>1
<1>7. CASE (Exit(v, "0") \/ Exit(v, "3")) /\ UNCHANGED cache
  <2>1. KeepsFrozen
    BY <1>7 DEF KeepsFrozen, Frozen
  <2>2. QED
    BY <1>1, <1>7, <2>1, ExitKeepsReviews
<1>8. QED
  BY <1>0, <1>4, <1>5, <1>6, <1>7, LlmSteps

\* A run goes on after a step that does not change what it has seen.
LEMMA SeenStays ==
    ASSUME ReviewerTypeOK, NEW v \in Reviews, NEW step, RGoes(v, step), step # "idle", rev[v].at # "idle"
    PROVE  /\ KeepsCalls /\ \A u \in Reviews \ {v} : rev'[u] = rev[u]
           /\ rev'[v].at = step /\ Call(v)' = Call(v) /\ Review(v)' = Review(v)
<1> DEFINE q == [rev[v] EXCEPT !.at = step]
<1>1. rev' = [rev EXCEPT ![v] = q]
  BY DEF RGoes
<1>2. q.at = step /\ q.call = rev[v].call /\ q.seen = rev[v].seen
  BY DEF ReviewerTypeOK, ReviewRun
<1> HIDE DEF q
<1>3. KeepsCalls /\ rev'[v] = q /\ \A u \in Reviews \ {v} : rev'[u] = rev[u]
  BY <1>1, <1>2, RevStep
<1>4. QED
  BY <1>2, <1>3 DEF Call, Review

LEMMA ExitKeepsCalls ==
    ASSUME ReviewerTypeOK, NEW v \in Reviews, NEW code \in {"0", "2", "3"}, Exit(v, code)
    PROVE  KeepsCalls /\ rev'[v].at = code /\ \A u \in Reviews \ {v} : rev'[u] = rev[u]
<1> DEFINE q == [Unstarted EXCEPT !.call = Call(v), !.at = code]
<1>1. rev' = [rev EXCEPT ![v] = q] /\ q.at = code /\ q.call = rev[v].call
  BY DEF Exit, Unstarted, Call
<1> HIDE DEF q
<1>2. QED
  BY <1>1, RevStep

LEMMA PostKeepsReviews ==
    ASSUME ReviewerTypeOK, ReviewInv, NEW v \in Reviews, Post(v)
    PROVE  ReviewInv'
<1>0. PICK n \in Numbers : n = Call(v).pr
  BY DEF Post, RAt, ReviewerTypeOK
<1>1. /\ rev[v].at = "post" /\ UNCHANGED <<prs, cache, saved>> /\ KeepsFrozen
      /\ \A k \in Numbers : Frozen(k)' = Frozen(k)
      /\ \A k \in Numbers' : Marked(k)' => k \in Numbers /\ Marked(k)
  BY DEF Post, RAt, KeepsFrozen, Frozen, Numbers, Marked
<1>2. /\ Review(v).by = v /\ Review(v).pr = n
      /\ Freezes(v) => Frozen(n)'.review = Review(v).text
  BY <1>0, <1>1 DEF Review, ReviewInv
<1>3. CASE Exit(v, "2") /\ UNCHANGED posted
  BY <1>1, <1>3, ExitKeepsReviews
<1>4. CASE posted' = posted \cup {Review(v)} /\ Exit(v, "2")
  <2>1. KeepsCalls /\ rev'[v].at = "2" /\ \A u \in Reviews \ {v} : rev'[u] = rev[u]
    BY <1>4, ExitKeepsCalls
  <2>2. \A r \in posted' \ posted : /\ r.by \in Reviews /\ rev[r.by].at # "idle"
                                    /\ r.text # Refusal /\ Freezes(r.by) => Frozen(r.pr)'.review = r.text
    BY <1>1, <1>2, <1>4
  <2>3. QED
    BY <1>1, <1>4, <2>1, <2>2, ReviewsStay
<1>5. CASE NoPost(Call(v)) /\ RGoes(v, "mark") /\ UNCHANGED posted
  <2>1. /\ KeepsCalls /\ \A u \in Reviews \ {v} : rev'[u] = rev[u]
        /\ rev'[v].at = "mark" /\ Call(v)' = Call(v)
    BY <1>1, <1>5, SeenStays
  <2>2. NoPost(Call(v))'
    BY <1>5, <2>1 DEF NoPost
  <2>3. QED
    BY <1>1, <1>5, <2>1, <2>2, ReviewsStay
<1>6. CASE posted' = posted \cup {Review(v)} /\ RGoes(v, "mark")
  <2>1. /\ KeepsCalls /\ \A u \in Reviews \ {v} : rev'[u] = rev[u]
        /\ rev'[v].at = "mark" /\ Review(v)' = Review(v)
    BY <1>1, <1>6, SeenStays
  <2>2. \A r \in posted' \ posted : /\ r.by \in Reviews /\ rev[r.by].at # "idle"
                                    /\ r.text # Refusal /\ Freezes(r.by) => Frozen(r.pr)'.review = r.text
    BY <1>1, <1>2, <1>6
  <2>3. Review(v)' \in posted'
    BY <1>6, <2>1
  <2>4. QED
    BY <1>1, <1>6, <2>1, <2>2, <2>3, ReviewsStay
<1>7. QED
  BY <1>3, <1>4, <1>5, <1>6 DEF Post

\* A pull request is marked once its review is there, or need not be.
LEMMA MarkKeepsReviews ==
    ASSUME ReviewerTypeOK, prs \in Seq(PullRequest), ReviewInv, NEW v \in Reviews, MarkReviewed(v)
    PROVE  ReviewInv'
<1>0. PICK n \in Numbers : n = Call(v).pr
  BY DEF MarkReviewed, RAt, ReviewerTypeOK
<1>1. /\ rev[v].at = "mark" /\ UNCHANGED <<cache, posted, saved>> /\ KeepsFrozen
      /\ NoPost(Call(v)) \/ Review(v) \in posted
  BY DEF MarkReviewed, RAt, KeepsFrozen, Frozen, ReviewInv
<1>2. CASE Exit(v, "3") /\ UNCHANGED prs
  BY <1>1, <1>2, ExitKeepsReviews
<1>3. CASE RGoes(v, "save") /\ \A k \in Numbers' : Marked(k)' => (k \in Numbers /\ Marked(k)) \/ Caused(k)
  <2>1. /\ KeepsCalls /\ \A u \in Reviews \ {v} : rev'[u] = rev[u]
        /\ rev'[v].at = "save" /\ Call(v)' = Call(v) /\ Review(v)' = Review(v)
    BY <1>1, <1>3, SeenStays
  <2>2. NoPost(Call(v))' \/ Review(v)' \in posted'
    BY <1>1, <2>1 DEF NoPost
  <2>3. QED
    BY <1>1, <1>3, <2>1, <2>2, ReviewsStay
<1>4. CASE UNCHANGED prs
  <2>1. \A k \in Numbers' : Marked(k)' => k \in Numbers /\ Marked(k)
    BY <1>4 DEF Numbers, Marked
  <2>2. QED
    BY <1>2, <1>3, <1>4, <2>1 DEF MarkReviewed
<1>5. CASE ~NoLabels(Call(v)) /\ WithLabels(Call(v).pr, {"codex-reviewed"}) /\ RGoes(v, "save")
  <2>1. Caused(n)
    <3>1. CASE NoPost(Call(v))
      BY <1>0, <1>1, <1>5, <3>1 DEF Caused, RAt
    <3>2. CASE Review(v) \in posted
      <4>1. Review(v).text # Refusal /\ Review(v).pr = n
        BY <1>0, <1>1, ReviewType DEF Review
      <4>2. QED
        BY <3>2, <4>1 DEF Caused
    <3>3. QED
      BY <1>1, <3>1, <3>2
  <2>2. {"codex-reviewed"} \in SUBSET Labels /\ WithLabels(n, {"codex-reviewed"})
    BY <1>0, <1>5 DEF Labels
  <2>3. \A k \in Numbers' : k \in Numbers /\ (Marked(k)' => Marked(k) \/ k = n)
    BY <2>2, PrLabelled DEF Marked
  <2>4. QED
    BY <1>3, <1>5, <2>1, <2>3
<1>6. QED
  BY <1>4, <1>5 DEF MarkReviewed

LEMMA SaveKeepsReviews ==
    ASSUME ReviewerTypeOK, RepoOK, prs \in Seq(PullRequest), ReviewInv, NEW v \in Reviews, SaveReview(v)
    PROVE  ReviewInv'
<1>1. PICK code \in {"0", "3"} : Exit(v, code)
  BY SaveReviewSteps
<1>2. KeepsCalls /\ rev'[v].at = code /\ \A u \in Reviews \ {v} : rev'[u] = rev[u]
  BY <1>1, ExitKeepsCalls
<1>3. /\ rev[v].at = "save" /\ UNCHANGED <<cache, posted>> /\ KeepsFrozen
      /\ NoPost(Call(v)) \/ Review(v) \in posted
      /\ saved' = saved \/ saved' = saved \cup {Review(v)}
  BY SaveReviewSteps DEF KeepsFrozen, Frozen, ReviewInv
<1>4. \A k \in Numbers' : Marked(k)' => k \in Numbers /\ Marked(k)
  BY SaveReviewSteps DEF Marked
<1>5. Review(v).by = v
  BY DEF Review
<1>6. \A r \in saved' \ saved : /\ r.by \in Reviews /\ rev[r.by].at # "idle"
                                /\ r \in posted \/ NoPost(Call(r.by))
  BY <1>3, <1>5
<1>7. \A u \in Reviews : \/ rev'[u] = rev[u]
                         \/ rev'[u].at \notin {"post", "mark", "save"}
  BY <1>2
<1>8. QED
  BY <1>2, <1>3, <1>4, <1>6, <1>7, ReviewsStay

-----------------------------------------------------------------------------
(* The invariant, and what follows from it *)

LEMMA InitInv == Init => Inv
<1> SUFFICES ASSUME Init PROVE Inv
  OBVIOUS
<1>1. TypeOK /\ repo.rev \in Nat
  BY InitTypes, RepoType, Types
<1>2. RunsHold
  <2>1. Idle.at = "idle" /\ Idle.base = 0
    BY DEF Idle
  <2>2. RunInv(Idle, repo)
    BY <1>1, <2>1 DEF RunInv, Unwritten, Adding, ToSave, Announced, ToOpen
  <2>3. QED
    BY <2>2 DEF RunsHold, Init, BridgeInit
<1>3. PrInv
  <2>1. Opening = {}
    BY DEF Opening, At, Init, BridgeInit, Idle
  <2>2. \A n \in Numbers : prs[n].thread = "human" /\ prs[n].thread \notin Threads
    BY EarlierAssumption DEF Numbers, Init, RepoInit
  <2>3. QED
    BY <2>1, <2>2 DEF PrInv
<1>4. ReviewInv
  <2>1. posted = {} /\ saved = {} /\ \A v \in Reviews : rev[v].at = "idle"
    BY DEF Init, ReviewerInit, Unstarted
  <2>2. \A n \in Numbers : "codex-reviewed" \notin prs[n].labels
    BY EarlierAssumption DEF Numbers, Init, RepoInit
  <2>3. QED
    BY <2>1, <2>2 DEF ReviewInv, RecordFollowsReview
<1>5. QED
  BY <1>1, <1>2, <1>3, <1>4 DEF Inv, BridgeInv, RunsHold

\* A step of the bridge, and what it does to the record of the threads.
LEMMA BridgeKeepsInv ==
    ASSUME Inv, NEW w \in Runs, Bridge(w)
    PROVE  Inv' /\ Trail(repo, repo')
<1>1. /\ TypeOK' /\ RepoOK /\ RepoOK' /\ BridgeTypeOK /\ ReviewerTypeOK /\ prs \in Seq(PullRequest)
      /\ RunsHold /\ PrInv /\ ReviewInv /\ UNCHANGED <<cache, posted, saved, rev>>
  BY BridgeTypes, Types, RepoTypesNext DEF Inv, BridgeInv, RunsHold, Bridge
<1>2. ASSUME RunsHold', PrInv', \A n \in Numbers' : Marked(n)' => n \in Numbers /\ Marked(n)
      PROVE  Inv'
  BY <1>1, <1>2, OthersKeepReviews DEF Inv, BridgeInv, RunsHold
<1>3. UNCHANGED prs => \A n \in Numbers' : Marked(n)' => n \in Numbers /\ Marked(n)
  BY DEF Numbers, Marked
<1>4. UNCHANGED repo => Grows(repo, repo') /\ Trail(repo, repo')
  BY <1>1, TrailItself DEF Grows
<1>5. ASSUME NEW c \in Comments, Start(w, c)
      PROVE  Inv' /\ Trail(repo, repo')
  <2>1. UNCHANGED <<repo, prs>>
    BY <1>5 DEF Start
  <2>2. QED
    BY <1>1, <1>2, <1>3, <1>4, <1>5, <2>1, StartKeepsRuns, OtherStepsKeepPrs
<1>6. CASE Gate(w)
  <2>1. UNCHANGED <<repo, prs>>
    BY <1>6 DEF Gate
  <2>2. QED
    BY <1>1, <1>2, <1>3, <1>4, <1>6, <2>1, GateKeepsRuns, OtherStepsKeepPrs
<1>7. CASE CallLlm(w)
  <2>1. UNCHANGED <<repo, prs>>
    BY <1>7 DEF CallLlm
  <2>2. QED
    BY <1>1, <1>2, <1>3, <1>4, <1>7, <2>1, CallLlmKeepsRuns, OtherStepsKeepPrs
<1>8. CASE SaveProposal(w)
  <2>1. UNCHANGED prs
    BY <1>8 DEF SaveProposal
  <2>2. QED
    BY <1>1, <1>2, <1>3, <1>8, <2>1, SaveProposalKeepsRuns, OtherStepsKeepPrs
<1>9. CASE SaveSession(w)
  <2>1. UNCHANGED prs
    BY <1>9 DEF SaveSession
  <2>2. QED
    BY <1>1, <1>2, <1>3, <1>9, <2>1, SaveSessionKeepsRuns, OtherStepsKeepPrs
<1>10. CASE Apply(w)
  <2>1. UNCHANGED <<repo, prs>>
    BY <1>10 DEF Apply
  <2>2. QED
    BY <1>1, <1>2, <1>3, <1>4, <1>10, <2>1, ApplyKeepsRuns, OtherStepsKeepPrs
<1>11. CASE PushBranch(w)
  <2>1. UNCHANGED <<repo, prs>>
    BY <1>11 DEF PushBranch
  <2>2. QED
    BY <1>1, <1>2, <1>3, <1>4, <1>11, <2>1, OpeningKeepsRuns, PushBranchKeepsPrs
<1>12. CASE OpenPr(w)
  <2>1. UNCHANGED repo /\ RunsHold' /\ PrInv'
    BY <1>1, <1>12, OpeningKeepsRuns, OpenPrKeepsPrs DEF OpenPr
  <2>2. \A n \in Numbers' : Marked(n)' => n \in Numbers /\ Marked(n)
    <3>1. CASE UNCHANGED prs
      BY <1>3, <3>1
    <3>2. CASE prs' = Append(prs, NewPr(w))
      <4>1. NewPr(w) \in PullRequest /\ NewPr(w).labels = {}
        <5>1. Thread(w) \in Threads /\ run[w].pid \in Nat /\ run[w].patch \in Patches
          BY <1>1, <1>12, CommentsAssumption DEF OpenPr, At, Thread, BridgeTypeOK, Threaded, BridgeRun
        <5>2. QED
          BY <5>1 DEF NewPr, PullRequest, PrHead
      <4>2. QED
        BY <1>1, <3>2, <4>1, PrOpened DEF Marked
    <3>3. QED
      BY <1>12, <3>1, <3>2 DEF OpenPr, NewPr
  <2>3. QED
    BY <1>2, <1>4, <2>1, <2>2
<1>13. CASE LabelPr(w)
  <2>1. UNCHANGED repo /\ RunsHold' /\ PrInv'
    BY <1>1, <1>13, OpeningKeepsRuns, LabelPrKeepsPrs DEF LabelPr
  <2>2. \A n \in Numbers' : Marked(n)' => n \in Numbers /\ Marked(n)
    <3>1. CASE UNCHANGED prs
      BY <1>3, <3>1
    <3>2. CASE WithLabels(run[w].pr, {"codex-proposal", "needs-human-review"})
      <4>1. /\ run[w].pr \in Numbers /\ {"codex-proposal", "needs-human-review"} \in SUBSET Labels
            /\ "codex-reviewed" \notin {"codex-proposal", "needs-human-review"}
        BY <1>1, <1>13 DEF LabelPr, At, BridgeTypeOK, Labels
      <4>2. QED
        BY <1>1, <3>2, <4>1, PrLabelled DEF Marked
    <3>3. QED
      BY <1>13, <3>1, <3>2 DEF LabelPr
  <2>3. QED
    BY <1>2, <1>4, <2>1, <2>2
<1>14. CASE Respond(w)
  <2>1. UNCHANGED <<repo, prs>>
    BY <1>14 DEF Respond
  <2>2. QED
    BY <1>1, <1>2, <1>3, <1>4, <1>14, <2>1, RespondKeepsRuns, OtherStepsKeepPrs
<1>15. QED
  BY <1>5, <1>6, <1>7, <1>8, <1>9, <1>10, <1>11, <1>12, <1>13, <1>14 DEF Bridge, BridgeStep

\* The bridge does not see a step of the reviewer, except that the default branch
\* may have another revision.
LEMMA ReviewerKeepsBridge ==
    ASSUME Inv, RepoOK', UNCHANGED <<run, branches>>, Numbers' = Numbers,
           UNCHANGED repo \/ repo' = [repo EXCEPT !.rev = @ + 1],
           \A n \in Numbers : SamePr(prs'[n], prs[n])
    PROVE  BridgeInv' /\ Trail(repo, repo')
<1>1. RepoOK /\ BridgeTypeOK /\ RunsHold /\ PrInv
  BY Types DEF Inv, BridgeInv, RunsHold
<1>2. repo'.sessions = repo.sessions /\ repo'.patches = repo.patches /\ (repo' = repo \/ repo'.rev = repo.rev + 1)
  BY <1>1 DEF RepoOK
<1>3. Trail(repo, repo')
  BY <1>1, <1>2, TrailItself DEF Trail
<1>4. Grows(repo, repo')
  BY <1>1, <1>2, <1>3, RepoType DEF Grows, Trail
<1>5. RunsHold'
  BY <1>1, <1>4, RunsStay
<1>6. PrInv'
  BY <1>1, <1>4, PrsStay
<1>7. QED
  BY <1>3, <1>5, <1>6 DEF BridgeInv, RunsHold

LEMMA ReviewerKeepsInv ==
    ASSUME Inv, NEW v \in Reviews, Reviewer(v)
    PROVE  Inv' /\ Trail(repo, repo')
<1>1. /\ TypeOK' /\ RepoOK /\ RepoOK' /\ ReviewerTypeOK /\ prs \in Seq(PullRequest)
      /\ ReviewInv /\ UNCHANGED run
  BY ReviewerTypes, Types, RepoTypesNext DEF Inv, Reviewer
<1>2. ASSUME ReviewInv', UNCHANGED branches, Numbers' = Numbers,
             UNCHANGED repo \/ repo' = [repo EXCEPT !.rev = @ + 1],
             \A n \in Numbers : SamePr(prs'[n], prs[n])
      PROVE  Inv' /\ Trail(repo, repo')
  BY <1>1, <1>2, ReviewerKeepsBridge DEF Inv
<1>3. ASSUME ReviewInv', UNCHANGED <<repo, branches, prs>>
      PROVE  Inv' /\ Trail(repo, repo')
  BY <1>2, <1>3 DEF Numbers, SamePr
<1>4. ASSUME NEW c \in Requests, RStart(v, c)
      PROVE  Inv' /\ Trail(repo, repo')
  BY <1>1, <1>3, <1>4, StartKeepsReviews DEF RStart
<1>5. CASE LabelGate(v)
  <2>1. UNCHANGED <<repo, branches, prs, cache, posted, saved>> /\ KeepsFrozen
    BY <1>5 DEF LabelGate, KeepsFrozen, Frozen
  <2>2. CASE Exit(v, "0") \/ Exit(v, "2")
    BY <1>1, <1>3, <2>1, <2>2, ExitKeepsReviews
  <2>3. CASE RGoes(v, "pr")
    BY <1>1, <1>3, <2>1, <2>3, GoesKeepsReviews
  <2>4. QED
    BY <1>5, <2>2, <2>3 DEF LabelGate
<1>6. CASE LoadPr(v)
  <2> DEFINE next == IF Unsafe(Call(v)) THEN "2" ELSE "diff"
  <2>1. next \in {"2", "diff"} /\ Load(v, "pr", next) /\ UNCHANGED <<repo, branches, prs, posted, saved>>
    BY <1>6 DEF LoadPr
  <2> HIDE DEF next
  <2>2. QED
    BY <1>1, <1>3, <2>1, LoadKeepsReviews
<1>7. CASE LoadDiff(v)
  BY <1>1, <1>3, <1>7, LoadKeepsReviews DEF LoadDiff
<1>8. CASE Scan(v)
  BY <1>1, <1>3, <1>8, ScanKeepsReviews DEF Scan
<1>9. CASE LoadFiles(v)
  BY <1>1, <1>3, <1>9, LoadKeepsReviews DEF LoadFiles
<1>10. CASE ReviewByLlm(v)
  BY <1>1, <1>3, <1>10, LlmKeepsReviews, LlmSteps
<1>11. CASE Post(v)
  BY <1>1, <1>3, <1>11, PostKeepsReviews DEF Post
<1>12. CASE MarkReviewed(v)
  <2>1. ReviewInv' /\ UNCHANGED <<repo, branches>> /\ Numbers' = Numbers
    BY <1>1, <1>12, MarkKeepsReviews, MarkType DEF MarkReviewed
  <2>2. \A n \in Numbers : SamePr(prs'[n], prs[n])
    <3>1. CASE UNCHANGED prs
      BY <3>1 DEF SamePr
    <3>2. CASE WithLabels(Call(v).pr, {"codex-reviewed"})
      <4>1. Call(v).pr \in Numbers /\ {"codex-reviewed"} \in SUBSET Labels
        BY <1>1, <1>12 DEF MarkReviewed, RAt, ReviewerTypeOK, Labels
      <4>2. QED
        BY <1>1, <3>2, <4>1, PrLabelled DEF SamePr
    <3>3. QED
      BY <1>12, <3>1, <3>2 DEF MarkReviewed
  <2>3. QED
    BY <1>2, <2>1, <2>2
<1>13. CASE SaveReview(v)
  <2>1. ReviewInv' /\ UNCHANGED branches /\ Numbers' = Numbers
    BY <1>1, <1>13, SaveKeepsReviews, SaveReviewSteps
  <2>2. UNCHANGED repo \/ repo' = [repo EXCEPT !.rev = @ + 1]
    BY <1>1, <1>13, SaveReviewSteps
  <2>3. \A n \in Numbers : SamePr(prs'[n], prs[n])
    BY <1>1, <1>13, SaveReviewSteps DEF SamePr
  <2>4. QED
    BY <1>2, <2>1, <2>2, <2>3
<1>14. QED
  BY <1>4, <1>5, <1>6, <1>7, <1>8, <1>9, <1>10, <1>11, <1>12, <1>13 DEF Reviewer, ReviewerStep

LEMMA OthersKeepInv ==
    ASSUME Inv, Others
    PROVE  Inv' /\ Trail(repo, repo')
<1>1. TypeOK' /\ RepoOK /\ RepoOK' /\ ReviewerTypeOK /\ prs \in Seq(PullRequest) /\ ReviewInv
  BY OtherTypes, Types, RepoTypesNext DEF Inv
<1>2. /\ UNCHANGED <<repo, branches, run, cache, posted, saved, rev>> /\ Numbers' = Numbers
      /\ \A n \in Numbers : SamePr(prs'[n], prs[n]) /\ prs'[n].labels = prs[n].labels
  <2>1. CASE \E t \in Threads : Mark(t) /\ UNCHANGED <<cache, posted, saved, rev>>
    BY <2>1 DEF Mark, Numbers, SamePr
  <2>2. CASE \E n \in Numbers : PushHead(n) /\ UNCHANGED <<marked, run>>
    <3>1. PICK n \in Numbers : PushHead(n) /\ UNCHANGED <<marked, run>>
      BY <2>2
    <3>2. QED
      BY <1>1, <3>1, PushHeadSteps DEF PushHead, SamePr
  <2>3. QED
    BY <2>1, <2>2 DEF Others
<1>3. BridgeInv' /\ Trail(repo, repo')
  BY <1>1, <1>2, ReviewerKeepsBridge
<1>4. ReviewInv'
  BY <1>1, <1>2, OthersKeepReviews DEF Marked
<1>5. QED
  BY <1>1, <1>3, <1>4 DEF Inv

LEMMA NextKeepsInv == Inv /\ [Next]_vars => Inv' /\ Trail(repo, repo')
<1> SUFFICES ASSUME Inv, [Next]_vars PROVE Inv' /\ Trail(repo, repo')
  OBVIOUS
<1>1. CASE Next
  BY <1>1, BridgeKeepsInv, ReviewerKeepsInv, OthersKeepInv DEF Next
<1>2. CASE UNCHANGED vars
  <2>1. /\ UNCHANGED <<repo, branches, prs, run, cache, posted, saved, rev>> /\ Numbers' = Numbers
        /\ RepoOK /\ ReviewerTypeOK /\ ReviewInv /\ TypeOK'
    BY <1>2, StutterTypes, Types, RepoTypesNext DEF vars, Inv, Numbers
  <2>2. BridgeInv' /\ Trail(repo, repo')
    BY <2>1, ReviewerKeepsBridge, RepoTypesNext DEF SamePr
  <2>3. ReviewInv'
    BY <2>1, OthersKeepReviews DEF Marked
  <2>4. QED
    BY <2>1, <2>2, <2>3 DEF Inv
<1>3. QED
  BY <1>1, <1>2

THEOREM Invariance == Spec => []Inv
<1>1. Inv /\ [Next]_vars => Inv'
  BY NextKeepsInv
<1>2. QED
  BY <1>1, InitInv, PTL DEF Spec

\* codex_bridge.py, apply: the pull request of a proposal carries the patch that is
\* recorded under its number, and no proposal has two, however many runs apply it
\* from whatever checkouts.
THEOREM OnePrForAProposal == Spec => []PrCarriesProposal
<1>1. Inv => PrCarriesProposal
  <2> SUFFICES ASSUME Inv PROVE PrCarriesProposal
    OBVIOUS
  <2>1. PrInv
    BY DEF Inv, BridgeInv
  <2>2. QED
    BY <2>1 DEF PrInv, PrCarriesProposal, Recorded
<1>2. QED
  BY <1>1, Invariance, PTL

\* codex_bridge.py, propose: a proposal that is announced as saved is on the default
\* branch under the announced number, unless a push of that run was refused or lost.
THEOREM AnnouncedIsSaved == Spec => []LossHasCause
<1>1. Inv => LossHasCause
  <2> SUFFICES ASSUME Inv, NEW w \in Runs, At(w, "answered"), Verb(w) = "propose",
                      run[w].told = "propose", ~run[w].hurt
               PROVE  /\ run[w].pid \in DOMAIN repo.patches[Thread(w)]
                      /\ repo.patches[Thread(w)][run[w].pid] = run[w].patch
    BY DEF LossHasCause
  <2>1. Announced(run[w], repo)
    BY DEF Inv, BridgeInv, RunInv
  <2>2. QED
    BY <2>1 DEF Announced, At, Verb, VerbOf, Thread, ThreadOf, Recorded
<1>2. QED
  BY <1>1, Invariance, PTL

\* codex_bridge.py, saving: whatever overlaps, no message and no proposal that the
\* default branch has is dropped or replaced, and a closed session is not added to.
THEOREM RecordOnlyGrows == Spec => TrailHolds
<1>1. Inv /\ [Next]_vars =>
          /\ [\A t \in Threads : /\ Extends(repo'.sessions[t].msgs, repo.sessions[t].msgs)
                                 /\ Extends(repo'.patches[t], repo.patches[t])]_repo
          /\ [\A t \in Threads : repo.sessions[t].status = "closed" =>
                 /\ repo'.sessions[t].msgs = repo.sessions[t].msgs
                 /\ repo'.patches[t] = repo.patches[t]]_repo
  <2> SUFFICES ASSUME Inv, [Next]_vars, NEW t \in Threads
               PROVE  /\ Extends(repo'.sessions[t].msgs, repo.sessions[t].msgs)
                      /\ Extends(repo'.patches[t], repo.patches[t])
                      /\ repo.sessions[t].status = "closed" =>
                            /\ repo'.sessions[t].msgs = repo.sessions[t].msgs
                            /\ repo'.patches[t] = repo.patches[t]
    OBVIOUS
  <2>1. RepoOK /\ RepoOK' /\ Trail(repo, repo')
    BY NextKeepsInv, Types, RepoTypesNext DEF Inv
  <2>2. /\ repo.sessions[t] \in Session /\ repo'.sessions[t] \in Session
        /\ repo.patches[t] \in Seq(Patches) /\ repo'.patches[t] \in Seq(Patches)
    BY <2>1 DEF RepoOK
  <2>3. repo.sessions[t].msgs \in Seq(Messages) /\ repo'.sessions[t].msgs \in Seq(Messages)
    BY <2>2, SessionMsgs
  <2>4. QED
    BY <2>1, <2>2, <2>3, BeginsIsPrefix DEF Trail, Extends
<1>2. QED
  BY <1>1, Invariance, PTL DEF Spec, TrailHolds, TrailGrows, ClosedIsClosed

\* reviewer_bridge.py, freezing: the runs of a clone that keep inputs or reviews post
\* one and the same critique of a pull request, whatever is pushed to it in between.
THEOREM FrozenReviewsAgree == Spec => []FrozenCyclesAgree
<1>1. Inv => FrozenCyclesAgree
  <2> SUFFICES ASSUME Inv, NEW x \in posted, NEW y \in posted, x.text # Refusal, y.text # Refusal,
                      Freezes(x.by), Freezes(y.by), x.pr = y.pr
               PROVE  x.text = y.text
    BY DEF FrozenCyclesAgree, Freezes
  <2>1. Frozen(x.pr).review = x.text /\ Frozen(y.pr).review = y.text
    BY DEF Inv, ReviewInv
  <2>2. QED
    BY <2>1
<1>2. QED
  BY <1>1, Invariance, PTL

\* reviewer_bridge.py, main: every variable has its type, and a critique is only saved
\* and a pull request only marked as reviewed when the critique is on GitHub, or the
\* run was told not to post it.
THEOREM RecordsCorrect == Spec => []RecordsAreTrue
<1>1. Inv => RecordsAreTrue
  BY DEF Inv, ReviewInv, RecordsAreTrue
<1>2. QED
  BY <1>1, Invariance, PTL
=============================================================================

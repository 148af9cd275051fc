-------------------------- MODULE CommitHooksProofs --------------------------
(***************************************************************************)
(* Proofs about CommitHooks, for any registry, any messages and metadata,   *)
(* any lengths of summaries and tags, and any number of attempts.           *)
(***************************************************************************)
EXTENDS CommitHooks, FiniteSetTheorems, SequenceTheorems, WellFoundedInduction, TLAPS

USE LengthsAssumption, FilesAssumption, InputsAssumption, BoundsAssumption

-----------------------------------------------------------------------------
(* The registry *)

\* A bounded set of numbers that is not empty contains its maximum.
LEMMA MaxIsMember ==
    ASSUME NEW S \in SUBSET (1..MaxVersion), S # {}
    PROVE  Max(S) \in S
<1> DEFINE T == {k \in Nat : MaxVersion - k \in S}
<1>1. T \subseteq Nat /\ T # {}
  <2>1. PICK v \in S : TRUE
    OBVIOUS
  <2>2. v \in 1..MaxVersion /\ MaxVersion \in Nat
    BY <2>1
  <2>3. MaxVersion - v \in Nat /\ MaxVersion - (MaxVersion - v) = v
    BY <2>2
  <2>4. QED
    BY <2>1, <2>3
<1>2. PICK k \in T : \A j \in T : ~ (<<j, k>> \in OpToRel(<, Nat))
  <2> HIDE DEF T
  <2>1. QED
    BY <1>1, WFMin, NatLessThanWellFounded
<1>3. \A j \in T : ~ (j < k)
  <2> HIDE DEF T
  <2>1. QED
    BY <1>1, <1>2, Zenon DEF OpToRel
<1>4. \A y \in S : MaxVersion - k >= y
  <2> SUFFICES ASSUME NEW y \in S PROVE MaxVersion - k >= y
    OBVIOUS
  <2>1. y \in 1..MaxVersion /\ MaxVersion \in Nat /\ k \in Nat
    OBVIOUS
  <2>2. MaxVersion - y \in T
    BY <2>1
  <2>3. ~ (MaxVersion - y < k)
    BY <1>3, <2>2
  <2>4. QED
    BY <2>1, <2>3
<1>5. MaxVersion - k \in S
  OBVIOUS
<1> HIDE DEF T
<1>6. \E x \in S : \A y \in S : x >= y
  BY <1>4, <1>5
<1>7. QED
  BY <1>6 DEF Max

\* What an identifier is registered with is finite, and its versions are versions.
LEMMA RegistryIsFinite ==
    ASSUME TypeOK, NEW id
    PROVE  /\ IsFiniteSet(Specs(id))
           /\ Cardinality(Specs(id)) \in Nat
           /\ Cardinality(Specs(id)) = 0 <=> Specs(id) = {}
           /\ Cardinality(Specs(id)) = 1 <=> \E s : Specs(id) = {s}
           /\ \A s \in Specs(id) : s[2] \in 0..MaxVersion
           /\ Versions(id) \in SUBSET (1..MaxVersion)
<1> DEFINE A == {x \in Files : id \in IdsIn[x]} \cup {x \in Files \cup {Lost} : <<id, x>> \in Trace}
           f == [x \in A |-> <<x, VersionOf(x)>>]
<1>1. IsFiniteSet(A)
  <2>1. IsFiniteSet(Files \cup {Lost})
    BY FS_AddElement
  <2>2. A \in SUBSET (Files \cup {Lost})
    OBVIOUS
  <2>3. QED
    BY <2>1, <2>2, FS_Subset
<1>2. Specs(id) = {<<x, VersionOf(x)>> : x \in A}
  BY DEF Specs
<1>3. f \in Surjection(A, Specs(id))
  BY <1>2 DEF Surjection
<1> HIDE DEF f
<1>4. IsFiniteSet(Specs(id))
  BY <1>1, <1>3, FS_Surjection
<1>5. \A x \in A : VersionOf(x) \in 0..MaxVersion
  BY DEF VersionOf, TypeOK
<1> HIDE DEF A
<1>6. \A s \in Specs(id) : s[2] \in 0..MaxVersion
  BY <1>2, <1>5
<1>7. Versions(id) \in SUBSET (1..MaxVersion)
  BY <1>6 DEF Versions
<1>8. QED
  BY <1>4, <1>6, <1>7, FS_CardinalityType, FS_EmptySet, FS_Singleton

\* The version that is filled in: the highest one, if there is any.
LEMMA ResolvedVersion ==
    ASSUME TypeOK, NEW id, NEW v \in Nat
    PROVE  /\ Resolved(id, v) \in Nat
           /\ v # 0 => Resolved(id, v) = v
           /\ v = 0 /\ Versions(id) = {} => Resolved(id, v) = 0
           /\ v = 0 /\ Versions(id) # {} => Resolved(id, v) \in Versions(id)
BY RegistryIsFinite, MaxIsMember DEF Resolved

\* A reference as it may be committed.
Registered(ref) == Known(ref[1]) /\ (Versions(ref[1]) # {} => ref[2] \in Versions(ref[1]))

\* The check lets no other reference through: with one specification the version
\* is the one it has, with several it is that of one of them.
LEMMA UncheckedIsRegistered ==
    ASSUME TypeOK, NEW id, NEW v \in Nat, ~Error(<<id, Resolved(id, v)>>)
    PROVE  Registered(<<id, Resolved(id, v)>>)
<1> DEFINE w == Resolved(id, v)
<1>1. /\ Specs(id) # {}
      /\ Cardinality(Specs(id)) > 1 => w # 0 /\ \E s \in Specs(id) : s[2] = w
      /\ Cardinality(Specs(id)) = 1 => w = 0 \/ \E s \in Specs(id) : s[2] \in {0, w}
  BY DEF Error, Known
<1>2. w \in Nat /\ (v # 0 => w = v) /\ (v = 0 /\ Versions(id) # {} => w \in Versions(id))
  BY ResolvedVersion
<1> HIDE DEF w
<1>3. CASE Cardinality(Specs(id)) > 1
  BY <1>1, <1>3 DEF Versions, Registered, Known, w
<1>4. CASE Cardinality(Specs(id)) = 1
  <2>1. PICK s : Specs(id) = {s}
    BY <1>4, RegistryIsFinite
  <2>2. Versions(id) = {s[2]} \ {0}
    BY <2>1 DEF Versions
  <2>3. w = 0 \/ s[2] = 0 \/ s[2] = w
    BY <1>1, <1>4, <2>1
  <2>4. Versions(id) # {} => w \in Versions(id)
    BY <1>2, <2>2, <2>3
  <2>5. QED
    BY <1>1, <2>4 DEF Registered, Known, w
<1>5. QED
  BY <1>1, <1>3, <1>4, RegistryIsFinite

\* The version that prepare-commit-msg fills in passes the check of a registered
\* identifier, unless several specifications mention it and none has a version.
LEMMA LatestPasses ==
    ASSUME TypeOK, NEW id, Known(id), ~(Cardinality(Specs(id)) > 1 /\ Versions(id) = {})
    PROVE  /\ Resolved(id, Resolved(id, 0)) = Resolved(id, 0)
           /\ ~Error(<<id, Resolved(id, 0)>>)
<1> DEFINE w == Resolved(id, 0)
<1>1. w \in Nat /\ (Versions(id) = {} => w = 0) /\ (Versions(id) # {} => w \in Versions(id))
  BY ResolvedVersion
<1>2. Resolved(id, w) = w
  BY <1>1, ResolvedVersion
<1> HIDE DEF w
<1>3. w # 0 => \E s \in Specs(id) : s[2] = w
  BY <1>1 DEF Versions
<1>4. Cardinality(Specs(id)) > 1 => w # 0
  BY <1>1, RegistryIsFinite
<1>5. Cardinality(Specs(id)) = 1 /\ w # 0 => \E s \in Specs(id) : s[2] = w
  BY <1>3
<1>6. ~Error(<<id, w>>)
  BY <1>3, <1>4, <1>5 DEF Error
<1>7. QED
  BY <1>2, <1>6 DEF w

-----------------------------------------------------------------------------
(* The first line *)

\* A line is at least as long as its base, and no longer without tokens.
LEMMA WidthType ==
    ASSUME NEW base \in Bases, NEW t \in Tokens
    PROVE  /\ Width(base, t) \in Nat /\ Width(base, t) >= BaseLen[base]
           /\ Width(base, NoTokens) = BaseLen[base]
<1>1. BaseLen[base] \in Nat /\ TagsLen[t.tags] \in Nat /\ NumberLen(t.r) \in Nat /\ NumberLen(t.n) \in Nat
  BY DEF Tokens, NumberLen
<1>2. QED
  BY <1>1 DEF Width

\* What is kept of the tokens fits, if there is room for the base.
LEMMA FittedFits ==
    ASSUME NEW base \in Bases, NEW t \in Tokens
    PROVE  /\ Fitted(base, t) \in Tokens
           /\ Width(base, Fitted(base, t)) <= 50 \/ BaseLen[base] > 50
           /\ Fitted(base, t).n \in {0, t.n}
<1>1. Core(t) \in Tokens /\ Core(t).n = t.n
  BY DEF Core, Tokens
<1>2. NoTokens \in Tokens /\ NoTokens.n = 0
  BY DEF NoTokens, Tokens
<1>3. Width(base, NoTokens) = BaseLen[base] /\ BaseLen[base] \in Nat
  BY <1>2, WidthType
<1>4. QED
  BY <1>1, <1>2, <1>3 DEF Fitted

\* The counter is never that of the last commit of the same summary.
LEMMA CounterIsNew ==
    ASSUME TypeOK, NEW base
    PROVE  /\ RetryCounter(base) \in Nat
           /\ commits # <<>> /\ LastCommit.base = base => RetryCounter(base) # LastCommit.tokens.n
<1>1. CASE commits # <<>> /\ LastCommit.base = base
  <2> DEFINE n == LastCommit.tokens.n
             r == LastCommit.tokens.r
             seen == Max({n, r})
  <2>1. LastCommit \in CommitRecord
    BY <1>1, ElementOfSeq, LenProperties, EmptySeq DEF LastCommit, TypeOK
  <2>2. n \in Nat /\ r \in Nat
    BY <2>1 DEF CommitRecord, Tokens
  <2> HIDE DEF n, r
  <2>3. \E x \in {n, r} : \A y \in {n, r} : x >= y
    BY <2>2
  <2>4. seen \in {n, r} /\ seen >= n
    BY <2>3 DEF Max
  <2> HIDE DEF seen
  <2>5. RetryCounter(base) = IF seen > 0 THEN seen + 1 ELSE 2
    BY <1>1 DEF RetryCounter, seen, n, r
  <2>6. RetryCounter(base) \in Nat /\ RetryCounter(base) # n
    BY <2>2, <2>4, <2>5
  <2>7. QED
    BY <2>6 DEF n
<1>2. CASE ~(commits # <<>> /\ LastCommit.base = base)
  BY <1>2 DEF RetryCounter
<1>3. QED
  BY <1>1, <1>2

-----------------------------------------------------------------------------
(* Types *)

\* What an attempt tries to put in front of its message.
Wanted == [r |-> try.r, n |-> RetryCounter(try.msg.base), tags |-> try.tags]
Kept == Fitted(try.msg.base, Wanted)

LEMMA WantedType ==
    ASSUME TypeOK, try.msg \in Message
    PROVE  Wanted \in Tokens /\ try.msg.base \in Bases /\ Kept \in Tokens
BY CounterIsNew, FittedFits DEF Wanted, Kept, TypeOK, Attempt, Message, Tokens

THEOREM TypeCorrect == Spec => []TypeOK
<1>1. Init => TypeOK
  BY EmptySeq DEF Init, TypeOK, Idle, Attempt, Between, Message
<1>2. TypeOK /\ [Next]_vars => TypeOK'
  <2> SUFFICES ASSUME TypeOK, [Next]_vars PROVE TypeOK'
    OBVIOUS
  <2>1. ASSUME NEW i \in Issues, Hydrate(i) PROVE TypeOK'
    <3>1. metadata' \in Metadata
      BY <2>1 DEF Hydrate, ChangeType, Metadata
    <3>2. QED
      BY <2>1, <3>1 DEF Hydrate, TypeOK
  <2>2. ASSUME NEW f \in Files, EditSpec(f) PROVE TypeOK'
    <3>1. version' \in [Files -> 1..MaxVersion]
      BY <2>2 DEF EditSpec, TypeOK
    <3>2. QED
      BY <2>2, <3>1 DEF EditSpec, TypeOK
  <2>3. ASSUME NEW d \in Drafts, NEW verify \in BOOLEAN, NEW e \in Environments, Commit(d, verify, e)
        PROVE  TypeOK'
    <3>1. d \in Message /\ e.r \in Nat /\ e.tags \in SUBSET Tags
      OBVIOUS
    <3>2. try.number \in 0..MaxTries /\ try.number < MaxTries
      BY <2>3 DEF Commit, TypeOK, Attempt
    <3>3. try' \in Attempt /\ try'.msg \in Message /\ try'.number # 0 /\ try'.at # "post-commit"
      <4>1. try' = [at |-> IF verify THEN "pre-commit" ELSE "prepare", number |-> try.number + 1,
                    verify |-> verify, r |-> e.r, tags |-> e.tags, msg |-> d, asPrepared |-> FALSE,
                    source |-> NoMetadata, specs |-> <<>>]
        BY <2>3 DEF Commit, Idle
      <4>2. try.number + 1 \in 0..MaxTries /\ try.number + 1 # 0
        BY <3>2
      <4>3. try' \in Attempt
        BY <4>1, <4>2, <3>1 DEF Attempt
      <4>4. QED
        BY <4>1, <4>2, <4>3, <3>1
    <3>4. QED
      BY <2>3, <3>3 DEF Commit, TypeOK
  <2>4. CASE Ends /\ UNCHANGED <<version, metadata, memory, commits, qa>>
    <3>1. try' \in Attempt /\ try'.at = "idle"
      BY <2>4 DEF Ends, Idle, Attempt, Between, TypeOK
    <3>2. QED
      BY <2>4, <3>1 DEF TypeOK, Between
  <2>5. CASE PreCommit
    <3>1. CASE try' = [try EXCEPT !.at = "prepare"]
      BY <2>5, <3>1 DEF PreCommit, TypeOK, Attempt, Between
    <3>2. QED
      BY <2>5, <3>1, <2>4 DEF PreCommit
  <2>6. CASE Prepare
    <3>1. CASE metadata = NoMetadata
      BY <2>6, <3>1 DEF Prepare, TypeOK, Attempt, Between
    <3>2. CASE metadata # NoMetadata
      <4>1. metadata \in Metadata
        BY <3>2 DEF TypeOK
      <4>2. {<<id, Resolved(id, 0)>> : id \in metadata.ids} \subseteq Ids \X Nat
        <5>1. \A id \in metadata.ids : id \in Ids /\ Resolved(id, 0) \in Nat
          BY <4>1, ResolvedVersion DEF Metadata
        <5>2. QED
          BY <5>1
      <4>3. try'.msg \in Message
        <5> DEFINE refs == {<<id, Resolved(id, 0)>> : id \in metadata.ids}
        <5>1. try'.msg = [base |-> metadata.base, tokens |-> NoTokens, form |-> "full",
                          meta |-> [type |-> metadata.type, issue |-> metadata.issue, refs |-> refs],
                          trailer |-> {}]
          BY <2>6, <3>2 DEF Prepare, TypeOK, Attempt
        <5>2. refs \in SUBSET (Ids \X Nat)
          BY <4>2
        <5> HIDE DEF refs
        <5>3. NoTokens \in Tokens /\ metadata.issue \in Nat
          BY <4>1 DEF NoTokens, Tokens, Metadata
        <5>4. [type |-> metadata.type, issue |-> metadata.issue, refs |-> refs] \in Meta
          BY <5>2, <5>3, <4>1 DEF Meta, Metadata
        <5>5. metadata.base \in Bases /\ {} \in SUBSET Tags /\ "full" \in Forms
          BY <4>1 DEF Metadata, Forms
        <5>6. QED
          BY <5>1, <5>3, <5>4, <5>5 DEF Message
      <4>4. try' \in Attempt /\ try'.at = "edit" /\ try'.number = try.number
        BY <2>6, <3>2, <4>1, <4>3 DEF Prepare, TypeOK, Attempt
      <4>5. QED
        BY <2>6, <4>3, <4>4 DEF Prepare, TypeOK, Between
    <3>3. QED
      BY <3>1, <3>2
  <2>7. CASE Edit
    <3>1. CASE try' = [try EXCEPT !.at = IF try.verify THEN "enrich" ELSE "commit"]
      BY <2>7, <3>1 DEF Edit, TypeOK, Attempt, Between
    <3>2. ASSUME NEW d \in Drafts,
                 try' = [try EXCEPT !.at = IF try.verify THEN "enrich" ELSE "commit",
                                    !.msg = d, !.asPrepared = FALSE]
          PROVE  TypeOK'
      <4>1. d \in Message
        OBVIOUS
      <4>2. QED
        BY <2>7, <3>2, <4>1 DEF Edit, TypeOK, Attempt, Between
    <3>3. QED
      BY <2>7, <3>1, <3>2, <2>4 DEF Edit
  <2>8. CASE Enrich
    <3>1. try.msg \in Message /\ try.number \in 1..MaxTries
      BY <2>8 DEF Enrich, TypeOK, Between, Attempt
    <3>2. Kept \in Tokens /\ Wanted \in Tokens
      BY <3>1, WantedType
    <3>3. memory' = [try |-> try.number, base |-> try.msg.base, kept |-> Kept]
      BY <2>8 DEF Enrich, Remembers, Kept, Wanted
    <3>4. memory' \in Memory
      BY <3>1, <3>2, <3>3 DEF Memory, Message
    <3>5. try'.msg \in Message
      <4>1. \/ try'.msg = try.msg
            \/ \E trailer \in SUBSET Tags : try'.msg = [try.msg EXCEPT !.tokens = Kept, !.trailer = trailer]
        <5>1. {} \in SUBSET Tags /\ try.tags \in SUBSET Tags
          BY DEF TypeOK, Attempt
        <5>2. try \in Attempt
          BY DEF TypeOK
        <5>3. QED
          BY <2>8, <5>1, <5>2 DEF Enrich, Kept, Wanted, Attempt
      <4>2. QED
        BY <4>1, <3>1, <3>2 DEF Message
    <3>6. try' \in Attempt /\ try'.at = "check" /\ try'.number = try.number
      BY <2>8, <3>5 DEF Enrich, TypeOK, Attempt
    <3>7. QED
      BY <2>8, <3>1, <3>4, <3>5, <3>6 DEF Enrich, TypeOK
  <2>9. CASE Check
    <3> DEFINE refs == {<<ref[1], Resolved(ref[1], ref[2])>> : ref \in try.msg.meta.refs}
    <3>1. try.msg \in Message /\ try.number # 0 /\ try \in Attempt
      BY <2>9 DEF Check, TypeOK, Between
    <3>2. refs \subseteq Ids \X Nat
      <4>1. \A ref \in try.msg.meta.refs : ref[1] \in Ids /\ ref[2] \in Nat
        BY <3>1 DEF Message, Meta
      <4>2. QED
        BY <4>1, ResolvedVersion
    <3>3. CASE try' = [try EXCEPT !.at = "commit"]
      BY <2>9, <3>1, <3>3 DEF Check, TypeOK, Attempt, Between
    <3>4. CASE try' = [try EXCEPT !.at = "commit", !.msg.meta.refs = refs]
      <4> HIDE DEF refs
      <4>1. try'.msg \in Message
        BY <3>1, <3>2, <3>4 DEF Message, Meta, Attempt
      <4>2. try' \in Attempt /\ try'.at = "commit" /\ try'.number = try.number
        BY <3>1, <3>4, <4>1 DEF Attempt
      <4>3. QED
        BY <2>9, <3>1, <4>1, <4>2 DEF Check, TypeOK
    <3>5. CASE Rejects
      <4>1. try' \in Attempt /\ try'.at = "rejected"
        BY <3>1, <3>5 DEF Rejects, Idle, Attempt, Between
      <4>2. QED
        BY <2>9, <4>1 DEF Check, TypeOK, Between
    <3>6. QED
      BY <2>9, <3>3, <3>4, <3>5 DEF Check
  <2>10. CASE Write
    <3>1. try.msg \in Message /\ try.number \in 1..MaxTries /\ try \in Attempt
      BY <2>10 DEF Write, TypeOK, Between, Attempt
    <3> DEFINE c == [base |-> try.msg.base, tokens |-> try.msg.tokens, meta |-> try.msg.meta,
                     trailer |-> try.msg.trailer, exempt |-> Exempt(try.msg),
                     verified |-> try.verify, try |-> try.number]
    <3>2. c \in CommitRecord /\ commits' = Append(commits, c)
      <4>1. Exempt(try.msg) \in BOOLEAN
        BY DEF Exempt
      <4>2. QED
        BY <2>10, <3>1, <4>1 DEF Write, CommitRecord, Message, Attempt
    <3> HIDE DEF c
    <3>3. commits' \in Seq(CommitRecord) /\ commits' # <<>> /\ DOMAIN commits \subseteq DOMAIN commits'
      BY <3>2, AppendProperties, LenProperties, EmptySeq DEF TypeOK
    <3>4. try' \in Attempt /\ try'.number = try.number /\ try'.msg = try.msg
      BY <2>10, <3>1 DEF Write, Attempt
    <3>5. QED
      BY <2>10, <3>1, <3>3, <3>4 DEF Write, TypeOK
  <2>11. CASE Finalize
    <3>1. commits # <<>> /\ Len(commits) \in DOMAIN commits
      BY <2>11, LenProperties, EmptySeq DEF Finalize, TypeOK
    <3>2. qa' \subseteq [commit : DOMAIN commits, payload : Memory] /\ memory' \in Memory \cup {NoMemory}
      BY <2>11, <3>1 DEF Finalize, TypeOK
    <3>3. try' \in Attempt /\ try'.at = "idle"
      BY <2>11 DEF Finalize, Ends, Idle, Attempt, Between, TypeOK
    <3>4. QED
      BY <2>11, <3>2, <3>3 DEF Finalize, TypeOK, Between
  <2>12. CASE Interrupt
    BY <2>12, <2>4 DEF Interrupt
  <2>13. CASE UNCHANGED vars
    BY <2>13 DEF vars, TypeOK
  <2>14. QED
    BY <2>1, <2>2, <2>3, <2>5, <2>6, <2>7, <2>8, <2>9, <2>10, <2>11, <2>12, <2>13 DEF Next
<1>3. QED
  BY <1>1, <1>2, PTL DEF Spec

-----------------------------------------------------------------------------
(* Kinds of steps *)

\* From the check to the record, no specification changes.
Settled == {"check", "commit", "post-commit"}

\* Steps that neither work on the message after the editor nor record anything.
Quiet ==
    /\ UNCHANGED <<memory, commits, qa>>
    /\ \/ try' = try /\ (version' = version \/ try.at \notin Settled)
       \/ /\ UNCHANGED version
          /\ try'.at \notin Settled \/ (try'.at = "commit" /\ ~try'.verify)
          /\ try'.at \in {"pre-commit", "enrich"} => try'.verify

LEMMA StepKinds ==
    ASSUME TypeOK, [Next]_vars, try.at = "pre-commit" => try.verify
    PROVE  Quiet \/ Enrich \/ Check \/ Write \/ Finalize
<1>1. ASSUME NEW i \in Issues, Hydrate(i) PROVE Quiet
  BY <1>1 DEF Hydrate, Quiet
<1>2. ASSUME NEW f \in Files, EditSpec(f) PROVE Quiet
  BY <1>2 DEF EditSpec, Quiet, Settled, Between
<1>3. ASSUME NEW d \in Drafts, NEW verify \in BOOLEAN, NEW e \in Environments, Commit(d, verify, e)
      PROVE  Quiet
  <2>1. try'.at = (IF verify THEN "pre-commit" ELSE "prepare") /\ try'.verify = verify
    BY <1>3 DEF Commit, Idle
  <2>2. QED
    BY <1>3, <2>1 DEF Commit, Quiet, Settled
<1>4. ASSUME Ends, UNCHANGED <<version, memory, commits, qa>> PROVE Quiet
  BY <1>4 DEF Ends, Quiet, Settled, Idle
<1>5. CASE PreCommit
  <2>1. CASE try' = [try EXCEPT !.at = "prepare"]
    BY <1>5, <2>1 DEF PreCommit, Quiet, Settled, TypeOK, Attempt
  <2>2. QED
    BY <1>4, <1>5, <2>1 DEF PreCommit
<1>6. CASE Prepare
  <2>1. try'.at = "edit"
    BY <1>6 DEF Prepare, TypeOK, Attempt
  <2>2. QED
    BY <1>6, <2>1 DEF Prepare, Quiet, Settled
<1>7. CASE Edit
  <2>1. Ends \/ (try'.at = (IF try.verify THEN "enrich" ELSE "commit") /\ try'.verify = try.verify)
    BY <1>7 DEF Edit, TypeOK, Attempt
  <2>2. try.verify \in BOOLEAN
    BY DEF TypeOK, Attempt
  <2>3. QED
    BY <1>4, <1>7, <2>1, <2>2 DEF Edit, Quiet, Settled
<1>8. CASE Interrupt
  BY <1>4, <1>8 DEF Interrupt
<1>9. CASE UNCHANGED vars
  BY <1>9 DEF vars, Quiet
<1>10. QED
  BY <1>1, <1>2, <1>3, <1>5, <1>6, <1>7, <1>8, <1>9 DEF Next

\* While no specification changes, the registry says the same.
LEMMA SameRegistry ==
    ASSUME version' = version
    PROVE  \A id : /\ Specs(id)' = Specs(id) /\ Versions(id)' = Versions(id)
                   /\ Known(id)' = Known(id) /\ \A v : Resolved(id, v)' = Resolved(id, v)
<1> SUFFICES ASSUME NEW id
             PROVE  /\ Specs(id)' = Specs(id) /\ Versions(id)' = Versions(id)
                    /\ Known(id)' = Known(id) /\ \A v : Resolved(id, v)' = Resolved(id, v)
  OBVIOUS
<1>1. Specs(id)' = Specs(id)
  BY DEF Specs, VersionOf
<1>2. Versions(id)' = Versions(id)
  BY <1>1 DEF Versions
<1>3. QED
  BY <1>1, <1>2 DEF Known, Resolved

\* What enrich-commit-summary leaves: the line with what was kept of the tokens,
\* or, if the base alone is too long, the line as it was.
LEMMA EnrichLeaves ==
    ASSUME TypeOK, Enrich
    PROVE  /\ try'.at = "check" /\ try'.verify = try.verify /\ try'.number = try.number
           /\ try'.asPrepared = try.asPrepared /\ try'.source = try.source /\ try'.specs = try.specs
           /\ try'.msg.base = try.msg.base /\ try'.msg.form = try.msg.form
           /\ try'.msg.meta = try.msg.meta
           /\ memory' = [try |-> try.number, base |-> try.msg.base, kept |-> Kept]
           /\ try'.msg.tokens = Kept \/ BaseLen[try.msg.base] > 50
<1>1. try \in Attempt /\ try.msg \in Message /\ try.msg.base \in Bases
  BY DEF Enrich, TypeOK, Between, Message
<1>2. Kept \in Tokens /\ (Width(try.msg.base, Kept) <= 50 \/ BaseLen[try.msg.base] > 50)
  BY <1>1, WantedType, FittedFits DEF Kept
<1> DEFINE writes == Kept # try.msg.tokens /\ Width(try.msg.base, Kept) <= 50
<1>3. /\ memory' = [try |-> try.number, base |-> try.msg.base, kept |-> Kept]
      /\ \E trailer : try' = [try EXCEPT !.at = "check",
                                         !.msg = IF ~writes THEN try.msg
                                                 ELSE [try.msg EXCEPT !.tokens = Kept, !.trailer = trailer]]
  BY DEF Enrich, Remembers, Kept, Wanted
<1>4. try'.msg.tokens = Kept \/ BaseLen[try.msg.base] > 50
  <2>1. CASE writes
    BY <1>1, <1>3, <2>1 DEF Message, Attempt
  <2>2. CASE ~writes
    BY <1>1, <1>2, <1>3, <2>2 DEF Attempt
  <2>3. QED
    BY <2>1, <2>2
<1>5. try'.msg.base = try.msg.base /\ try'.msg.form = try.msg.form /\ try'.msg.meta = try.msg.meta
  BY <1>1, <1>3 DEF Message, Attempt
<1>6. QED
  BY <1>1, <1>3, <1>4, <1>5 DEF Attempt

\* What check-commit-msg lets through is exempt, or fits and is registered.
LEMMA CheckLeaves ==
    ASSUME TypeOK, Check
    PROVE  \/ Rejects
           \/ /\ try'.at = "commit" /\ try'.verify = try.verify /\ try'.number = try.number
              /\ try'.msg.base = try.msg.base /\ try'.msg.tokens = try.msg.tokens
              /\ try'.msg.form = try.msg.form
              /\ \/ Exempt(try.msg)
                 \/ /\ Width(try.msg.base, try.msg.tokens) <= 50
                    /\ \A ref \in try'.msg.meta.refs : Registered(ref)
<1> DEFINE refs == {<<ref[1], Resolved(ref[1], ref[2])>> : ref \in try.msg.meta.refs}
<1>1. try \in Attempt /\ try.msg \in Message
  BY DEF Check, TypeOK, Between
<1>2. CASE Exempt(try.msg) /\ try' = [try EXCEPT !.at = "commit"]
  BY <1>1, <1>2 DEF Attempt
<1>3. CASE /\ \A ref \in refs : ~Error(ref)
           /\ Width(try.msg.base, try.msg.tokens) <= 50
           /\ try' = [try EXCEPT !.at = "commit", !.msg.meta.refs = refs]
  <2>1. \A ref \in try.msg.meta.refs : ref[2] \in Nat /\ ~Error(<<ref[1], Resolved(ref[1], ref[2])>>)
    BY <1>1, <1>3 DEF Message, Meta
  <2>2. \A ref \in try.msg.meta.refs : Registered(<<ref[1], Resolved(ref[1], ref[2])>>)
    BY <2>1, UncheckedIsRegistered
  <2>3. \A ref \in refs : Registered(ref)
    BY <2>2
  <2> HIDE DEF refs
  <2>4. try'.msg = [try.msg EXCEPT !.meta = [try.msg.meta EXCEPT !.refs = refs]]
    BY <1>1, <1>3 DEF Attempt
  <2>5. try'.msg.meta.refs = refs /\ try'.msg.base = try.msg.base /\ try'.msg.tokens = try.msg.tokens
        /\ try'.msg.form = try.msg.form
    BY <1>1, <2>4 DEF Message, Meta
  <2>6. try'.at = "commit" /\ try'.verify = try.verify /\ try'.number = try.number
    BY <1>1, <1>3 DEF Attempt
  <2>7. QED
    BY <1>3, <2>3, <2>5, <2>6
<1>4. QED
  BY <1>2, <1>3 DEF Check

-----------------------------------------------------------------------------
(* Lines, records and references *)

\* Between enrich-commit-summary and the commit of an attempt that is verified.
Checked == try.at = "check" \/ (try.at = "commit" /\ try.verify)
Guarded == try.at = "commit" /\ try.verify /\ ~Exempt(try.msg)
Recorded == try.at = "post-commit" /\ LastCommit.verified /\ ~LastCommit.exempt

\* The memory is that of the attempt and of its line, if the line has room.
MemoryFollows ==
    Checked => /\ memory.try = try.number /\ memory.base = try.msg.base
               /\ memory.kept = try.msg.tokens \/ BaseLen[try.msg.base] > 50

\* The counter in the line, if the line has room for one, is a new one.
CounterFollows ==
    Checked /\ BaseLen[try.msg.base] <= 50 /\ commits # <<>> /\ LastCommit.base = try.msg.base
        /\ try.msg.tokens.n # 0 => try.msg.tokens.n # LastCommit.tokens.n

\* What the check has let through still fits and is still registered.
CheckFollows ==
    Guarded => /\ Width(try.msg.base, try.msg.tokens) <= 50
               /\ \A ref \in try.msg.meta.refs : Registered(ref)

\* The memory that post-commit finds is that of the commit.
RecordFollows ==
    Recorded => /\ memory.try = LastCommit.try /\ memory.base = LastCommit.base
                /\ memory.kept = LastCommit.tokens

HookInv ==
    /\ try.at \in {"pre-commit", "enrich", "check"} => try.verify
    /\ MemoryFollows /\ CounterFollows /\ CheckFollows /\ RecordFollows
    /\ CommittedIsRegistered /\ CommittedFits /\ RecordIsOfCommit /\ RetriesDiffer

LEMMA HookQuiet ==
    ASSUME TypeOK, HookInv, Quiet
    PROVE  HookInv'
<1>1. RecordIsOfCommit' /\ RetriesDiffer' /\ CommittedFits'
  BY DEF Quiet, HookInv, RecordIsOfCommit, RetriesDiffer, CommittedFits
<1>2. CASE try' = try /\ (version' = version \/ try.at \notin Settled)
  <2>1. try' = try /\ commits' = commits /\ memory' = memory /\ LastCommit' = LastCommit
    BY <1>2 DEF Quiet, LastCommit
  <2>2. CASE version' = version
    BY <1>1, <2>1, <2>2, SameRegistry
       DEF HookInv, MemoryFollows, CounterFollows, CheckFollows, RecordFollows, Checked, Guarded,
           Recorded, CommittedIsRegistered, Registered
  <2>3. CASE try.at \notin Settled
    BY <1>1, <2>1, <2>3
       DEF HookInv, MemoryFollows, CounterFollows, CheckFollows, RecordFollows, Checked, Guarded,
           Recorded, CommittedIsRegistered, Settled
  <2>4. QED
    BY <1>2, <2>2, <2>3
<1>3. CASE /\ try'.at \notin Settled \/ (try'.at = "commit" /\ ~try'.verify)
           /\ try'.at \in {"pre-commit", "enrich"} => try'.verify
  BY <1>1, <1>3
     DEF HookInv, MemoryFollows, CounterFollows, CheckFollows, RecordFollows, Checked, Guarded,
         Recorded, CommittedIsRegistered, Settled
<1>4. QED
  BY <1>2, <1>3 DEF Quiet

LEMMA HookEnrich ==
    ASSUME TypeOK, HookInv, Enrich
    PROVE  HookInv'
<1>1. UNCHANGED <<version, commits, qa>> /\ LastCommit' = LastCommit
  BY DEF Enrich, LastCommit
<1>2. try'.at = "check" /\ try'.verify
  BY EnrichLeaves DEF HookInv, Enrich
<1>3. RecordIsOfCommit' /\ RetriesDiffer' /\ CommittedFits'
  BY <1>1 DEF HookInv, RecordIsOfCommit, RetriesDiffer, CommittedFits
<1>4. MemoryFollows'
  <2>1. memory'.try = try'.number /\ memory'.base = try'.msg.base
    BY EnrichLeaves
  <2>2. memory'.kept = try'.msg.tokens \/ BaseLen[try'.msg.base] > 50
    BY EnrichLeaves
  <2>3. QED
    BY <2>1, <2>2 DEF MemoryFollows
<1>5. CounterFollows'
  <2> SUFFICES ASSUME BaseLen[try'.msg.base] <= 50, commits # <<>>, LastCommit.base = try'.msg.base,
                      try'.msg.tokens.n # 0
               PROVE  try'.msg.tokens.n # LastCommit.tokens.n
    BY <1>1 DEF CounterFollows
  <2>1. try.msg \in Message /\ Wanted \in Tokens /\ try.msg.base \in Bases
    BY WantedType DEF Enrich, TypeOK, Between
  <2>2. try'.msg.base = try.msg.base /\ BaseLen[try.msg.base] \in Nat
    BY <2>1, EnrichLeaves
  <2>3. try'.msg.tokens = Kept
    BY <2>2, EnrichLeaves
  <2>4. Kept.n \in {0, RetryCounter(try.msg.base)}
    BY <2>1, FittedFits DEF Kept, Wanted
  <2>5. RetryCounter(try.msg.base) # LastCommit.tokens.n
    BY <2>2, CounterIsNew
  <2>6. QED
    BY <2>3, <2>4, <2>5
<1>6. QED
  BY <1>2, <1>3, <1>4, <1>5
     DEF HookInv, CheckFollows, RecordFollows, Guarded, Recorded, CommittedIsRegistered

LEMMA HookCheck ==
    ASSUME TypeOK, HookInv, Check
    PROVE  HookInv'
<1>1. UNCHANGED <<version, commits, qa, memory>> /\ LastCommit' = LastCommit /\ try.at = "check"
  BY DEF Check, LastCommit
<1>2. RecordIsOfCommit' /\ RetriesDiffer' /\ CommittedFits'
  BY <1>1 DEF HookInv, RecordIsOfCommit, RetriesDiffer, CommittedFits
<1>3. CASE Rejects
  <2>1. try'.at = "rejected"
    BY <1>3 DEF Rejects, Idle
  <2>2. QED
    BY <1>2, <2>1 DEF HookInv, MemoryFollows, CounterFollows, CheckFollows, RecordFollows, Checked,
                      Guarded, Recorded, CommittedIsRegistered
<1>4. CASE ~Rejects
  <2>1. /\ try'.at = "commit" /\ try'.verify = try.verify /\ try'.number = try.number
        /\ try'.msg.base = try.msg.base /\ try'.msg.tokens = try.msg.tokens
        /\ try'.msg.form = try.msg.form
        /\ ~Exempt(try.msg) => /\ Width(try.msg.base, try.msg.tokens) <= 50
                               /\ \A ref \in try'.msg.meta.refs : Registered(ref)
    BY <1>4, CheckLeaves
  <2>2. MemoryFollows' /\ CounterFollows'
    BY <1>1, <2>1 DEF HookInv, MemoryFollows, CounterFollows, Checked
  <2>3. CheckFollows'
    <3>1. Guarded' => ~Exempt(try.msg)
      BY <2>1 DEF Guarded, Exempt
    <3>2. \A ref : Registered(ref)' = Registered(ref)
      BY <1>1, SameRegistry DEF Registered
    <3>3. QED
      BY <2>1, <3>1, <3>2 DEF CheckFollows
  <2>4. QED
    BY <1>2, <2>1, <2>2, <2>3 DEF HookInv, RecordFollows, Recorded, CommittedIsRegistered
<1>5. QED
  BY <1>3, <1>4

\* The commits after git has made one.
LEMMA WriteAppends ==
    ASSUME TypeOK, Write
    PROVE  /\ DOMAIN commits' = 1..Len(commits) + 1 /\ Len(commits) \in Nat /\ commits' # <<>>
           /\ Len(commits') = Len(commits) + 1
           /\ \A i \in 1..Len(commits) : commits'[i] = commits[i]
           /\ commits'[Len(commits) + 1] = LastCommit'
           /\ LastCommit' = [base |-> try.msg.base, tokens |-> try.msg.tokens, meta |-> try.msg.meta,
                             trailer |-> try.msg.trailer, exempt |-> Exempt(try.msg),
                             verified |-> try.verify, try |-> try.number]
<1> DEFINE c == [base |-> try.msg.base, tokens |-> try.msg.tokens, meta |-> try.msg.meta,
                 trailer |-> try.msg.trailer, exempt |-> Exempt(try.msg),
                 verified |-> try.verify, try |-> try.number]
<1>1. commits' = Append(commits, c) /\ commits \in Seq(CommitRecord)
  BY DEF Write, TypeOK
<1> HIDE DEF c
<1>2. Len(commits) \in Nat /\ DOMAIN commits = 1..Len(commits)
  BY <1>1, LenProperties
<1>3. commits \in Seq(CommitRecord \cup {c}) /\ c \in CommitRecord \cup {c}
  BY <1>1
<1>4. /\ Append(commits, c) \in Seq(CommitRecord \cup {c})
      /\ Append(commits, c) # <<>>
      /\ Len(Append(commits, c)) = Len(commits) + 1
      /\ \A i \in 1..Len(commits) : Append(commits, c)[i] = commits[i]
      /\ Append(commits, c)[Len(commits) + 1] = c
  BY <1>3, AppendProperties
<1>5. DOMAIN commits' = 1..Len(commits) + 1
  BY <1>1, <1>4, LenProperties
<1>6. LastCommit' = c
  BY <1>1, <1>4 DEF LastCommit
<1>7. QED
  BY <1>1, <1>2, <1>4, <1>5, <1>6 DEF c

LEMMA HookWrite ==
    ASSUME TypeOK, HookInv, Write
    PROVE  HookInv'
<1> DEFINE n == Len(commits)
<1>1. /\ try \in Attempt /\ try.msg \in Message /\ try.at = "commit"
      /\ try.msg.base \in Bases /\ try.msg.tokens \in Tokens
      /\ BaseLen[try.msg.base] \in Nat
  BY DEF Write, TypeOK, Between, Message
<1>2. try'.at = "post-commit" /\ UNCHANGED <<version, memory, qa>>
  BY <1>1 DEF Write, Attempt
<1>3. /\ LastCommit'.base = try.msg.base /\ LastCommit'.tokens = try.msg.tokens
      /\ LastCommit'.meta = try.msg.meta /\ LastCommit'.exempt = Exempt(try.msg)
      /\ LastCommit'.verified = try.verify /\ LastCommit'.try = try.number
  BY WriteAppends
<1>4. /\ DOMAIN commits' = 1..n + 1 /\ n \in Nat /\ commits'[n + 1] = LastCommit'
      /\ \A i \in 1..n : commits'[i] = commits[i]
      /\ DOMAIN commits = 1..n
  BY WriteAppends, LenProperties DEF TypeOK
<1>5. try.verify /\ ~Exempt(try.msg) =>
        /\ Guarded /\ Width(try.msg.base, try.msg.tokens) <= 50 /\ BaseLen[try.msg.base] <= 50
  BY <1>1, WidthType DEF HookInv, Guarded, CheckFollows
<1> HIDE DEF n
<1>6. RecordFollows'
  BY <1>1, <1>2, <1>3, <1>5 DEF HookInv, RecordFollows, Recorded, MemoryFollows, Checked
<1>7. CommittedIsRegistered'
  BY <1>2, <1>3, <1>5, SameRegistry DEF HookInv, CommittedIsRegistered, CheckFollows, Registered
<1>8. CommittedFits'
  <2> SUFFICES ASSUME NEW i \in 1..n + 1, commits'[i].verified
               PROVE  Width(commits'[i].base, commits'[i].tokens) <= 50 \/ commits'[i].exempt
    BY <1>4 DEF CommittedFits
  <2>1. CASE i = n + 1
    BY <1>3, <1>4, <1>5, <2>1
  <2>2. CASE i \in 1..n
    BY <1>4, <2>2 DEF HookInv, CommittedFits
  <2>3. QED
    BY <1>4, <2>1, <2>2
<1>9. RecordIsOfCommit'
  <2> SUFFICES ASSUME NEW e \in qa, commits'[e.commit].verified, ~commits'[e.commit].exempt
               PROVE  /\ e.payload.try = commits'[e.commit].try
                      /\ e.payload.base = commits'[e.commit].base
                      /\ e.payload.kept = commits'[e.commit].tokens
    BY <1>2 DEF RecordIsOfCommit
  <2>1. e.commit \in 1..n
    BY <1>4 DEF TypeOK
  <2>2. commits'[e.commit] = commits[e.commit]
    BY <1>4, <2>1
  <2>3. QED
    BY <2>2 DEF HookInv, RecordIsOfCommit
<1>10. RetriesDiffer'
  <2> DEFINE Differ(c, b) ==
          (/\ c.verified /\ c.base = b.base /\ c.tokens.n # 0
           /\ c.exempt => BaseLen[c.base] <= 50) => c.tokens # b.tokens
  <2>1. \A i \in 2..n : Differ(commits[i], commits[i - 1])
    BY DEF n, HookInv, RetriesDiffer
  <2>2. n # 0 => Differ(LastCommit', commits[n])
    <3> SUFFICES ASSUME n # 0, try.verify, try.msg.base = commits[n].base, try.msg.tokens.n # 0,
                        Exempt(try.msg) => BaseLen[try.msg.base] <= 50
                 PROVE  try.msg.tokens # commits[n].tokens
      BY <1>3
    <3>1. commits # <<>> /\ commits[n] = LastCommit
      BY <1>4 DEF n, LastCommit
    <3>2. BaseLen[try.msg.base] <= 50
      BY <1>5
    <3>3. try.msg.tokens.n # LastCommit.tokens.n
      BY <1>1, <3>1, <3>2 DEF HookInv, CounterFollows, Checked
    <3>4. QED
      BY <3>1, <3>3
  <2>3. \A i \in 2..n + 1 : Differ(commits'[i], commits'[i - 1])
    <3> SUFFICES ASSUME NEW i \in 2..n + 1 PROVE Differ(commits'[i], commits'[i - 1])
      OBVIOUS
    <3> HIDE DEF Differ
    <3>1. i - 1 \in 1..n /\ commits'[i - 1] = commits[i - 1]
      BY <1>4
    <3>2. CASE i = n + 1
      <4>1. i - 1 = n /\ n # 0 /\ commits'[i] = LastCommit'
        BY <1>4, <3>2
      <4>2. QED
        BY <2>2, <3>1, <4>1
    <3>3. CASE i \in 2..n
      <4>1. commits'[i] = commits[i]
        BY <1>4, <3>3
      <4>2. QED
        BY <2>1, <3>1, <3>3, <4>1
    <3>4. QED
      BY <1>4, <3>2, <3>3
  <2>4. Len(commits') = n + 1
    BY WriteAppends DEF n
  <2>5. QED
    BY <2>3, <2>4 DEF RetriesDiffer
<1>11. QED
  BY <1>2, <1>6, <1>7, <1>8, <1>9, <1>10
     DEF HookInv, MemoryFollows, CounterFollows, CheckFollows, Checked, Guarded

LEMMA HookFinalize ==
    ASSUME TypeOK, HookInv, Finalize
    PROVE  HookInv'
<1>1. try.at = "post-commit" /\ try'.at = "idle" /\ commits' = commits
  BY DEF Finalize, Ends, Idle
<1>2. RecordIsOfCommit'
  <2>1. \A e \in qa' : e \in qa \/ (e.commit = Len(commits) /\ e.payload = memory)
    BY DEF Finalize
  <2>2. Recorded => /\ memory.try = LastCommit.try /\ memory.base = LastCommit.base
                    /\ memory.kept = LastCommit.tokens
    BY DEF HookInv, RecordFollows
  <2>3. QED
    BY <1>1, <2>1, <2>2 DEF HookInv, RecordIsOfCommit, Recorded, LastCommit
<1>3. RetriesDiffer' /\ CommittedFits'
  BY <1>1 DEF HookInv, RetriesDiffer, CommittedFits
<1>4. QED
  BY <1>1, <1>2, <1>3
     DEF HookInv, MemoryFollows, CounterFollows, CheckFollows, RecordFollows, Checked, Guarded,
         Recorded, CommittedIsRegistered

LEMMA HookInvHolds == Spec => []HookInv
<1>1. Init => HookInv
  BY LenProperties, EmptySeq
     DEF Init, Idle, HookInv, MemoryFollows, CounterFollows, CheckFollows, RecordFollows, Checked,
         Guarded, Recorded, CommittedIsRegistered, CommittedFits, RecordIsOfCommit, RetriesDiffer
<1>2. TypeOK /\ HookInv /\ [Next]_vars => HookInv'
  <2> SUFFICES ASSUME TypeOK, HookInv, [Next]_vars PROVE HookInv'
    OBVIOUS
  <2>1. Quiet \/ Enrich \/ Check \/ Write \/ Finalize
    BY StepKinds DEF HookInv
  <2>2. QED
    BY <2>1, HookQuiet, HookEnrich, HookCheck, HookWrite, HookFinalize
<1>3. QED
  BY <1>1, <1>2, TypeCorrect, PTL DEF Spec

\* Whatever is interrupted, bypassed or refused before, the record that is kept
\* of a verified commit is what was done to its own first line.
THEOREM RecordsAreOfTheirCommits == Spec => []RecordIsOfCommit
<1>1. HookInv => RecordIsOfCommit
  BY DEF HookInv
<1>2. QED
  BY <1>1, HookInvHolds, PTL

\* However often a summary is tried again, two commits in a row differ in their
\* first lines if there was room for a counter.
THEOREM RetriesCanBeTold == Spec => []RetriesDiffer
<1>1. HookInv => RetriesDiffer
  BY DEF HookInv
<1>2. QED
  BY <1>1, HookInvHolds, PTL

-----------------------------------------------------------------------------
(* The two scripts agree *)

\* A message that was prepared and left alone: it says what the metadata said,
\* with the versions the registry had, and fits if the summary does.
PreparedFollows ==
    /\ try.at \in {"pre-commit", "prepare"} => ~try.asPrepared
    /\ try.asPrepared =>
         /\ try.source \in Metadata
         /\ try.specs \in [Files -> 1..MaxVersion]
         /\ \A f \in Files : try.specs[f] <= version[f]
    /\ (try.asPrepared /\ try.at \in {"edit", "enrich", "check"}) =>
         /\ try.msg.form = "full" /\ try.msg.base = try.source.base
         /\ try.msg.meta.type = try.source.type /\ try.msg.meta.issue = try.source.issue
         /\ try.specs = version =>
              try.msg.meta.refs = {<<id, Resolved(id, 0)>> : id \in try.source.ids}
         /\ try.at # "check" => try.msg.tokens = NoTokens
         /\ BaseLen[try.msg.base] > 50 \/ Width(try.msg.base, try.msg.tokens) <= 50

\* Metadata whose message the check may refuse.
Refusable(d) ==
    \/ d.type = "" \/ d.ids = {} \/ BaseLen[d.base] > 50
    \/ \E id \in d.ids : ~Known(id) \/ (Cardinality(Specs(id)) > 1 /\ Versions(id) = {})

PreparedInv == PreparedFollows /\ PreparedPasses

\* A message that says what complete metadata said is not refused.
LEMMA PreparedIsAccepted ==
    ASSUME TypeOK, PreparedInv, Check, Rejects, try.asPrepared, try.specs = version
    PROVE  Refusable(try.source)
<1> SUFFICES ASSUME ~Refusable(try.source) PROVE FALSE
  OBVIOUS
<1> DEFINE d == try.source
           m == try.msg
<1>1. /\ d \in Metadata /\ m.form = "full" /\ m.base = d.base
      /\ m.meta.type = d.type /\ m.meta.issue = d.issue
      /\ m.meta.refs = {<<id, Resolved(id, 0)>> : id \in d.ids}
      /\ BaseLen[m.base] > 50 \/ Width(m.base, m.tokens) <= 50
  BY DEF PreparedInv, PreparedFollows, Check
<1>2. /\ d.type # "" /\ d.ids # {} /\ ~(BaseLen[d.base] > 50)
      /\ \A id \in d.ids : Known(id) /\ ~(Cardinality(Specs(id)) > 1 /\ Versions(id) = {})
  BY DEF Refusable
<1>3. MatchesTemplate(m.meta)
  <2>1. m.meta.refs # {}
    <3>1. PICK id \in d.ids : TRUE
      BY <1>2
    <3>2. <<id, Resolved(id, 0)>> \in m.meta.refs
      BY <1>1
    <3>3. QED
      BY <3>2
  <2>2. d.type \in {"spec", "impl", "both"} /\ d.issue # 0
    BY <1>1, <1>2 DEF Metadata
  <2>3. QED
    BY <1>1, <2>1, <2>2 DEF MatchesTemplate
<1>4. \A ref \in m.meta.refs : ~Error(<<ref[1], Resolved(ref[1], ref[2])>>)
  <2> SUFFICES ASSUME NEW id \in d.ids PROVE ~Error(<<id, Resolved(id, Resolved(id, 0))>>)
    BY <1>1
  <2>1. QED
    BY <1>2, LatestPasses
<1>5. m.form = "full" /\ Width(m.base, m.tokens) <= 50
  BY <1>1, <1>2
<1>6. ~Exempt(m)
  BY <1>1 DEF Exempt
<1>7. try'.at = "rejected"
  BY DEF Rejects, Idle
<1>8. try'.at = "commit" \/ ~(\A ref \in {<<ref[1], Resolved(ref[1], ref[2])>> : ref \in m.meta.refs} : ~Error(ref))
  <2>1. try \in Attempt
    BY DEF TypeOK
  <2> HIDE DEF m
  <2>2. QED
    BY <1>3, <1>5, <1>6, <2>1 DEF Check, Attempt, m
<1>9. QED
  BY <1>4, <1>7, <1>8

LEMMA PreparedStep ==
    ASSUME TypeOK, HookInv, PreparedInv, [Next]_vars
    PROVE  PreparedInv'
<1>0. ASSUME version' = version
      PROVE  \A ids : {<<id, Resolved(id, 0)'>> : id \in ids} = {<<id, Resolved(id, 0)>> : id \in ids}
  BY <1>0, SameRegistry
<1>1. ASSUME version' = version
      PROVE  PreparedPasses' <=> ((try'.at = "rejected" /\ try'.asPrepared /\ try'.specs = version) =>
                                     Refusable(try'.source))
  <2>1. Refusable(try'.source) <=> \/ try'.source.type = "" \/ try'.source.ids = {}
                                  \/ BaseLen[try'.source.base] > 50
                                  \/ \E id \in try'.source.ids :
                                        \/ ~Known(id)'
                                        \/ Cardinality(Specs(id)') > 1 /\ Versions(id)' = {}
    BY <1>1, SameRegistry DEF Refusable
  <2>2. QED
    BY <1>1, <2>1 DEF PreparedPasses
<1>2. ASSUME ~try'.asPrepared PROVE PreparedInv'
  BY <1>2 DEF PreparedInv, PreparedFollows, PreparedPasses
<1>3. ASSUME NEW i \in Issues, Hydrate(i) PROVE PreparedInv'
  <2>1. try' = try /\ version' = version
    BY <1>3 DEF Hydrate
  <2>2. PreparedFollows'
    BY <2>1, SameRegistry DEF PreparedInv, PreparedFollows
  <2>3. PreparedPasses'
    BY <1>1, <2>1 DEF PreparedInv, PreparedPasses, Refusable
  <2>4. QED
    BY <2>2, <2>3 DEF PreparedInv
<1>4. ASSUME NEW f \in Files, EditSpec(f) PROVE PreparedInv'
  <2> SUFFICES ASSUME try'.asPrepared PROVE PreparedInv'
    BY <1>2
  <2>1. try' = try /\ version' = [version EXCEPT ![f] = @ + 1] /\ version \in [Files -> 1..MaxVersion]
    BY <1>4 DEF EditSpec, TypeOK
  <2>2. try.specs \in [Files -> 1..MaxVersion] /\ \A g \in Files : try.specs[g] <= version[g]
    BY <2>1 DEF PreparedInv, PreparedFollows
  <2>3. \A g \in Files : try.specs[g] <= version'[g]
    BY <2>1, <2>2
  <2>4. try.specs[f] < version'[f]
    BY <2>1, <2>2
  <2>5. try'.specs # version'
    BY <2>1, <2>2, <2>4
  <2>6. QED
    BY <2>1, <2>2, <2>3, <2>5 DEF PreparedInv, PreparedFollows, PreparedPasses
<1>5. ASSUME NEW e \in Drafts, NEW verify \in BOOLEAN, NEW env \in Environments, Commit(e, verify, env)
      PROVE  PreparedInv'
  <2>1. ~try'.asPrepared
    BY <1>5 DEF Commit, Idle
  <2>2. QED
    BY <1>2, <2>1
<1>6. ASSUME Ends PROVE PreparedInv'
  <2>1. ~try'.asPrepared
    BY <1>6 DEF Ends, Idle
  <2>2. QED
    BY <1>2, <2>1
<1>7. ASSUME version' = version, try'.at \in {"commit", "post-commit"},
             try'.asPrepared = try.asPrepared, try'.source = try.source, try'.specs = try.specs
      PROVE  PreparedInv'
  BY <1>7 DEF PreparedInv, PreparedFollows, PreparedPasses
<1>8. CASE PreCommit
  <2>1. CASE try' = [try EXCEPT !.at = "prepare"]
    <3>1. ~try.asPrepared
      BY <1>8 DEF PreCommit, PreparedInv, PreparedFollows
    <3>2. try'.asPrepared = try.asPrepared
      BY <2>1 DEF TypeOK, Attempt
    <3>3. QED
      BY <1>2, <3>1, <3>2
  <2>2. QED
    BY <1>6, <1>8, <2>1 DEF PreCommit
<1>9. CASE Prepare
  <2>1. version' = version /\ try \in Attempt /\ version \in [Files -> 1..MaxVersion] /\ ~try.asPrepared
    BY <1>9 DEF Prepare, TypeOK, PreparedInv, PreparedFollows
  <2>2. CASE metadata = NoMetadata
    <3>1. ~try'.asPrepared
      BY <1>9, <2>1, <2>2 DEF Prepare, Attempt
    <3>2. QED
      BY <1>2, <3>1
  <2>3. CASE metadata # NoMetadata
    <3> DEFINE refs == {<<id, Resolved(id, 0)>> : id \in metadata.ids}
    <3>1. metadata \in Metadata /\ metadata.base \in Bases
      BY <2>3 DEF TypeOK, Metadata
    <3>2. /\ try'.at = "edit" /\ try'.asPrepared /\ try'.source = metadata /\ try'.specs = version
          /\ try'.msg = [base |-> metadata.base, tokens |-> NoTokens, form |-> "full",
                         meta |-> [type |-> metadata.type, issue |-> metadata.issue, refs |-> refs],
                         trailer |-> {}]
      BY <1>9, <2>1, <2>3 DEF Prepare, Attempt
    <3>3. refs = {<<id, Resolved(id, 0)'>> : id \in metadata.ids}
      BY <2>1, SameRegistry
    <3> HIDE DEF refs
    <3>4. Width(metadata.base, NoTokens) = BaseLen[metadata.base] /\ BaseLen[metadata.base] \in Nat
      <4>1. NoTokens \in Tokens
        BY DEF NoTokens, Tokens
      <4>2. QED
        BY <3>1, <4>1, WidthType
    <3>5. \A f \in Files : version[f] <= version[f]
      BY <2>1
    <3>6. PreparedFollows'
      <4>1. /\ try'.msg.form = "full" /\ try'.msg.base = metadata.base /\ try'.msg.tokens = NoTokens
            /\ try'.msg.meta.type = metadata.type /\ try'.msg.meta.issue = metadata.issue
            /\ try'.msg.meta.refs = refs
        BY <3>2
      <4>2. try'.msg.meta.refs = {<<id, Resolved(id, 0)'>> : id \in try'.source.ids}
        BY <3>2, <3>3, <4>1
      <4>3. QED
        BY <2>1, <3>1, <3>2, <3>4, <3>5, <4>1, <4>2 DEF PreparedFollows
    <3>7. PreparedPasses'
      BY <3>2 DEF PreparedPasses
    <3>8. QED
      BY <3>6, <3>7 DEF PreparedInv
  <2>4. QED
    BY <2>2, <2>3
<1>10. CASE Edit
  <2>1. version' = version /\ try \in Attempt /\ try.at = "edit"
    BY <1>10 DEF Edit, TypeOK
  <2>2. CASE try' = [try EXCEPT !.at = IF try.verify THEN "enrich" ELSE "commit"]
    <3>1. /\ try'.at \in {"enrich", "commit"} /\ try'.asPrepared = try.asPrepared /\ try'.source = try.source
          /\ try'.specs = try.specs /\ try'.msg = try.msg
      BY <2>1, <2>2 DEF Attempt
    <3>2. PreparedFollows'
      BY <1>0, <2>1, <3>1 DEF PreparedInv, PreparedFollows
    <3>3. PreparedPasses'
      BY <3>1 DEF PreparedPasses
    <3>4. QED
      BY <3>2, <3>3 DEF PreparedInv
  <2>3. ASSUME NEW e \in Drafts,
               try' = [try EXCEPT !.at = IF try.verify THEN "enrich" ELSE "commit",
                                  !.msg = e, !.asPrepared = FALSE]
        PROVE  PreparedInv'
    <3>1. ~try'.asPrepared
      BY <2>1, <2>3 DEF Attempt
    <3>2. QED
      BY <1>2, <3>1
  <2>4. QED
    BY <1>6, <1>10, <2>2, <2>3 DEF Edit
<1>11. CASE Enrich
  <2>1. version' = version /\ try.at = "enrich" /\ try.msg \in Message
    BY <1>11 DEF Enrich, TypeOK, Between
  <2>2. /\ try'.at = "check" /\ try'.asPrepared = try.asPrepared /\ try'.source = try.source
        /\ try'.specs = try.specs /\ try'.msg.base = try.msg.base /\ try'.msg.form = try.msg.form
        /\ try'.msg.meta = try.msg.meta
        /\ try'.msg.tokens = Kept \/ BaseLen[try.msg.base] > 50
    BY <1>11, EnrichLeaves
  <2>3. Width(try.msg.base, Kept) <= 50 \/ BaseLen[try.msg.base] > 50
    BY <2>1, WantedType, FittedFits DEF Kept
  <2>4. PreparedFollows'
    BY <1>0, <2>1, <2>2, <2>3 DEF PreparedInv, PreparedFollows
  <2>5. PreparedPasses'
    BY <2>2 DEF PreparedPasses
  <2>6. QED
    BY <2>4, <2>5 DEF PreparedInv
<1>12. CASE Check
  <2>1. version' = version /\ try \in Attempt /\ try.at = "check"
    BY <1>12 DEF Check, TypeOK
  <2>2. CASE Rejects
    <3>1. /\ try'.at = "rejected" /\ try'.asPrepared = try.asPrepared /\ try'.source = try.source
          /\ try'.specs = try.specs
      BY <2>2 DEF Rejects, Idle
    <3>2. PreparedFollows'
      BY <2>1, <3>1 DEF PreparedInv, PreparedFollows
    <3>3. PreparedPasses'
      BY <1>1, <1>12, <2>1, <2>2, <3>1, PreparedIsAccepted
    <3>4. QED
      BY <3>2, <3>3 DEF PreparedInv
  <2>3. CASE ~Rejects
    <3>1. /\ try'.at = "commit" /\ try'.asPrepared = try.asPrepared /\ try'.source = try.source
          /\ try'.specs = try.specs
      BY <1>12, <2>1, <2>3 DEF Check, Attempt
    <3>2. QED
      BY <1>7, <2>1, <3>1
  <2>4. QED
    BY <2>2, <2>3
<1>13. CASE Write
  <2>1. /\ version' = version /\ try'.at = "post-commit" /\ try'.asPrepared = try.asPrepared
        /\ try'.source = try.source /\ try'.specs = try.specs
    BY <1>13 DEF Write, TypeOK, Attempt
  <2>2. QED
    BY <1>7, <2>1
<1>14. CASE Finalize
  BY <1>6, <1>14 DEF Finalize
<1>15. CASE Interrupt
  BY <1>6, <1>15 DEF Interrupt
<1>16. CASE UNCHANGED vars
  <2>1. version' = version /\ try' = try
    BY <1>16 DEF vars
  <2>2. PreparedFollows'
    BY <2>1, SameRegistry DEF PreparedInv, PreparedFollows
  <2>3. PreparedPasses'
    BY <1>1, <2>1 DEF PreparedInv, PreparedPasses, Refusable
  <2>4. QED
    BY <2>2, <2>3 DEF PreparedInv
<1>17. QED
  BY <1>3, <1>4, <1>5, <1>8, <1>9, <1>10, <1>11, <1>12, <1>13, <1>14, <1>15, <1>16 DEF Next

\* What is committed through the hooks fits and is registered, with a version its
\* specification has; and the message that prepare-commit-msg makes of complete
\* metadata, left alone, is not refused while the specifications stay as they are.
THEOREM HooksGuardTheRegistry == Spec => []RegistryGuards
<1>1. Init => PreparedInv
  BY DEF Init, Idle, PreparedInv, PreparedFollows, PreparedPasses
<1>2. TypeOK /\ HookInv /\ PreparedInv /\ [Next]_vars => PreparedInv'
  BY PreparedStep
<1>3. TypeOK /\ HookInv /\ PreparedInv => RegistryGuards
  BY DEF HookInv, PreparedInv, RegistryGuards
<1>4. QED
  BY <1>1, <1>2, <1>3, TypeCorrect, HookInvHolds, PTL DEF Spec
=============================================================================

---------------------------- MODULE CommitHooks ----------------------------
(***************************************************************************)
(* The git hooks of x-cli and the metadata they work from: the issue is     *)
(* read into .codex/metadata.json, prepare-commit-msg turns that into the   *)
(* message, commit-msg adds tokens to its first line and checks it against  *)
(* the registry of requirements, post-commit records what was added.  Git   *)
(* runs the hooks in this order; the developer edits the message and the    *)
(* specifications meanwhile, gives up, bypasses the checks, or is stopped.   *)
(*                                                                         *)
(* The first line of a message is a base and the tokens in its brackets:    *)
(* the run attempt r, the retry counter n (0: absent) and the tags.         *)
(***************************************************************************)
EXTENDS Naturals, Sequences, FiniteSets, FiniteSetsExt

CONSTANTS
    Bases, BaseLen,             \* summaries and how long they are
    Tags, CoreTags,             \* XCLI_SUMMARY_TAGS; CoreTags begin with r or n
    TagsLen,                    \* what a set of tags takes in the brackets
    Ids,                        \* identifiers that look like requirements
    Files, IdsIn,               \* docs/srs/*.md and the identifiers each mentions
    Trace,                      \* docs/traceability.yaml: pairs <<id, file>>
    Lost,                       \* a file that Trace names and that is not there
    Unversioned,                \* files without a "Version:"
    Issues,                     \* records [number, base, labels, ids]
    Drafts,                     \* messages a developer may write
    Environments,               \* records [r, tags]: GITHUB_RUN_ATTEMPT and the tags
    MaxVersion, MaxTries,       \* bounds: versions of a file, attempts to commit
    NoMetadata, NoMemory

\* How a message can be: as the template asks, a merge (or another that the
\* check lets pass), or anything else.
Forms == {"full", "merge", "other"}
Tokens == [r : Nat, n : Nat, tags : SUBSET Tags]
Meta == [type : {"", "spec", "impl", "both"}, refs : SUBSET (Ids \X Nat), issue : Nat]
Message == [base : Bases, tokens : Tokens, form : Forms, meta : Meta, trailer : SUBSET Tags]
Metadata == [base : Bases, type : {"", "spec", "impl", "both"}, ids : SUBSET Ids, issue : Nat \ {0}]

ASSUME LengthsAssumption == BaseLen \in [Bases -> Nat] /\ TagsLen \in [SUBSET Tags -> Nat]
ASSUME FilesAssumption == IsFiniteSet(Files)
ASSUME InputsAssumption ==
    /\ \A i \in Issues : i.number \in Nat \ {0} /\ i.base \in Bases /\ i.ids \subseteq Ids
    /\ Drafts \subseteq Message
    /\ Environments \subseteq [r : Nat, tags : SUBSET Tags]
ASSUME BoundsAssumption == MaxVersion \in Nat \ {0} /\ MaxTries \in Nat

VARIABLES
    version,        \* what "Version:" says in each file of docs/srs
    metadata,       \* .codex/metadata.json
    memory,         \* .codex/commit-msg-memory.tmp.json
    commits,        \* the branch
    qa,             \* artifacts/qa-telemetry.jsonl: its entries about commits
    try             \* the attempt to commit

vars == <<version, metadata, memory, commits, qa, try>>

---------------------------------------------------------------------------
(* The registry *)

VersionOf(f) == IF f \in Files \ Unversioned THEN version[f] ELSE 0
\* Where an identifier is registered: the file of its entry, and every file
\* that mentions it.
Specs(id) == {<<f, VersionOf(f)>> : f \in {x \in Files : id \in IdsIn[x]}
                                           \cup {x \in Files \cup {Lost} : <<id, x>> \in Trace}}
Known(id) == Specs(id) # {}
Versions(id) == {s[2] : s \in Specs(id)} \ {0}
Resolved(id, v) == IF v = 0 /\ Versions(id) # {} THEN Max(Versions(id)) ELSE v

---------------------------------------------------------------------------
(* Messages *)

NoTokens == [r |-> 0, n |-> 0, tags |-> {}]
Core(t) == [t EXCEPT !.tags = @ \cap CoreTags]
\* r and n are followed by one digit and a blank; 0 is absent.
NumberLen(k) == IF k = 0 THEN 0 ELSE 3
Width(base, t) ==
    BaseLen[base] + IF t = NoTokens THEN 0
                    ELSE 2 + NumberLen(t.r) + NumberLen(t.n) + TagsLen[t.tags]

\* The template asks for a change type, an identifier and the issue.
MatchesTemplate(m) == m.type \in {"spec", "impl", "both"} /\ m.refs # {} /\ m.issue # 0

LastCommit == commits[Len(commits)]
Bug_AlwaysSecond(base) == IF commits # <<>> /\ LastCommit.base = base THEN 2 ELSE 0
\* One more than the highest counter of the last commit, if that is a commit
\* of the same summary.
RetryCounter(base) ==
    IF commits # <<>> /\ LastCommit.base = base
    THEN LET seen == Max({LastCommit.tokens.n, LastCommit.tokens.r}) IN IF seen > 0 THEN seen + 1 ELSE 2
    ELSE 0

\* Tags are dropped first, then everything.
Fitted(base, t) ==
    IF Width(base, t) <= 50 THEN t
    ELSE IF Width(base, Core(t)) <= 50 THEN Core(t)
    ELSE NoTokens

---------------------------------------------------------------------------
(* The hooks *)

Between == {"idle", "rejected"}
Idle == [at |-> "idle", number |-> 0, verify |-> TRUE, r |-> 0, tags |-> {}, msg |-> <<>>,
         asPrepared |-> FALSE, source |-> NoMetadata, specs |-> <<>>]

Init ==
    /\ version = [f \in Files |-> 1]
    /\ metadata = NoMetadata /\ memory = NoMemory
    /\ commits = <<>> /\ qa = {}
    /\ try = Idle

Ends == try' = [Idle EXCEPT !.number = try.number]
Rejects == try' = [Idle EXCEPT !.at = "rejected", !.number = try.number, !.source = try.source,
                               !.asPrepared = try.asPrepared, !.specs = try.specs]

ChangeType(labels) ==
    CASE "impl" \in labels -> "impl"
      [] "impl" \notin labels /\ "spec" \in labels -> "spec"
      [] labels \cap {"impl", "spec"} = {} -> IF "both" \in labels THEN "both" ELSE ""

\* hydrate_metadata_from_issue.py; without GitHub nothing is written.
Hydrate(i) ==
    /\ try.at \in Between \cup {"edit"}
    /\ metadata' = [base |-> i.base, type |-> ChangeType(i.labels), ids |-> i.ids, issue |-> i.number]
    /\ UNCHANGED <<version, memory, commits, qa, try>>

\* Somebody raises the version of a specification.
EditSpec(f) ==
    /\ try.at \in Between \cup {"edit"} /\ version[f] < MaxVersion
    /\ version' = [version EXCEPT ![f] = @ + 1]
    /\ UNCHANGED <<metadata, memory, commits, qa, try>>

\* git commit, with a message of the developer's or git's own; --no-verify
\* leaves the pre-commit and commit-msg hooks out and no other.
Commit(draft, verify, e) ==
    /\ try.at \in Between /\ try.number < MaxTries
    /\ try' = [Idle EXCEPT !.at = IF verify THEN "pre-commit" ELSE "prepare", !.number = try.number + 1,
                           !.verify = verify, !.r = e.r, !.tags = e.tags, !.msg = draft]
    /\ UNCHANGED <<version, metadata, memory, commits, qa>>

PreCommit ==
    /\ try.at = "pre-commit"
    /\ try' = [try EXCEPT !.at = "prepare"] \/ Ends
    /\ UNCHANGED <<version, metadata, memory, commits, qa>>

\* The metadata, when there is any, replaces whatever message there was.
Prepare ==
    /\ try.at = "prepare"
    /\ try' = IF metadata = NoMetadata THEN [try EXCEPT !.at = "edit"]
              ELSE [try EXCEPT !.at = "edit", !.asPrepared = TRUE, !.source = metadata,
                               !.specs = version,
                               !.msg = [base |-> metadata.base, tokens |-> NoTokens, form |-> "full",
                                        meta |-> [type |-> metadata.type, issue |-> metadata.issue,
                                                  refs |-> {<<id, Resolved(id, 0)>> : id \in metadata.ids}],
                                        trailer |-> {}]]
    /\ UNCHANGED <<version, metadata, memory, commits, qa>>

\* The editor: the message is kept, written anew, or given up.
Edit ==
    /\ try.at = "edit"
    /\ \/ try' = [try EXCEPT !.at = IF try.verify THEN "enrich" ELSE "commit"]
       \/ \E d \in Drafts : try' = [try EXCEPT !.at = IF try.verify THEN "enrich" ELSE "commit",
                                               !.msg = d, !.asPrepared = FALSE]
       \/ Ends
    /\ UNCHANGED <<version, metadata, memory, commits, qa>>

Bug_RemembersChanges(m, t, kept, writes) ==
    IF writes THEN [try |-> try.number, base |-> m.base, kept |-> kept] ELSE memory
Remembers(m, t, kept, writes) == [try |-> try.number, base |-> m.base, kept |-> kept]

\* enrich_commit_summary.py.  The tags that had to be dropped go to a trailer,
\* if the line is written at all.
Enrich ==
    LET m == try.msg
        t == [r |-> try.r, n |-> RetryCounter(m.base), tags |-> try.tags]
        kept == Fitted(m.base, t)
        writes == kept # m.tokens /\ Width(m.base, kept) <= 50
    IN  /\ try.at = "enrich"
        /\ memory' = Remembers(m, t, kept, writes)
        /\ try' = [try EXCEPT !.at = "check",
                              !.msg = IF ~writes THEN m
                                      ELSE [m EXCEPT !.tokens = kept,
                                                     !.trailer = IF kept = t THEN {} ELSE t.tags]]
        /\ UNCHANGED <<version, metadata, commits, qa>>

Exempt(m) == m.form = "merge"

Bug_ErrorFirst(ref) ==
    \/ ~Known(ref[1])
    \/ ref[2] # (CHOOSE s \in Specs(ref[1]) : \A o \in Specs(ref[1]) : s[2] <= o[2])[2]
\* A reference that the check refuses; the version is the one filled in.
Error(ref) ==
    LET specs == Specs(ref[1])
    IN  \/ ~Known(ref[1])
        \/ Cardinality(specs) > 1 /\ (ref[2] = 0 \/ \A s \in specs : s[2] # ref[2])
        \/ Cardinality(specs) = 1 /\ ref[2] # 0 /\ \A s \in specs : s[2] \notin {0, ref[2]}

\* check-commit-msg.py.  The versions are written into the message before the
\* references are judged.
Check ==
    LET m == try.msg
        refs == {<<ref[1], Resolved(ref[1], ref[2])>> : ref \in m.meta.refs}
        formed == m.form = "full" /\ Width(m.base, m.tokens) <= 50 /\ MatchesTemplate(m.meta)
    IN  /\ try.at = "check"
        /\ \/ Exempt(m) /\ try' = [try EXCEPT !.at = "commit"]
           \/ /\ ~Exempt(m) /\ formed /\ \A ref \in refs : ~Error(ref)
              /\ try' = [try EXCEPT !.at = "commit", !.msg.meta.refs = refs]
           \/ /\ ~Exempt(m) /\ ~(formed /\ \A ref \in refs : ~Error(ref))
              /\ Rejects
        /\ UNCHANGED <<version, metadata, memory, commits, qa>>

\* git makes the commit.
Write ==
    /\ try.at = "commit"
    /\ commits' = Append(commits, [base |-> try.msg.base, tokens |-> try.msg.tokens,
                                   meta |-> try.msg.meta, trailer |-> try.msg.trailer,
                                   exempt |-> Exempt(try.msg), verified |-> try.verify,
                                   try |-> try.number])
    /\ try' = [try EXCEPT !.at = "post-commit"]
    /\ UNCHANGED <<version, metadata, memory, qa>>

\* finalize_commit_memory.py: what is in the file is recorded for HEAD.
Finalize ==
    /\ try.at = "post-commit"
    /\ Ends
    /\ IF memory = NoMemory THEN UNCHANGED <<memory, qa>>
       ELSE /\ qa' = qa \cup {[commit |-> Len(commits), payload |-> memory]}
            /\ memory' = NoMemory
    /\ UNCHANGED <<version, metadata, commits>>

\* The developer interrupts git.
Interrupt ==
    /\ try.at \notin Between
    /\ Ends
    /\ UNCHANGED <<version, metadata, memory, commits, qa>>

Next ==
    \/ \E i \in Issues : Hydrate(i)
    \/ \E f \in Files : EditSpec(f)
    \/ \E d \in Drafts, verify \in BOOLEAN, e \in Environments : Commit(d, verify, e)
    \/ PreCommit \/ Prepare \/ Edit \/ Enrich \/ Check \/ Write \/ Finalize \/ Interrupt

Spec == Init /\ [][Next]_vars

---------------------------------------------------------------------------
(* What has to hold *)

Memory == [try : 1 .. MaxTries, base : Bases, kept : Tokens]
CommitRecord == [base : Bases, tokens : Tokens, meta : Meta, trailer : SUBSET Tags,
                 exempt : BOOLEAN, verified : BOOLEAN, try : 1 .. MaxTries]
Attempt == [at : Between \cup {"pre-commit", "prepare", "edit", "enrich", "check", "commit", "post-commit"},
            number : 0 .. MaxTries, verify : BOOLEAN, r : Nat, tags : SUBSET Tags,
            msg : Message \cup {<<>>}, asPrepared : BOOLEAN, source : Metadata \cup {NoMetadata},
            specs : [Files -> 1 .. MaxVersion] \cup {<<>>}]

TypeOK ==
    /\ version \in [Files -> 1 .. MaxVersion]
    /\ metadata \in Metadata \cup {NoMetadata}
    /\ memory \in Memory \cup {NoMemory}
    /\ commits \in Seq(CommitRecord)
    /\ qa \subseteq [commit : DOMAIN commits, payload : Memory]
    /\ try \in Attempt
    /\ try.at \notin Between => try.msg \in Message /\ try.number # 0
    /\ try.at = "post-commit" => commits # <<>>

\* "unknown or mismatched versions cause the commit to be rejected": every
\* reference of a commit that went through the hooks is registered, and its
\* version is that of one of its specifications, unless none of them has one.
CommittedIsRegistered ==
    (try.at = "post-commit" /\ LastCommit.verified /\ ~LastCommit.exempt) =>
        \A ref \in LastCommit.meta.refs :
            /\ Known(ref[1])
            /\ Versions(ref[1]) # {} => ref[2] \in Versions(ref[1])

\* Two scripts read the registry and the template, each with code of its own:
\* the message that one makes from complete metadata of registered requirements
\* passes the other, if the developer leaves it alone and no specification
\* changes meanwhile.
PreparedPasses ==
    LET d == try.source
    IN  (try.at = "rejected" /\ try.asPrepared /\ try.specs = version) =>
            \/ d.type = "" \/ d.ids = {} \/ BaseLen[d.base] > 50
            \/ \E id \in d.ids : ~Known(id) \/ (Cardinality(Specs(id)) > 1 /\ Versions(id) = {})

\* A commit that went through the hooks has a first line of fifty characters.
CommittedFits ==
    \A i \in DOMAIN commits : commits[i].verified =>
        Width(commits[i].base, commits[i].tokens) <= 50 \/ commits[i].exempt

\* Every variable has its type, and commit-msg and prepare-commit-msg agree on
\* the registry and the length of a line: what is unregistered or too long does
\* not pass, what was prepared does.
RegistryGuards == TypeOK /\ CommittedFits /\ CommittedIsRegistered /\ PreparedPasses

\* What is recorded for a commit that went through the hooks is what was done
\* to its own first line, however many attempts before it were refused or
\* interrupted and left their record behind.
RecordIsOfCommit ==
    \A e \in qa :
        LET c == commits[e.commit]
        IN  c.verified /\ ~c.exempt =>
              e.payload.try = c.try /\ e.payload.base = c.base /\ e.payload.kept = c.tokens

\* Two commits in a row with the same summary can be told apart by their first
\* lines, unless there was no room for the counter.  A merge whose summary has
\* no room for any token keeps those its author wrote.
RetriesDiffer ==
    \A i \in 2 .. Len(commits) :
        LET c == commits[i]  b == commits[i - 1]
        IN  (/\ c.verified /\ c.base = b.base /\ c.tokens.n # 0
             /\ c.exempt => BaseLen[c.base] <= 50) => c.tokens # b.tokens

=============================================================================

------------------------------- MODULE Notify -------------------------------
(***************************************************************************)
(* notifications/: NotificationManager sends one message through every      *)
(* provider the environment configures, each on a thread of its own, and    *)
(* gathers what each says of its success.  A provider that talks HTTP tries *)
(* twice, with the same payload.                                            *)
(***************************************************************************)
EXTENDS Naturals, FiniteSets

CONSTANT Environments  \* the settings a process may be started with

VARIABLES
  env,      \* the settings of the process
  threads,  \* per provider: where its thread is
  inbox,    \* per provider: how often the message has arrived
  results   \* what notify_all has gathered so far: provider -> success
notifyVars == <<env, threads, inbox, results>>

Providers == {"slack", "discord", "email", "github"}

\* "set": whose variables are there; badNumber: GITHUB_ISSUE, SMTP_PORT and
\* the like are not numbers; bothTls: SMTP_SSL and SMTP_STARTTLS.
Environment == [set : SUBSET Providers, badNumber : SUBSET {"email", "github"},
                bothTls : BOOLEAN, dryRun : BOOLEAN, live : SUBSET Providers]
ASSUME EnvironmentsAssumption == Environments \subseteq Environment

Thread == [at : {"none", "try", "done"}, attempt : 0..2, ok : BOOLEAN]
NoThread == [at |-> "none", attempt |-> 0, ok |-> FALSE]

-----------------------------------------------------------------------------
(* from_env *)

\* EmailNotifier() converts its numbers without a net: no provider at all.
DiscoveryRaises == "email" \in env.set /\ "email" \in env.badNumber

\* A GITHUB_ISSUE that is no number leaves only that provider out.
Discovered == env.set \ (env.badNumber \intersect {"github"})

-----------------------------------------------------------------------------
(* send_alert *)

\* Refused before anything else is looked at, the dry run included.
Misconfigured(p) == p = "email" /\ env.bothTls
Simulated(p) == env.dryRun /\ p \notin env.live
Attempts(p) == IF p = "email" THEN 1 ELSE 2

\* How a request goes: "lost" arrives, but its answer does not come in time;
\* "other" is an answer of success that is not the 201 of a comment made.
Outcomes(p) == {"accepted", "lost", "refused"} \union (IF p = "github" THEN {"other"} ELSE {})
Arrives(o) == o \in {"accepted", "lost"}
Bug_Taken(o) == o \in {"accepted", "other"}
Taken(o) == o = "accepted"

-----------------------------------------------------------------------------
(* notify_all *)

Quiet ==
  /\ threads = [p \in Providers |-> NoThread]
  /\ inbox = [p \in Providers |-> 0]
  /\ results = [p \in {} |-> FALSE]

\* Every discovered provider gets a thread; the pool has one for each.
Dispatch ==
  /\ threads' = [p \in Providers |->
                   IF p \in Discovered THEN [NoThread EXCEPT !.at = "try", !.attempt = 1]
                                       ELSE NoThread]
  /\ UNCHANGED <<env, inbox, results>>

Finished(p, ok) == threads' = [threads EXCEPT ![p].at = "done", ![p].ok = ok]

\* One attempt of one thread; what failed is tried once more, or given up.
GivesUp(p) == threads[p].attempt = Attempts(p)
Try(p) ==
  /\ threads[p].at = "try"
  /\ \/ /\ Misconfigured(p) \/ Simulated(p)
        /\ Finished(p, ~Misconfigured(p)) /\ UNCHANGED inbox
     \/ /\ ~Misconfigured(p) /\ ~Simulated(p)
        /\ \E o \in Outcomes(p) :
             /\ inbox' = [inbox EXCEPT ![p] = @ + (IF Arrives(o) THEN 1 ELSE 0)]
             /\ \/ Taken(o) /\ Finished(p, TRUE)
                \/ ~Taken(o) /\ GivesUp(p) /\ Finished(p, FALSE)
                \/ /\ ~Taken(o) /\ ~GivesUp(p)
                   /\ threads' = [threads EXCEPT ![p].attempt = @ + 1]
  /\ UNCHANGED <<env, results>>

Bug_Gather(p) ==
  /\ threads[p].at = "done" /\ p \notin DOMAIN results /\ threads[p].ok
  /\ results' = [q \in DOMAIN results \union {p} |-> TRUE]
  /\ UNCHANGED <<env, threads, inbox>>
\* as_completed: the results are gathered in the order the threads end in.
Gather(p) ==
  /\ threads[p].at = "done" /\ p \notin DOMAIN results
  /\ results' = [q \in DOMAIN results \union {p} |->
                   IF q = p THEN threads[p].ok ELSE results[q]]
  /\ UNCHANGED <<env, threads, inbox>>

Bug_Returned == results # <<>> \/ \A p \in Providers : threads[p].at = "none"
Returned == DOMAIN results = {p \in Providers : threads[p].at # "none"}

\* The caller goes on, and what it was told is gone.
Forget ==
  /\ threads' = [p \in Providers |-> NoThread]
  /\ inbox' = [p \in Providers |-> 0]
  /\ results' = [p \in {} |-> FALSE]
  /\ UNCHANGED env

-----------------------------------------------------------------------------
(* Properties of one message. *)

NotifyTypeOK ==
  /\ env \in Environment
  /\ threads \in [Providers -> Thread]
  /\ inbox \in [Providers -> 0..2]
  /\ DOMAIN results \subseteq Providers /\ \A p \in DOMAIN results : results[p] \in BOOLEAN

\* What notify_all returns for a provider may be trusted one way: success means
\* that the message has arrived or was not to be sent; and a second copy means
\* that the answer to the first was lost.  Nobody gets three.
SuccessHasArrived ==
  \A p \in DOMAIN results :
    /\ results[p] => inbox[p] > 0 \/ (env.dryRun /\ p \notin env.live)
    /\ inbox[p] = 2 => threads[p].attempt = 2 /\ p # "email"

\* A dry run reaches nobody but those that are declared live, however many
\* others are.
DryRunSpares == env.dryRun => \A p \in Providers \ env.live : inbox[p] = 0
=============================================================================

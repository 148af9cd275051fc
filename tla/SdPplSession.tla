---------------------------- MODULE SdPplSession ----------------------------
(***************************************************************************)
(* What sd-ppl-lvcli promises the clone and the machine: one run of a clone  *)
(* at a time holds LabVIEW, it lets go of every checkout it bound before it  *)
(* gives the clone up, and it publishes its outputs only after that.         *)
(***************************************************************************)
CONSTANTS Runs, Clones, CloneOf

VARIABLES
    stage,       \* stage[r]: "out", "in" the session, "after" it or at its "end"
    held,        \* held[r]: checkouts r has bound and must let go of
    clean,       \* clean[r]: nothing r did has failed
    mayPublish,  \* runs that may publish although something failed
    published,   \* published[c]: runs whose outputs are in clone c
    killed       \* runs that were killed

vars == <<stage, held, clean, mayPublish, published, killed>>

Init ==
    /\ stage = [r \in Runs |-> "out"]
    /\ held = [r \in Runs |-> {}]
    /\ clean = [r \in Runs |-> TRUE]
    /\ mayPublish \subseteq Runs
    /\ published = [c \in Clones |-> {}]
    /\ killed = {}

Enter(r) ==
    /\ stage[r] = "out"
    /\ \A s \in Runs \ {r} : CloneOf[s] = CloneOf[r] => stage[s] # "in"
    /\ stage' = [stage EXCEPT ![r] = "in"]
    /\ UNCHANGED <<held, clean, mayPublish, published, killed>>

\* Bind, unbind, build, fail: r touches nothing but its own record.
Work(r) ==
    /\ stage[r] = "in"
    /\ \A s \in Runs \ {r} : held'[s] = held[s] /\ clean'[s] = clean[s]
    /\ clean'[r] => clean[r]
    /\ UNCHANGED <<stage, mayPublish, published, killed>>

\* Also the way of a run that fails or throws.
Leave(r) ==
    /\ stage[r] = "in"
    /\ held[r] = {}
    /\ \E next \in {"after", "end"} : stage' = [stage EXCEPT ![r] = next]
    /\ UNCHANGED <<held, clean, mayPublish, published, killed>>

Publish(r) ==
    /\ stage[r] = "after"
    /\ clean[r] \/ r \in mayPublish
    /\ published[CloneOf[r]]' \subseteq published[CloneOf[r]] \cup {r}
    /\ \A c \in Clones \ {CloneOf[r]} : published'[c] = published[c]
    /\ UNCHANGED <<stage, held, clean, mayPublish, killed>>

End(r) ==
    /\ stage[r] \in {"out", "after"}
    /\ stage' = [stage EXCEPT ![r] = "end"]
    /\ UNCHANGED <<held, clean, mayPublish, published, killed>>

Kill(r) ==
    /\ stage[r] # "end"
    /\ stage' = [stage EXCEPT ![r] = "end"]
    /\ killed' = killed \cup {r}
    /\ UNCHANGED <<held, clean, mayPublish, published>>

Next == \E r \in Runs :
    Enter(r) \/ Work(r) \/ Leave(r) \/ Publish(r) \/ End(r) \/ Kill(r)

Spec == Init /\ [][Next]_vars
=============================================================================

------------------------------ MODULE MCDevMode ------------------------------
(* Small instances of DevMode for TLC. *)
EXTENDS DevMode, TLC

CONSTANTS t1, t2, c1, c2, other

A32and64 == {32, 64}

Bind(c) == [by |-> "script", mode |-> "bind", force |-> TRUE, autoFix |-> TRUE,
            dry |-> FALSE, target |-> c, archs |-> {64}]
Unbind(c) == [Bind(c) EXCEPT !.mode = "unbind", !.force = FALSE]

\* c1 bound, reverted and, for both bitnesses, unbound; the agent; c2 bound without
\* the automatic fix; the modes that do not bind.
Contending ==
    {Bind(c1), [Bind(c1) EXCEPT !.by = "agent", !.force = FALSE],
     [Unbind(c1) EXCEPT !.archs = A32and64], [Bind(c1) EXCEPT !.mode = "revert"],
     [Bind(c2) EXCEPT !.force = FALSE, !.autoFix = FALSE],
     [Unbind(c2) EXCEPT !.mode = "cleanup"], [Bind(c2) EXCEPT !.mode = "status"],
     [Bind(c1) EXCEPT !.dry = TRUE]}

\* Nothing, the checkout, and the checkout among others, with one entry twice.
Found == {[a \in Archs |-> s] : s \in {<<>>, <<c1>>, <<other, Doubled, c1, other>>}}
Symmetry == Permutations(Terminals)
=============================================================================

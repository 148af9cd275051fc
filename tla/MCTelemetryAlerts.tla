------------------------- MODULE MCTelemetryAlerts -------------------------
(* Three runs of the three kinds; a history of two lines; messages through   *)
(* two providers that answer, or one of them misconfigured or simulated.     *)
EXTENDS TelemetryAlerts

Settings(set, bad, tls, dry, live) ==
    [set |-> set, badNumber |-> bad, bothTls |-> tls, dryRun |-> dry, live |-> live]
MCEnvironments == {Settings({"slack", "github"}, {}, FALSE, FALSE, {}),
                   Settings({"discord", "email"}, {}, TRUE, FALSE, {}),
                   Settings({"slack", "email", "github"}, {"github"}, FALSE, TRUE, {"email"}),
                   Settings({"slack", "email"}, {"email"}, FALSE, FALSE, {})}

Tests(slow, deps) == [slow |-> slow, deps |-> deps]
Omits(n) == [omitted |-> n]
Steps(n) == [step |-> n]
MCObserved == [test |-> <<{Tests(0, 1), Tests(0, 0)}, {Tests(1, 0)}, {Tests(1, 1)}>>,
               srs |-> <<{Omits(0)}, {Omits(1)}, {Omits(1)}>>,
               qa |-> <<{Steps(1)}, {Steps(0), Steps(1)}, {Steps(1)}>>]
=============================================================================

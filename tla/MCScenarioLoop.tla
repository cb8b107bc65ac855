---------------------------- MODULE MCScenarioLoop ----------------------------
(***************************************************************************)
(* Scenarios of both sites for TLC: every mode of intervention, every       *)
(* control model, the fast path with and without the early return of an     *)
(* unready deep link, the wall-clock cap where it matters most.             *)
(***************************************************************************)
EXTENDS ScenarioLoop

Scenario(site, mode, control, fast, deeplink) ==
    [site |-> site, mode |-> mode, control |-> control, fast |-> fast,
     deeplink |-> deeplink, unreadyReturns |-> ~deeplink, lastResort |-> TRUE,
     cap |-> FALSE, attempts |-> 2, turns |-> 2]

MCSettings ==
    {[Scenario("google_flights", "off", "auto", FALSE, TRUE) EXCEPT !.cap = TRUE],
     Scenario("google_flights", "off", "strict_3layer", TRUE, TRUE),
     Scenario("google_flights", "off", "legacy", FALSE, FALSE),
     [Scenario("google_flights", "demo", "auto", TRUE, TRUE) EXCEPT
        !.attempts = 1, !.turns = 1],
     Scenario("skyscanner", "off", "auto", FALSE, FALSE),
     [Scenario("skyscanner", "off", "strict_3layer", FALSE, FALSE) EXCEPT
        !.lastResort = FALSE],
     Scenario("skyscanner", "assist", "strict_3layer", TRUE, FALSE),
     [Scenario("skyscanner", "demo", "auto", FALSE, FALSE) EXCEPT
        !.attempts = 1, !.turns = 1]}
=============================================================================

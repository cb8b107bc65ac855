---------------------------- MODULE ScenarioState ----------------------------
(***************************************************************************)
(* What one call of run_agentic_scenario keeps between its steps            *)
(* (core/scenario_runner/run_agentic_scenario.py).  The modules             *)
(* ScenarioStart, AttemptGate, ScenarioRecovery, ScenarioTurn and           *)
(* ScenarioLoop hold its steps, in the order in which the code takes them.  *)
(*                                                                         *)
(* The live page belongs to the site: it is not kept, and every look at it  *)
(* may find any surface.  html is what the last look that was kept found.   *)
(* Whether a page is ready is told from its text, by tests that may err     *)
(* both ways on any page: the model lets them say what they like, and keeps *)
(* whether the capture at hand, as it is, was put to one and passed it.     *)
(* Time is two marks that are passed at some moment: the budget less its    *)
(* soft margin, and the wall-clock cap, where there is one.                 *)
(***************************************************************************)
EXTENDS Naturals

CONSTANTS
    Settings,        \* the scenarios: site, mode, control, bounds, ...
    MaxAttempts,     \* the contract's bounds on attempts and turns
    MaxTurns,
    EscalationMax,   \* FLIGHT_WATCHER_LAYER3_MODEL_ESCALATION_MAX
    PxMax,           \* the two limits of the blank shell recoveries
    ManualMax,
    CollabMax        \* calls of each kind in collaborative recoveries

ASSUME ScenarioAssumption ==
    /\ MaxAttempts \in Nat \ {0} /\ MaxTurns \in Nat \ {0}
    /\ EscalationMax \in Nat /\ PxMax \in Nat /\ ManualMax \in Nat
    /\ CollabMax \in Nat

\* "other" is a page of results for something else: hotels, another route;
\* "shell" is what is_skyscanner_results_shell_incomplete finds a page to be;
\* "none" is no text, of a page that is closed or cannot be read.
Surfaces == {"results", "other", "shell", "form", "block", "none"}

Sites == {"google_flights", "skyscanner"}
Modes == {"off", "assist", "demo"}
Controls == {"legacy", "auto", "strict_3layer"}

\* Where a plan comes from: nowhere, the stored ones and the code's own, a model.
Plans == {"none", "local", "model"}

SettingType ==
    [site : Sites, mode : Modes, control : Controls, fast : BOOLEAN,
     deeplink : BOOLEAN, unreadyReturns : BOOLEAN, lastResort : BOOLEAN,
     cap : BOOLEAN, attempts : 1..MaxAttempts, turns : 1..MaxTurns]

\* The attempts and turns asked for are cut: to those of a recovery, to the
\* contract's, and to one round for a demo.
BoundedRounds(s) == s.mode = "demo" => s.attempts = 1 /\ s.turns = 1

ASSUME SettingsAssumption ==
    /\ Settings \subseteq SettingType
    /\ \A s \in Settings : BoundedRounds(s)

VARIABLES
    conf,         \* the setting of this scenario
    at,           \* the step at hand, or how the scenario ended
    low,          \* the remaining budget is within the soft margin
    capped,       \* the wall-clock cap is used up
    html,         \* the last capture; at the end, what is handed over
    vouched,      \* history: a test of its readiness has passed that capture
    plan,         \* where the plan at hand comes from
    recovery,     \* the scenario recovers a failed deep link
    attempt,
    turn,
    gate,         \* what the interstitial gate of this attempt found
    handoff,      \* a cleared interstitial left word for the first turn
    once,         \* counters that live as long as an attempt
    verdict,      \* what the turn at hand found out
    used,         \* counters that live as long as the scenario
    repeats,      \* the same error in a row on a page that did not move
    seen          \* history: what was done, however often it was counted

setting == <<conf, recovery>>
clocks == <<low, capped>>
page == <<html, vouched>>
place == <<attempt, turn>>
local == <<gate, handoff, once, verdict>>
vars == <<conf, at, low, capped, html, vouched, plan, recovery, attempt, turn,
          gate, handoff, once, verdict, used, repeats, seen>>

Google == conf.site = "google_flights"
Skyscanner == conf.site = "skyscanner"
Demo == conf.mode = "demo"
Strict == conf.control = "strict_3layer"
LastTurn == turn >= conf.turns
LastAttempt == attempt >= conf.attempts

Over == {"page", "ready page", "exception"}

Fresh == [reload |-> 0, reset |-> 0, rewind |-> 0, force |-> 0, pageState |-> 0,
          refilled |-> FALSE]
Unused == [px |-> 0, manual |-> 0, model |-> 0, vlm |-> 0, repair |-> 0, planner |-> 0]
NoVerdict == [ready |-> FALSE, bound |-> "unknown", trace |-> "none",
              collab |-> "none", suppressed |-> FALSE, rebound |-> FALSE]
NoGate == [manual |-> "no", tries |-> 0, lost |-> FALSE]

-----------------------------------------------------------------------------
(* Looking at the page, and the ways out *)

\* Only Skyscanner's pages come as an empty shell.
Shown == Surfaces \ (IF Google THEN {"shell"} ELSE {})

\* browser.content() raises when there is no page.
Captures == html' \in Shown \ {"none"} /\ vouched' = FALSE

\* browser.content() with its exception caught.
CapturesSafely == html' \in Shown /\ vouched' = FALSE

\* A capture that replaces the last one unless it is empty.
Recaptures == UNCHANGED page \/ Captures

\* A capture that is put to a test of its readiness.
CapturesJudged(ready) == html' \in Shown \ {"none"} /\ vouched' = ready

Forget == gate' = NoGate /\ handoff' = FALSE /\ once' = Fresh /\ verdict' = NoVerdict

Go(where) == at' = where /\ UNCHANGED local

\* _scenario_return: the capture is handed over, as ready or not.
Return(ready) == at' = (IF ready THEN "ready page" ELSE "page") /\ Forget

\* An exception that no handler of the scenario sees.
Escape == at' = "exception" /\ Forget

\* Where an exception is caught: in the try of the attempt.
TrySteps == {"turn", "handoff", "surface", "execute", "trace", "collabVision",
             "collabRepair", "collabPlanner", "date", "capture", "shell", "px",
             "home", "window", "rejudge", "judged", "evidence", "scope", "settle",
             "accept", "credit", "limit", "followup"}
=============================================================================

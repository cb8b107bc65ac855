---------------------------- MODULE ScenarioStart ----------------------------
(***************************************************************************)
(* The beginning of a scenario: the first navigation, the optional agent,  *)
(* the fast path of a deep link, the choice of the first plan and the      *)
(* bounds of the attempts (run_agentic_scenario.py, up to its loop).        *)
(***************************************************************************)
EXTENDS ScenarioState

startKeeps == <<conf, clocks, place, used, repeats, seen>>

Init ==
    /\ conf \in Settings
    /\ at = "open"
    /\ low = FALSE /\ capped = FALSE
    /\ html = "none" /\ vouched = FALSE /\ plan = "none"
    /\ recovery = FALSE
    /\ attempt = 1 /\ turn = 1
    /\ gate = NoGate /\ handoff = FALSE /\ once = Fresh /\ verdict = NoVerdict
    /\ used = Unused /\ repeats = 0
    /\ seen = [late |-> 0, px |-> 0, windows |-> 0]

Open ==
    /\ at = "open"
    /\ Captures
    /\ Go("opened")
    /\ UNCHANGED <<startKeeps, plan, recovery>>

\* The cap is looked at before the model is asked about the first page.
Opened ==
    /\ at = "opened"
    /\ IF capped THEN Return(FALSE) ELSE Go("agent")
    /\ UNCHANGED <<startKeeps, page, plan, recovery>>

\* _try_agent_v0_optional: up to three turns of the agent; a page that its own
\* observation holds for ready ends the scenario.  Otherwise Google's page is opened
\* once more, and an exception of that navigation is swallowed.
TryAgent ==
    /\ at = "agent"
    /\ \/ /\ Google
          /\ \E ready \in BOOLEAN :
                /\ CapturesJudged(ready)
                /\ IF ready THEN Return(TRUE)
                   ELSE Go(IF conf.deeplink THEN "probe" ELSE "planning")
       \/ /\ Skyscanner /\ UNCHANGED page
          /\ Go("planning")
    /\ UNCHANGED <<startKeeps, plan, recovery>>

\* The poll of the deep link ends with a page its probe takes for ready, with the
\* cap or with its own deadline, at any surface.
ProbeDeeplink ==
    /\ at = "probe"
    /\ \/ capped /\ Captures /\ Return(FALSE)
       \/ CapturesJudged(TRUE) /\ Return(TRUE)
       \/ Captures /\ Go("pageState")
    /\ UNCHANGED <<startKeeps, plan, recovery>>

\* _attempt_google_deeplink_page_state_recovery: one extra action and a rebind,
\* once, whose page is ready only when the rebind's probe says so.
PageStateRecovery(next) ==
    \/ /\ once.pageState < 1
       /\ \/ CapturesJudged(TRUE) /\ Return(TRUE)
          \/ Recaptures /\ Return(FALSE)
          \/ /\ Recaptures
             /\ at' = next /\ once' = [once EXCEPT !.pageState = @ + 1]
             /\ UNCHANGED <<gate, handoff, verdict>>
    \/ UNCHANGED page /\ Go(next)

RecoverPageState ==
    /\ at = "pageState"
    /\ PageStateRecovery(IF conf.fast THEN "rebind" ELSE "visionKind")
    /\ UNCHANGED <<startKeeps, plan, recovery>>

\* A failed quick rebind turns the scenario into a recovery: no stored plan.
QuickRebind ==
    /\ at = "rebind"
    /\ \/ CapturesJudged(TRUE) /\ Return(TRUE) /\ UNCHANGED recovery
       \/ Captures /\ Go("pageState2") /\ recovery' = TRUE
    /\ UNCHANGED <<startKeeps, plan>>

RecoverPageStateAgain ==
    /\ at = "pageState2"
    /\ PageStateRecovery("visionKind")
    /\ UNCHANGED <<startKeeps, plan, recovery>>

\* The vision model may hint at the kind of page; a hint that can be applied closes
\* a dialog or changes the tab, and the page is captured again and judged anew.  The
\* fast path gives an unready one back at once.
VisionKind ==
    /\ at = "visionKind"
    /\ \/ CapturesJudged(TRUE) /\ Return(TRUE)
       \/ /\ Recaptures
          /\ IF conf.fast /\ conf.unreadyReturns THEN Return(FALSE) ELSE Go("planning")
    /\ UNCHANGED <<startKeeps, plan, recovery>>

\* The ladder of first plans: the stored one or the code's own, and a model only
\* where the control allows one before anything has failed.
FirstPlans == {"local"} \cup (IF Strict \/ recovery THEN {} ELSE {"model"})

\* The person at the screen of a demo needs no plan.
ChoosePlan ==
    /\ at = "planning"
    /\ plan' \in FirstPlans \cup (IF Demo THEN {"none"} ELSE {})
    /\ Go("attempt")
    /\ UNCHANGED <<startKeeps, page, recovery>>

\* "Initial action plan generation failed": no plan of any rung can act.
NoPlan ==
    /\ at = "planning" /\ ~Demo
    /\ Escape
    /\ UNCHANGED <<startKeeps, page, plan, recovery>>

Start ==
    \/ Open \/ Opened \/ TryAgent \/ ProbeDeeplink \/ RecoverPageState
    \/ QuickRebind \/ RecoverPageStateAgain \/ VisionKind \/ ChoosePlan \/ NoPlan
=============================================================================

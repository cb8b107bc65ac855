--------------------------- MODULE ScenarioRecovery ---------------------------
(***************************************************************************)
(* The two recoveries inside a turn: the collaborative one of a failed      *)
(* date, and the ladder of Skyscanner's blank shell.                        *)
(***************************************************************************)
EXTENDS AttemptGate

-----------------------------------------------------------------------------
(* The collaborative recovery of a failed date (scenario_recovery_collab.py *)
(* with the limits of google_recovery_session.py): a vision probe, a repair *)
(* of the base plan, a new plan.  Each kind of call has a limit of its own  *)
(* for the whole scenario.  The probe is counted before it is made, the     *)
(* other two only when they have returned.                                  *)

collabKeeps == <<setting, clocks, plan, place, gate, handoff, once, page, repeats, seen>>

\* The follow-up at hand: none, the base plan, or one of a model.
Follow(p) == verdict' = [verdict EXCEPT !.collab = p] /\ at' = "date"

\* The probe may show that the core of the route is bound after all: then the
\* base plan does, and nobody is asked.
CollabVision ==
    /\ at = "collabVision"
    /\ \/ /\ used.vlm < CollabMax
          /\ used' = [used EXCEPT !.vlm = @ + 1]
          /\ \/ at' = "collabRepair" /\ UNCHANGED verdict
             \/ Follow("local")
       \/ /\ used.vlm >= CollabMax
          /\ at' = "collabRepair" /\ UNCHANGED <<used, verdict>>
    /\ UNCHANGED collabKeeps

\* A repair that raises is not counted, and the planner is asked instead.
CollabRepair ==
    /\ at = "collabRepair"
    /\ \/ /\ used.repair < CollabMax
          /\ used' = [used EXCEPT !.repair = @ + 1]
          /\ \/ Follow("model")
             \/ at' = "collabPlanner" /\ UNCHANGED verdict
       \/ /\ at' = "collabPlanner"     \* it raised, it had no base plan, the limit
          /\ UNCHANGED <<used, verdict>>
    /\ UNCHANGED collabKeeps

\* The planner is the last; without its plan the base plan does, if it is valid.
CollabPlanner ==
    /\ at = "collabPlanner"
    /\ \/ /\ used.planner < CollabMax
          /\ used' = [used EXCEPT !.planner = @ + 1]
          /\ \E p \in Plans : Follow(p)
       \/ /\ UNCHANGED used            \* it raised, or the limit
          /\ \E p \in {"none", "local"} : Follow(p)
    /\ UNCHANGED collabKeeps

Collab == CollabVision \/ CollabRepair \/ CollabPlanner

-----------------------------------------------------------------------------
(* Skyscanner's results page may stay an empty shell.  The turn then goes   *)
(* through a ladder of recoveries (run_agentic_scenario.py, after the first *)
(* judgement of the turn): wait, reload, navigate, poll; the recovery of a   *)
(* hidden challenge, a few times per scenario; back to the home page, if a   *)
(* turn is left to search again; a person's window, once per scenario.       *)
(* None of them looks at the budget.                                         *)

shellKeeps == <<setting, clocks, plan, place, gate, handoff, once, repeats>>

\* The shell is left when a capture shows something else; an empty one does not
\* replace what was captured before.
Leaves(next) ==
    /\ Captures
    /\ at' = IF html' = "shell" THEN next ELSE "rejudge"

ShellWait ==
    /\ at = "shell"
    /\ Leaves("px")
    /\ UNCHANGED <<shellKeeps, used, seen, verdict>>

\* _probe_skyscanner_shadow_challenge_state suspects a challenge or does not.
ShellChallenge ==
    /\ at = "px"
    /\ \/ /\ used.px < PxMax
          /\ used' = [used EXCEPT !.px = @ + 1]
          /\ seen' = [seen EXCEPT !.px = @ + 1]
          /\ Leaves("home")
       \/ at' = "home" /\ UNCHANGED <<used, seen, page>>
    /\ UNCHANGED <<shellKeeps, verdict>>

\* Back to the home page, to search again in the next turn.  After a refill that
\* already followed an interstitial in this attempt the turn gives up instead.
ShellHome ==
    /\ at = "home"
    /\ \/ /\ ~LastTurn /\ once.refilled
          /\ verdict' = [verdict EXCEPT !.suppressed = TRUE]
          /\ at' = "window" /\ UNCHANGED page
       \/ /\ ~LastTurn /\ ~once.refilled
          /\ html' = "form" /\ vouched' = FALSE
          /\ verdict' = [verdict EXCEPT !.rebound = TRUE]
          /\ at' = "rejudge"
       \/ /\ LastTurn \/ ~once.refilled
          /\ at' = "window" /\ UNCHANGED <<page, verdict>>
    /\ UNCHANGED <<shellKeeps, used, seen>>

\* The window is forced, whatever the mode says of interventions.
ShellWindow ==
    /\ at = "window"
    /\ at' = "rejudge"
    /\ \/ /\ used.manual < ManualMax
          /\ used' = [used EXCEPT !.manual = @ + 1]
          /\ seen' = [seen EXCEPT !.windows = @ + 1]
          /\ Recaptures
       \/ /\ used.manual >= ManualMax
          /\ UNCHANGED <<used, seen, page>>
    /\ UNCHANGED <<shellKeeps, verdict>>

Shell == ShellWait \/ ShellChallenge \/ ShellHome \/ ShellWindow
==============================================================================

----------------------------- MODULE AttemptGate -----------------------------
(***************************************************************************)
(* What an attempt does before its first turn                               *)
(* (run_agentic/attempt_gate.py): the cap, the budget, and the search for   *)
(* an interstitial, with the grace period, the reloads, the person at the   *)
(* window (skyscanner/interstitials.py, skyscanner/challenge_adapter.py)    *)
(* and the check of what they brought.  Google's provider knows no grace:   *)
(* a blocked page ends the scenario.                                        *)
(***************************************************************************)
EXTENDS ScenarioStart

\* How a window in which a person may act has ended.
Windows == {"cleared", "elapsed", "closed", "interrupted", "unavailable"}

gateKeeps == <<setting, clocks, plan, place, used, repeats, seen>>
gateLocals == <<handoff, once, verdict>>

\* detect_skyscanner_interstitial_block finds nothing in a page that could be read.
Clear(h) == h \notin {"block", "none"}

\* The turns begin, with or without word of a cleared interstitial.
BeginTurns(left) ==
    /\ at' = "turn"
    /\ gate' = NoGate /\ handoff' = left
    /\ UNCHANGED <<once, verdict>>

\* Mutant: an attempt starts with the shell recoveries unused.
BeginAttemptResets ==
    /\ at = "attempt"
    /\ CapturesSafely
    /\ at' = IF ~Demo /\ (capped \/ low) THEN "page"
             ELSE IF ~Demo /\ html' = "block" THEN "grace" ELSE "turn"
    /\ Forget
    /\ used' = [used EXCEPT !.px = 0, !.manual = 0]
    /\ UNCHANGED <<setting, clocks, plan, place, repeats, seen>>

\* The demo goes to its window at once; else the clocks come first.
BeginAttempt ==
    /\ at = "attempt"
    /\ \/ Demo /\ UNCHANGED page /\ at' = "turn"
       \/ /\ ~Demo /\ (capped \/ low)
          /\ CapturesSafely /\ at' = "page"
       \/ /\ ~Demo /\ ~capped /\ ~low
          /\ CapturesSafely
          /\ at' = IF html' = "block" THEN "grace" ELSE "turn"
    /\ Forget
    /\ UNCHANGED <<setting, clocks, plan, place, used, repeats, seen>>

NoGrace ==
    /\ at = "grace" /\ Google
    /\ Go("blocked")
    /\ UNCHANGED <<gateKeeps, page>>

\* With interventions off the program waits and looks again; a page that is open
\* and gives no text passes for clear.
GraceWait ==
    /\ at = "grace" /\ Skyscanner /\ conf.mode = "off"
    /\ CapturesSafely
    /\ at' \in (IF html' # "block" THEN {"validate"} ELSE {})
              \cup (IF ~Clear(html') THEN {"fallback"} ELSE {})
    /\ UNCHANGED <<gateKeeps, local>>

\* In assist mode a person has up to three windows, of which the last one counts;
\* an exception of the window is followed by the wait.
GraceWindows ==
    /\ at = "grace" /\ Skyscanner /\ conf.mode = "assist"
    /\ CapturesSafely
    /\ \E how \in Windows : gate' = [gate EXCEPT !.manual = how]
    /\ at' = IF Clear(html') THEN "validate" ELSE "fallback"
    /\ UNCHANGED <<gateKeeps, gateLocals>>

\* A window a person used is followed up only when it had no effect at all.
FollowsUp == gate.manual \in {"no", "elapsed", "unavailable"}

\* attempt_skyscanner_interstitial_fallback_reload: up to three reloads, or waits
\* when a person had a window before.
MayReload == gate.tries < 3 /\ FollowsUp

\* The page after the reload, or after the pause that follows a blocked one: no
\* text at all passes for clear.
AfterReload ==
    IF html' # "block" THEN "validate"
    ELSE IF gate.tries = 1 /\ gate.manual # "elapsed" THEN "reloadWindow"
    ELSE "fallback"

Reload ==
    /\ at = "fallback" /\ MayReload
    /\ CapturesSafely
    /\ gate' = [gate EXCEPT !.tries = @ + 1]
    /\ at' = AfterReload
    /\ UNCHANGED <<gateKeeps, gateLocals>>

\* Before the last reload a person is asked again; the answer ends the reloads.
ReloadWindow ==
    /\ at = "reloadWindow"
    /\ \E how \in IF conf.mode = "assist" THEN Windows ELSE {"unavailable"} :
          /\ gate' = [gate EXCEPT !.manual = how, !.tries = 3]
          /\ IF how = "unavailable" THEN UNCHANGED page ELSE Recaptures
    /\ at' \in {"fallback"} \cup
              (IF gate'.manual # "unavailable" /\ Clear(html') THEN {"validate"} ELSE {})
    /\ UNCHANGED <<gateKeeps, gateLocals>>

\* No reload, or the last one: with interventions off a person may still be asked
\* as a last resort; with or without, the page is blocked unless cleared.
EndFallback ==
    /\ at = "fallback"
    /\ Go(IF conf.mode = "off" /\ conf.lastResort THEN "lastResort" ELSE "blocked")
    /\ UNCHANGED <<gateKeeps, page>>

\* attempt_skyscanner_last_resort_manual: what it says is believed only of a
\* window that was used and not closed by an exception.
LastResort ==
    /\ at = "lastResort"
    /\ CapturesSafely
    /\ \E how \in Windows :
          /\ gate' = [gate EXCEPT !.manual = how]
          /\ at' = IF \/ how = "cleared"
                      \/ Clear(html') /\ how \in {"elapsed", "interrupted"}
                   THEN "validate" ELSE "blocked"
    /\ UNCHANGED <<gateKeeps, gateLocals>>

\* validate_skyscanner_interstitial_clearance polls the live page: blocked, off
\* the route that was asked for, or clear.  A route lost by the way is opened
\* again, once.
Validate ==
    /\ at = "validate"
    /\ CapturesSafely
    /\ \/ /\ Clear(html')
          /\ BeginTurns(html' \in {"results", "shell"} \/ gate.manual \notin {"no", "unavailable"})
       \/ /\ Clear(html') /\ ~gate.lost
          /\ gate' = [gate EXCEPT !.lost = TRUE]
          /\ at' = "rearm" /\ UNCHANGED gateLocals
       \/ /\ ~Clear(html') \/ gate.lost
          /\ Go("blocked")
    /\ UNCHANGED gateKeeps

Rearm ==
    /\ at = "rearm"
    /\ CapturesSafely
    /\ Go(IF html' = "none" THEN "blocked" ELSE "validate")
    /\ UNCHANGED gateKeeps

\* The scenario ends.  A page the person's window closed leaves its snapshot, which
\* is handed over as ready when two marks of a page of results are found in it.
Blocked ==
    /\ at = "blocked"
    /\ \/ /\ gate.manual = "closed"
          /\ CapturesJudged(TRUE) /\ Return(TRUE)
       \/ UNCHANGED page /\ Return(FALSE)
    /\ UNCHANGED gateKeeps

Gate ==
    \/ BeginAttempt \/ NoGrace \/ GraceWait \/ GraceWindows \/ Reload \/ ReloadWindow
    \/ EndFallback \/ LastResort \/ Validate \/ Rearm \/ Blocked
=============================================================================

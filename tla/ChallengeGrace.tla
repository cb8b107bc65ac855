--------------------------- MODULE ChallengeGrace ---------------------------
(***************************************************************************)
(* human_mimic_interstitial_grace of core/browser/verification_challenges: *)
(* what the session does by itself before a challenge within a time budget.*)
(* Time passes in seconds; whether a visible frame, a target or a hint is  *)
(* found is up to the page.                                                *)
(***************************************************************************)
EXTENDS ManualWindow

CONSTANTS
    GraceTime,   \* duration_ms
    Hold,        \* the longest press
    Settle,      \* the pause after a press
    VisionTime   \* _VERIFICATION_CLASSIFIER_TIMEOUT_SEC

ASSUME GraceAssumption == {GraceTime, Hold, Settle, VisionTime} \subseteq Nat \ {0}

VARIABLE grace   \* _last_interstitial_grace_meta, the deadline, the last probe

NoGrace == [left |-> 0, attempts |-> 0, executed |-> FALSE, success |-> FALSE,
            nudged |-> FALSE, held |-> FALSE, guided |-> FALSE, seen |-> FALSE,
            shell |-> FALSE, frame |-> FALSE, from |-> "first"]

Shell == Open(helpers) /\ Surface(helpers)

Most(a, b) == IF a < b THEN b ELSE a
Least(a, b) == IF a < b THEN a ELSE b

(* A press may take what is left of the time, up to its cap.                 *)
BudgetUncut(left) == Hold
Budget(left) == Least(Hold, Most(left, 0))

(* On the way out only what the scenario reads of it is kept.                *)
Reported(meta) == [NoGrace EXCEPT !.left = meta.left]

GraceStep(to, meta) ==
    /\ step' = to /\ grace' = IF to = "idle" THEN Reported(meta) ELSE meta
    /\ UNCHANGED <<conf, active, handlers, win, result, store, acts, clock, escaped, pageVars>>

BeginGrace ==
    /\ step' = "grace"
    /\ grace' = [NoGrace EXCEPT !.left = GraceTime]
    /\ UNCHANGED <<conf, active, handlers, win, result, store, acts, clock, escaped, pageVars>>

-----------------------------------------------------------------------------
(* _maybe_probe_press_hold_once: from where, decides what follows a failure. *)

AfterProbe(from) ==
    CASE from = "first" -> "passive"
      [] from = "loop" -> "extras"
      [] from = "held" -> "guide"
      [] from = "guided" -> "pause"

(* What the page lets be found: a visible frame, a place to press.           *)
Findings ==
    IF Open(helpers) THEN [frame : BOOLEAN, target : BOOLEAN]
    ELSE {[frame |-> FALSE, target |-> FALSE]}

(* _wait_for_press_hold_ready, for a shell whose frame does not show.        *)
ReadyWaits == IF Shell /\ grace.left > 2 THEN {0, 1} ELSE {0}

Deferred(left, shell) == grace.attempts = 0 /\ ~shell /\ left > 1

Probe ==
    /\ step = "grace"
    /\ \E found \in Findings, wait \in ReadyWaits :
            LET left == grace.left - wait
                meta == [grace EXCEPT !.attempts = @ + 1, !.left = left,
                                      !.shell = Shell, !.frame = found.frame]
            IN  IF found.target /\ ~Deferred(left, Shell \/ found.frame) /\ Budget(left) > 0
                THEN GraceStep("press", meta)
                ELSE GraceStep(AfterProbe(grace.from), meta)

(* human_mimic_press_and_hold_challenge: a press that is not broken off.     *)
Pressed == Open(helpers)

(* The press and the look at what it did.                                    *)
Press ==
    /\ step = "press"
    /\ IF Pressed
       THEN \E settled \in 0 .. Settle :
              LET left == grace.left - Budget(grace.left) - settled
                  meta == [grace EXCEPT !.left = left, !.executed = TRUE,
                                        !.success = @ \/ (grace.shell /\ ~Shell)]
              IN GraceStep(IF grace.from # "first" THEN "rest"
                           ELSE IF left > 0 THEN "passive" ELSE "idle", meta)
       ELSE GraceStep(AfterProbe(grace.from), grace)

-----------------------------------------------------------------------------
(* The passive part, and the loop of further probes.                         *)

(* simulate_passive_perimetrix_behavior keeps the share of the time it gets. *)
PassiveTimes == IF grace.left > 1 /\ ~Shell THEN {0, 1} ELSE {0}

Passive ==
    /\ step = "passive"
    /\ \E spent \in PassiveTimes :
            LET meta == [grace EXCEPT !.left = @ - spent, !.seen = Shell, !.from = "loop"]
            IN GraceStep(IF meta.left > 0 THEN "again" ELSE "idle", meta)

Attempts == IF grace.seen THEN 5 ELSE 3

(* What the first probe has found out is forgotten when no later one presses.*)
Unpressed == [grace EXCEPT !.executed = FALSE, !.success = FALSE]

Again ==
    /\ step = "again"
    /\ IF grace.attempts < Attempts /\ grace.left > 0
       THEN GraceStep("grace", [grace EXCEPT !.from = "loop"])
       ELSE GraceStep("rest", Unpressed)

Bare == grace.attempts >= 2 /\ grace.shell /\ ~grace.frame

(* A nudge and a press on the bare shell, each once.                         *)
Nudges == IF Open(helpers) /\ Bare /\ ~grace.nudged THEN BOOLEAN ELSE {FALSE}
Holds ==
    IF Open(helpers) /\ Bare /\ ~grace.held /\ ~grace.executed /\ Budget(grace.left) > 0
    THEN BOOLEAN ELSE {FALSE}

Extras ==
    /\ step = "extras"
    /\ \E nudges \in Nudges, holds \in Holds :
            LET meta == [grace EXCEPT !.nudged = @ \/ nudges, !.held = @ \/ holds]
            IN IF holds
               THEN GraceStep("grace", [meta EXCEPT !.from = "held",
                                                    !.left = @ - Budget(grace.left)])
               ELSE GraceStep("guide", meta)

(* _maybe_vision_guided_press_once: the time left is read before the model   *)
(* is asked and used after it has answered.                                  *)
Guide ==
    /\ step = "guide"
    /\ IF grace.guided \/ grace.left < 1
       THEN GraceStep("pause", [grace EXCEPT !.guided = TRUE])
       ELSE \E asked \in 0 .. VisionTime, presses \in BOOLEAN :
              LET meta == [grace EXCEPT !.guided = TRUE, !.left = @ - asked]
              IN IF presses /\ Open(helpers)
                 THEN GraceStep("grace", [meta EXCEPT !.from = "guided",
                                                      !.left = @ - Budget(grace.left)])
                 ELSE GraceStep("pause", meta)

Pause ==
    /\ step = "pause"
    /\ IF grace.left < 1 THEN GraceStep("rest", Unpressed)
       ELSE IF Open(helpers) THEN GraceStep("again", [grace EXCEPT !.left = @ - 1])
       ELSE GraceStep("rest", grace)              \* the wait raises past the reset

(* What is left of the time is waited for, unless the page has gone.         *)
Rest ==
    /\ step = "rest"
    /\ GraceStep("idle", [grace EXCEPT !.left = IF Open(helpers) /\ @ > 0 THEN 0 ELSE @])

GraceNext ==
    \/ Probe \/ Press \/ Passive \/ Again \/ Extras \/ Guide \/ Pause \/ Rest

=============================================================================

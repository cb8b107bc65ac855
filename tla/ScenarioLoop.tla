----------------------------- MODULE ScenarioLoop -----------------------------
(***************************************************************************)
(* The loop of attempts around the turns: the handler of a failed attempt,  *)
(* its escalation to a model, the end of the attempts, and what can break   *)
(* in between (run_agentic_scenario.py).                                     *)
(***************************************************************************)
EXTENDS ScenarioTurn

handlerKeeps == <<setting, clocks, seen>>

\* _allow_layer3_model_escalation, on the indices the failed turn has left.
AllowsModel(protection) ==
    \/ conf.control = "legacy"
    \/ /\ used.model < EscalationMax
       /\ protection \/ ~Strict \/ (LastAttempt /\ LastTurn)

\* The errors in a row of the same kind on a page that did not change.  The second
\* one ends the scenario.
CountError ==
    /\ repeats' \in {0, 1} \cup (IF repeats > 0 THEN {repeats + 1} ELSE {})
    /\ IF repeats' >= 2 THEN Escape ELSE Go("escalate")

\* An error of the program itself, a NameError or the like, is not tried again.
ReturnOwnError == Return(FALSE) /\ UNCHANGED repeats

\* The failure is learned and the page captured.  With the budget used up there
\* is no other attempt.
HandleFailure ==
    /\ at = "handle"
    /\ Recaptures
    /\ \/ low /\ Return(FALSE) /\ UNCHANGED repeats
       \/ ~low /\ (ReturnOwnError \/ CountError)
    /\ UNCHANGED <<handlerKeeps, place, plan, used>>

\* Mutant: an attempt with the old plan does not count as one.
EscalationUncounted(plans, calls) ==
    /\ used' = [used EXCEPT !.model = IF @ < MaxAttempts THEN @ + calls ELSE @]
    /\ \/ plan' \in plans /\ NextAttempt
       \/ /\ UNCHANGED <<plan, place>>
          /\ IF repeats = 0 THEN at' = "attempt" /\ Forget ELSE Escape

\* The plan of the next attempt, asking a model calls times.  Without one the old
\* plan does if the page has moved.
Escalation(plans, calls) ==
    /\ used' = [used EXCEPT !.model = @ + calls]
    /\ \/ plan' \in plans /\ NextAttempt
       \/ /\ UNCHANGED plan
          /\ IF repeats = 0 THEN NextAttempt ELSE Escape /\ UNCHANGED place

\* A repair of the plan is asked for, and without one a new plan: both count once.
AskModel == Escalation({"model"}, 1)

\* The fast path builds a plan and asks a model only when that cannot act.
EscalateFast(allowed, skip) ==
    \/ Escalation({"local"}, 0)
    \/ ~skip /\ allowed /\ AskModel

\* The other asks for a repair and then for a new plan.  The repair of the
\* automatic mode is counted but not limited.
EscalateModel(allowed, skip) ==
    \/ (skip \/ (Strict /\ ~allowed)) /\ Escalation({}, 0)
    \/ ~skip /\ (allowed \/ ~Strict) /\ AskModel

\* Some failures of Google's page are no matter for a model.
Escalate ==
    /\ at = "escalate"
    /\ \E protection \in {TRUE, html = "block"}, skip \in {FALSE, Google} :
          IF conf.fast THEN EscalateFast(AllowsModel(protection), skip)
                       ELSE EscalateModel(AllowsModel(protection), skip)
    /\ UNCHANGED <<handlerKeeps, page, repeats>>

\* finalize_retries_exhausted_return
Exhausted ==
    /\ at = "exhausted"
    /\ CapturesSafely /\ Return(FALSE)
    /\ UNCHANGED <<handlerKeeps, place, plan, used, repeats>>

-----------------------------------------------------------------------------
(* What can break, and time *)

\* A step of a turn raises: the handler of the attempt takes over.
StepFails ==
    /\ at \in TrySteps
    /\ at' = "handle" /\ Forget
    /\ UNCHANGED <<handlerKeeps, place, page, plan, used, repeats>>

\* A time limit, the operator, or an exception outside the try: nobody catches it.
Breaks ==
    /\ at \notin Over
    /\ Escape
    /\ UNCHANGED <<handlerKeeps, place, page, plan, used, repeats>>

\* The clocks go on between any two steps.
Passes ==
    /\ at \notin Over
    /\ \/ ~low /\ low' = TRUE /\ UNCHANGED capped
       \/ conf.cap /\ ~capped /\ capped' = TRUE /\ UNCHANGED low
    /\ UNCHANGED <<at, setting, place, page, plan, local, used, repeats, seen>>

Steps == Start \/ Gate \/ Collab \/ Shell \/ Turn \/ HandleFailure \/ Escalate \/ Exhausted
Next == Steps \/ StepFails \/ Breaks \/ Passes

\* The scenario is one thread that goes on by itself: every wait of it has a limit.
Spec == Init /\ [][Next]_vars /\ WF_vars(Steps \/ StepFails)

-----------------------------------------------------------------------------
(* Properties *)

\* Whatever the tests of readiness say: a page handed over as ready is one that was
\* put to such a test as it is, and passed it, on whichever of the ways out it is
\* returned (agent, deep link, rebind, hint, snapshot, demo, turn).  No capture that
\* came after the test is handed over in its place; and what the turns store and
\* credit as a success is never Skyscanner's empty shell.
ReadyAsJudged ==
    /\ at = "ready page" => vouched
    /\ at \in {"accept", "credit"} => vouched /\ html # "shell"

\* When the soft margin of the budget is reached, at most the turn at hand still
\* carries out its plan.
WorkEndsWithBudget == seen.late <= 1

\* The recoveries of the blank shell are bounded for the scenario as a whole, not
\* for each of its attempts.
RecoveriesBounded == seen.px <= PxMax /\ seen.windows <= ManualMax

\* The scenario keeps the contract, and is over in the end.
Contract == INSTANCE ScenarioContract WITH
    answer <- IF at \in Over THEN at ELSE "none",
    round <- <<attempt, turn>>

KeepsContract == Contract!Spec
=============================================================================

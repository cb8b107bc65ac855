----------------------------- MODULE ScenarioTurn -----------------------------
(***************************************************************************)
(* One turn of an attempt: the gate (run_agentic/turn_gate.py), what a       *)
(* cleared interstitial left to do, the plan (run_agentic/turn_execute.py),  *)
(* the failures its trace shows, the judgement of the page and the evidence  *)
(* for it, and what comes next: the page is handed over, the attempt fails,  *)
(* or a follow-up plan is found for another turn.                            *)
(***************************************************************************)
EXTENDS ScenarioRecovery

turnKeeps == <<setting, clocks, used, repeats>>
turnGoesOn == <<turnKeeps, plan, place, seen>>
othersStay == UNCHANGED <<gate, handoff, once>>

\* Leaves the attempt without an exception: nothing is learned of it.
NextAttempt ==
    /\ Forget
    /\ IF LastAttempt
       THEN at' = "exhausted" /\ UNCHANGED place
       ELSE at' = "attempt" /\ attempt' = attempt + 1 /\ turn' = 1

\* The next turn with another plan.
NextTurn ==
    /\ at' = "turn" /\ turn' = turn + 1 /\ UNCHANGED attempt
    /\ verdict' = NoVerdict

\* Mutant: only the cap is looked at when a turn starts.
TurnGateCapOnly ==
    /\ at = "turn"
    /\ IF capped THEN Captures /\ Return(FALSE) ELSE UNCHANGED page /\ Go("handoff")
    /\ UNCHANGED turnGoesOn

\* The clocks are looked at, and the page is handed back as it is.
TurnGate ==
    /\ at = "turn"
    /\ IF capped \/ low THEN Captures /\ Return(FALSE) ELSE UNCHANGED page /\ Go("handoff")
    /\ UNCHANGED turnGoesOn

\* Results that stay for two or three looks are used as they are: the plan of
\* this turn is a wait.
UseResults == plan' = "local" /\ UNCHANGED once

\* The home page is opened, and the form filled anew if there is a plan for that.
Refill ==
    \/ plan' = "local" /\ once' = [once EXCEPT !.refilled = TRUE]
    \/ UNCHANGED <<plan, once>>

\* What a cleared interstitial left to do.  A new one at home ends the attempt.
Handoff ==
    /\ at = "handoff"
    /\ UNCHANGED <<turnKeeps, page, seen>>
    /\ \/ /\ ~handoff
          /\ Go("surface") /\ UNCHANGED <<plan, place>>
       \/ /\ handoff /\ NextAttempt
          /\ UNCHANGED plan
       \/ /\ handoff
          /\ at' = "surface" /\ handoff' = FALSE
          /\ UseResults \/ Refill
          /\ UNCHANGED <<place, gate, verdict>>

\* A challenge ends the attempt, so that the gate of the next one deals with it;
\* a page of hotels is left for one of flights first.
Surface ==
    /\ at = "surface"
    /\ \/ Go("execute") /\ UNCHANGED place
       \/ ~Demo /\ Skyscanner /\ NextAttempt
    /\ UNCHANGED <<turnKeeps, page, plan, seen>>

\* In demo mode the person at the screen has a window instead of a plan.
ExecuteDemo ==
    /\ at = "execute" /\ Demo
    /\ \/ Captures /\ Return(FALSE)
       \/ Go("trace") /\ UNCHANGED page
    /\ UNCHANGED turnGoesOn

\* execute_turn_plan carries out the plan; late counts those with the budget spent.
ExecutePlan ==
    /\ at = "execute" /\ ~Demo
    /\ Go("trace")
    /\ seen' = [seen EXCEPT !.late = @ + (IF low THEN 1 ELSE 0)]
    /\ UNCHANGED <<turnKeeps, plan, place, page>>

\* analyze_turn_trace, of Google's page: a calendar that did not open, a date that
\* could not be set, a route that is not the one filled in.
TraceFindings ==
    {"clean"} \cup (IF Google /\ ~Demo THEN {"calendar", "date", "mismatch"} ELSE {})

\* For a mismatch the deep link is opened again, once in an attempt, and may show
\* the route.
MismatchFound ==
    /\ at' = "capture"
    /\ \E reset \in IF conf.deeplink /\ once.reset < 1 THEN {1} ELSE {0} :
          /\ once' = [once EXCEPT !.reset = @ + reset]
          /\ \E t \in {"mismatch"} \cup (IF reset = 1 THEN {"none"} ELSE {}) :
                verdict' = [verdict EXCEPT !.trace = t]
    /\ UNCHANGED <<page, gate, handoff>>

\* A failed date goes before a mismatch: the page is handed back at once when the
\* calendar did not open, and in a recovery others are asked for a plan.
DateFound(found) ==
    \/ found = "calendar" /\ Captures /\ Return(FALSE)
    \/ /\ found = "date" /\ UNCHANGED page
       /\ Go(IF recovery THEN "collabVision" ELSE "date")

Trace ==
    /\ at = "trace"
    /\ UNCHANGED turnGoesOn
    /\ \E found \in TraceFindings :
          \/ found = "clean" /\ Go("capture") /\ UNCHANGED page
          \/ DateFound(found)
          \/ found = "mismatch" /\ MismatchFound

\* A plan of the collaborative recovery is kept for the next turn; without one
\* the page is loaded again, once in an attempt, and then the scenario ends.
DateFailure ==
    /\ at = "date"
    /\ UNCHANGED turnGoesOn
    /\ \/ verdict.collab # "none" /\ UNCHANGED page /\ Go("capture")
       \/ /\ verdict.collab = "none" /\ once.reload < 1
          /\ once' = [once EXCEPT !.reload = @ + 1]
          /\ at' = "capture" /\ UNCHANGED <<page, gate, handoff, verdict>>
       \/ verdict.collab = "none" /\ once.reload >= 1 /\ Captures /\ Return(FALSE)

-----------------------------------------------------------------------------
(* The judgement *)

\* What _is_results_ready has said is what the turn goes by.
Finds(ready) == verdict' = [verdict EXCEPT !.ready = ready]

\* A page that is closed under a demo ends it with the capture before.
Capture ==
    /\ at = "capture"
    /\ \/ /\ \E ready \in BOOLEAN :
                /\ CapturesJudged(ready) /\ Finds(ready)
                /\ at' = IF ~ready /\ html' = "shell" THEN "shell" ELSE "judged"
          /\ othersStay
       \/ Demo /\ UNCHANGED page /\ Return(FALSE)
    /\ UNCHANGED turnGoesOn

Rejudge ==
    /\ at = "rejudge"
    /\ \E ready \in BOOLEAN : vouched' = ready /\ Finds(ready)
    /\ at' = "judged" /\ othersStay
    /\ UNCHANGED <<turnGoesOn, html>>

GivesUp == verdict.suppressed /\ ~verdict.ready

\* After the shell: give up, search again in the next turn, or go on.
AfterJudgement ==
    /\ at = "judged"
    /\ UNCHANGED <<turnKeeps, page, seen>>
    /\ \/ /\ GivesUp /\ UNCHANGED <<plan, place>>
          /\ IF LastAttempt THEN Return(FALSE) ELSE at' = "handle" /\ Forget
       \/ /\ ~GivesUp /\ ~Demo /\ verdict.rebound
          /\ plan' = "local" /\ NextTurn /\ othersStay
       \/ ~GivesUp /\ Demo /\ Return(verdict.ready) /\ UNCHANGED <<plan, place>>
       \/ ~GivesUp /\ ~Demo /\ ~verdict.rebound /\ Go("evidence")
          /\ UNCHANGED <<plan, place>>

\* What the vision model reads of the form: the route, a doubt about it (which
\* does not count against the page), or nothing, which is held against the page
\* when the scenario is to fail closed.
VisionReads ==
    {[verdict EXCEPT !.bound = b] : b \in {"yes", "unknown", "unread", "doubted"}}
    \cup {[verdict EXCEPT !.ready = FALSE, !.bound = "unread"]}

\* What the form of the live page says, which may be the wrong route, and then the
\* vision model.
FormEvidence ==
    IF verdict.ready /\ ~recovery
    THEN {[verdict EXCEPT !.ready = FALSE, !.bound = "no"]} \cup VisionReads
    ELSE {verdict}

\* Where nothing was verified, the fills that succeeded in this turn may do.
Corroborated(v) ==
    {v} \cup (IF v.ready /\ v.bound \in {"unknown", "unread"}
             THEN {[v EXCEPT !.bound = "yes"]} ELSE {})

\* Is the route bound?  On Google's page a mismatch of the trace decides.
GoogleEvidence ==
    /\ at = "evidence" /\ Google
    /\ IF verdict.trace = "mismatch"
       THEN verdict' = [verdict EXCEPT !.ready = FALSE, !.bound = "no"]
       ELSE verdict' \in UNION {Corroborated(v) : v \in FormEvidence}
    /\ at' = "scope" /\ othersStay
    /\ UNCHANGED <<turnGoesOn, page>>

\* Skyscanner's route is read off the address of the results.
UrlBound ==
    {verdict} \cup (IF verdict.ready THEN {[verdict EXCEPT !.bound = "yes"]} ELSE {})

\* A page without a price is looked at again, and a page of hotels is left.
SkyscannerEvidence ==
    /\ at = "evidence" /\ Skyscanner
    /\ IF verdict.ready THEN Recaptures ELSE UNCHANGED page
    /\ \E v \in UrlBound : verdict' \in {v, [v EXCEPT !.ready = FALSE]}
    /\ at' = "scope" /\ othersStay
    /\ UNCHANGED turnGoesOn

\* Where nobody has said anything of the route, the capture itself is read.
Probed ==
    CASE Google /\ verdict.bound = "unknown" -> {"yes", "unknown", "no"}
      [] Google /\ verdict.bound = "unread" -> {"yes", "unread", "doubted"}
      [] OTHER -> {verdict.bound}

\* _google_reconcile_ready_route_bound_consistency: a page is not ready whose
\* route is read as another one and was never verified.
RouteConsistent(bound) == Google => bound # "no"

\* An unready page may be captured again for the scope guard, and stays unready.
ScopeUnready ==
    /\ at = "scope" /\ ~verdict.ready
    /\ IF Google THEN Recaptures ELSE UNCHANGED page
    /\ Go("limit")
    /\ UNCHANGED turnGoesOn

\* A ready one is turned down by the guard, by the vision or the language model, or
\* passes it: with no time left for the models, or with one that fails or does not
\* know, any page does.
ScopeReady ==
    /\ at = "scope" /\ verdict.ready
    /\ \E bound \in Probed :
          LET read == [verdict EXCEPT !.bound = bound]
          IN  \/ verdict' = [read EXCEPT !.ready = FALSE] /\ at' = "limit"
              \/ /\ RouteConsistent(bound)
                 /\ verdict' = read /\ at' = "settle"
    /\ othersStay
    /\ UNCHANGED <<turnGoesOn, page>>

\* Mutant: the settled page is captured and not judged again.
SettleUnjudged ==
    /\ at = "settle"
    /\ \/ Google /\ UNCHANGED <<page, verdict>>
       \/ Skyscanner /\ Recaptures /\ UNCHANGED verdict
    /\ at' = IF verdict'.ready THEN "accept" ELSE "limit"
    /\ othersStay
    /\ UNCHANGED turnGoesOn

\* Skyscanner's results get time to settle.  What is there then, or the capture
\* before where nothing is, is judged once more, and a shell does not pass.
Settles(ready) ==
    /\ html' \in {html} \cup (Shown \ {"none"})
    /\ vouched' = ready /\ Finds(ready)
    /\ html' = "shell" => ~ready

Settle ==
    /\ at = "settle"
    /\ \/ Google /\ UNCHANGED <<page, verdict>>
       \/ Skyscanner /\ \E ready \in BOOLEAN : Settles(ready)
    /\ at' = IF verdict'.ready THEN "accept" ELSE "limit"
    /\ othersStay
    /\ UNCHANGED turnGoesOn

\* save_plan, then record_success: a failure of either is a failure of the attempt.
Accept ==
    /\ at = "accept"
    /\ Go("credit")
    /\ UNCHANGED <<turnGoesOn, page>>

Credit ==
    /\ at = "credit"
    /\ Return(TRUE)
    /\ UNCHANGED <<turnGoesOn, page>>

-----------------------------------------------------------------------------
(* What comes next *)

\* results_not_ready_after_turn_limit
TurnLimit ==
    /\ at = "limit"
    /\ UNCHANGED <<turnGoesOn, page>>
    /\ IF ~LastTurn THEN Go("followup")
       ELSE IF ~LastAttempt THEN at' = "handle" /\ Forget ELSE Return(FALSE)

\* The rewind of a suspected mismatch and the forced binding, each once in an
\* attempt: counted when they are planned, even if another plan is taken.
PlannedRepairs ==
    IF Google
    THEN {[once EXCEPT !.rewind = r, !.force = f] :
             r \in {once.rewind, 1}, f \in {once.force, 1}}
    ELSE {once}

\* The ladder of follow-ups.
FollowUps ==
    IF verdict.collab # "none" THEN {verdict.collab}
    ELSE {"local"} \cup (IF conf.fast \/ Strict THEN {} ELSE {"model"})

\* Without a plan: the page as it is, or an exception.
FollowUp ==
    /\ at = "followup"
    /\ UNCHANGED <<turnKeeps, page, seen>>
    /\ \/ /\ plan' \in FollowUps /\ NextTurn
          /\ once' \in PlannedRepairs /\ UNCHANGED <<gate, handoff>>
       \/ /\ verdict.collab = "none"
          /\ UNCHANGED <<plan, place>>
          /\ Return(FALSE) \/ (at' = "handle" /\ Forget)

Turn ==
    \/ TurnGate \/ Handoff \/ Surface \/ ExecuteDemo \/ ExecutePlan \/ Trace \/ DateFailure
    \/ Capture \/ Rejudge \/ AfterJudgement \/ GoogleEvidence \/ SkyscannerEvidence
    \/ ScopeUnready \/ ScopeReady \/ Settle \/ Accept \/ Credit \/ TurnLimit \/ FollowUp
=============================================================================

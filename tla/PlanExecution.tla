---------------------------- MODULE PlanExecution ----------------------------
(***************************************************************************)
(* execute_plan of core/scenario_runner.py: the steps of an action plan are *)
(* carried out one after the other, each by the handler of its kind and of  *)
(* the site, with the recoveries of a fill that failed and the verdict on   *)
(* what failed for good: let pass, noted, or the end of the plan.           *)
(***************************************************************************)
EXTENDS SkyscannerForm

Entry(status, reason) ==
    [role |-> IF Now.act = "fill" THEN Role ELSE Now.act, status |-> status, reason |-> reason]

(* The step is over with these entries of the trace.                         *)
StepOver(entries) ==
    /\ trace' = trace \cup entries
    /\ step' = step + 1 /\ at' = "head" /\ call' = NoCall
    /\ UNCHANGED <<case, plan, raised, pressed>>

Noted(status) == StepOver({Entry(status, call.reason)})

-----------------------------------------------------------------------------
(* What the trace says of the dates.                                         *)

GoogleFailures ==
    {"soft_fail", "calendar_not_open", "month_nav_buttons_not_found", "date_picker_unverified",
     "month_nav_exhausted", "route_core_before_date_fill_unverified"}

DateFailedHard == \E e \in trace : e.role \in Dates /\ e.status \in GoogleFailures \ {"soft_fail"}

(* has_recent_google_date_failure_in_trace, or that of Skyscanner, where     *)
(* every failure is a soft one.                                              *)
DateFailed == \E e \in trace : e.role \in Dates /\ e.status \in GoogleFailures

(* should_skip_return_fill_after_depart_failure                              *)
SkipsReturn ==
    /\ Now.act = "fill" /\ Role = "return" /\ Now.opt
    /\ \E e \in trace : e.role = "depart" /\ e.status \notin {"ok", "url_date_bound", "soft_skip"}

-----------------------------------------------------------------------------
(* The head of the loop.                                                     *)

(* The plan is bound to the trip; one that cannot be carried out is turned   *)
(* down.                                                                     *)
PlanStarts ==
    /\ at = "start"
    /\ plan' = Rebind(case.raw, case.back)
    /\ IF Carriable(plan') THEN at' = "head" /\ UNCHANGED raised ELSE Raises("rejected")
    /\ UNCHANGED <<case, form, focus, step, call, trace, pressed>>

PlanOver ==
    /\ at = "head" /\ step > Len(plan)
    /\ at' = "ended"
    /\ UNCHANGED <<case, plan, form, focus, step, call, trace, raised, pressed>>

(* A click that may be left out, on nothing that can be seen.                *)
ClickUnseen ==
    /\ at = "head" /\ step <= Len(plan)
    /\ Now.act \in {"click", "search"} /\ Now.opt
    /\ Noted("soft_fail") /\ KeepsPage

(* After a date failed nothing is searched and no results are awaited.       *)
SkipsStep == DateFailed /\ Now.act \in {"search", "wait"}

SkipAfterDate ==
    /\ at = "head" /\ step <= Len(plan)
    /\ SkipsStep
    /\ Noted("soft_skip") /\ KeepsPage

(* _raise_if_step_timed_out, before the action.                              *)
TimeIsUp == Raises("step_time") /\ UNCHANGED <<case, plan, form, focus, step, call, trace, pressed>>

Acting == at = "head" /\ step <= Len(plan) /\ ~SkipsStep
LateBefore == Acting /\ TimeIsUp

(* Skyscanner looks where the page is first: hotels that cannot be left, a   *)
(* captcha, or the results, where there is nothing left to search.           *)
SkyElsewhere ==
    /\ Acting /\ ~Google
    /\ \/ Noted("soft_fail")
       \/ Noted("soft_skip")
       \/ Now.act = "search" /\ Noted("soft_skip")
    /\ KeepsPage

(* A value that the URL already carries needs no handler.                    *)
SkyBound ==
    /\ Acting /\ ~Google /\ Now.act = "fill"
    /\ Role \in Fields
    /\ IF Role \in Dates THEN Noted("url_date_bound")
       ELSE Done("url_route_bind") /\ Keeps
    /\ KeepsPage

FillRoute ==
    /\ Acting /\ Now.act = "fill" /\ Role \in Route
    /\ IF Google THEN RouteStarts ELSE SkyRouteStarts
    /\ KeepsPage /\ Keeps

(* _google_route_core_before_date_gate: the two airports are on the form, or *)
(* the text of the page is taken for them.                                   *)
RouteUnseen ==
    Route \subseteq Asked /\ \E read \in FormReadings : \E f \in Route : ~Passes(read[f], f)

(* The return is not tried without the departure; a recovery does not try a  *)
(* date before the route is there.                                           *)
SkipReturn == Acting /\ SkipsReturn /\ Noted("soft_skip") /\ KeepsPage

RouteCoreGate ==
    /\ Acting /\ Google /\ case.gate /\ Now.act = "fill" /\ Role \in Dates /\ ~SkipsReturn
    /\ RouteUnseen
    /\ Noted("route_core_before_date_fill_unverified") /\ KeepsPage

FillDate ==
    /\ Acting /\ Now.act = "fill" /\ Role \in Dates /\ ~SkipsReturn
    /\ IF Google THEN DateStarts ELSE SkyDateStarts
    /\ KeepsPage /\ Keeps

(* A fill of an unknown field: its selectors are tried in turn, and what they *)
(* lead to is the page's affair.  Nothing looks at what got where.           *)
Scatters ==
    \/ KeepsPage
    \/ \E f \in Fields, value \in Trip :
          form' \in {[form EXCEPT ![f] = shown] : shown \in {Lands(f, value), "none"}} /\ focus' = f

FillLoose ==
    /\ Acting /\ Now.act = "fill" /\ Role = "loose"
    /\ Scatters
    /\ \/ (Done("generic") \/ Fails("step_error")) /\ Keeps
       \/ Raises("timeout") /\ UNCHANGED <<case, plan, step, call, trace, pressed>>

(* The form is looked at before the search, once a date was tried.           *)
Checks ==
    /\ Google /\ case.check
    /\ {"origin", "dest", "depart"} \subseteq Asked
    /\ \E e \in trace : e.role \in Dates

SearchChecked ==
    /\ Acting /\ Now.act = "search" /\ Checks
    /\ \E read \in FormReadings, onPage \in BOOLEAN :
          LET confidence == CHOOSE c \in Confidences(read) : TRUE
          IN  IF Blocks(read, confidence, onPage, case.closed)
              THEN Noted("route_fill_mismatch")
              ELSE Goto("search_look") /\ UNCHANGED call /\ Keeps
    /\ KeepsPage

(* Without the check the button is pressed like any other, and nothing looks *)
(* whether a search began.                                                   *)
SearchUnchecked ==
    /\ Acting /\ Now.act = "search" /\ ~Checks
    /\ \/ Presses /\ Done("click") /\ UNCHANGED raised
       \/ (Presses \/ UNCHANGED pressed) /\ Fails("not_clicked") /\ UNCHANGED raised
       \/ (Presses \/ UNCHANGED pressed) /\ Raises("timeout") /\ UNCHANGED call
    /\ KeepsPage /\ UNCHANGED <<case, plan, step, trace>>

(* A click or a wait; a time-out of the browser leaves the plan.             *)
ClickOrWait ==
    /\ Acting /\ Now.act \in {"click", "wait"}
    /\ \/ (Done("generic") \/ Fails("step_error")) /\ Keeps
       \/ Raises("timeout") /\ UNCHANGED <<case, plan, step, call, trace, pressed>>
    /\ KeepsPage

-----------------------------------------------------------------------------
(* What a handler came to.  The date of a handler that failed is in the      *)
(* trace with its reason before it is judged.                                *)

LateAfter == at = "judge" /\ TimeIsUp

Succeeded ==
    /\ at = "judge" /\ call.ok
    /\ StepOver({Entry("ok", "")}) /\ KeepsPage

(* The recoveries of a required fill are for the airports of Google Flights  *)
(* that are not forced: every other fill has its own.                        *)
Recovers == Now.act = "fill" /\ ~Now.opt /\ Google /\ Role \in Route /\ ~Now.force

Failed ==
    /\ at = "judge" /\ ~call.ok
    /\ trace' = IF Google /\ Now.act = "fill" /\ Role \in Dates
                THEN trace \cup {Entry(call.reason, call.reason)} ELSE trace
    /\ Goto(IF Recovers THEN "recover" ELSE "failure")
    /\ KeepsPage /\ UNCHANGED <<case, plan, step, call, raised, pressed>>

(* The field is activated by a selector or by its keywords, which may run    *)
(* out of time, and filled once more.  What got there is not looked at.      *)
Refill ==
    /\ at = "recover"
    /\ \/ \E shows \in {Role} \cup Settled :
             form' = [form EXCEPT ![Role] = shows] /\ focus' = Role
          /\ Done("refill") /\ Keeps
       \/ Goto("keywords") /\ UNCHANGED call /\ KeepsPage /\ Keeps
       \/ (Raises("step_time") \/ Raises("timeout"))
          /\ KeepsPage /\ UNCHANGED <<case, plan, step, call, trace, pressed>>

(* A fill by the keywords of the field is never verified here: the reading   *)
(* is asked for a field it does not have.                                    *)
KeywordFill ==
    /\ at = "keywords"
    /\ \E f \in Route : Put(f, Role) \/ UNCHANGED form
    /\ Goto("failure") /\ UNCHANGED <<call, focus>> /\ Keeps

(* The verdict on a step that failed for good.                               *)
Failing == at = "failure"

DateLetPass ==
    /\ Now.act = "fill"
    /\ Role = "depart" \/ (~Google /\ Role = "return")

(* A required value that is found on the page counts as bound, but for an    *)
(* airport of Google Flights.                                                *)
MayBeBound == Now.act = "fill" /\ Role \in Fields /\ ~Now.opt /\ ~DateLetPass /\ ~(Google /\ Role \in Route)

Optional ==
    \/ Now.act \in {"wait", "search"}
    \/ Now.opt /\ ~(Now.act = "fill" /\ Now.need)

LetPass ==
    /\ Failing /\ (DateLetPass \/ Optional)
    /\ Noted("soft_fail") /\ KeepsPage

AlreadyBound ==
    /\ Failing /\ MayBeBound
    /\ Noted("already_bound_soft_pass") /\ KeepsPage

HardFail ==
    /\ Failing /\ ~DateLetPass /\ ~Optional
    /\ trace' = trace \cup {Entry("hard_fail", call.reason)}
    /\ Raises("step_failed")
    /\ KeepsPage /\ UNCHANGED <<case, plan, step, call, pressed>>

-----------------------------------------------------------------------------
Ended == at = "ended" /\ UNCHANGED formVars

LoopStep ==
    \/ PlanStarts \/ PlanOver \/ ClickUnseen \/ SkipAfterDate \/ LateBefore \/ SkyElsewhere \/ SkyBound
    \/ FillRoute \/ SkipReturn \/ RouteCoreGate \/ FillDate \/ FillLoose \/ SearchChecked
    \/ SearchUnchecked \/ ClickOrWait
    \/ LateAfter \/ Succeeded \/ Failed \/ Refill \/ KeywordFill
    \/ LetPass \/ AlreadyBound \/ HardFail

PlanStep == LoopStep \/ DateStep \/ RouteStep \/ SearchStep \/ SkyStep
Next == PlanStep \/ Ended
Spec == InitForm /\ [][Next]_formVars /\ WF_formVars(PlanStep)

-----------------------------------------------------------------------------
(* What the plan may be relied on for.                                       *)

Searched == pressed # NotPressed

(* A plan that sets the departure before it searches: the form is checked     *)
(* only once a date was tried, and an earlier search is let through.          *)
Departs(s) == s.act = "fill" /\ s.role = "depart"
DepartFirst ==
    \A k \in DOMAIN plan : plan[k].act = "search" => \E j \in 1 .. k - 1 : Departs(plan[j])

(* On a page that can be read, with the check of the form on, a search of    *)
(* Google Flights is started for dates that pass for those of the trip, and  *)
(* for airports that do or for no destination at all: whatever a fill did to *)
(* another field on its way is found out before the search, as far as the    *)
(* match can tell one value from another.                                    *)
Readable == Google /\ case.check /\ Fields \subseteq case.legible
AsAsked(shown) ==
    /\ \A f \in Trip \cap Dates : Passes(shown[f], f)
    /\ shown["dest"] = "none" \/ \A f \in Route : Passes(shown[f], f)

SearchedAsAsked ==
    Searched /\ Readable /\ HasRequiredRoles(case.raw, Google) /\ DepartFirst => AsAsked(pressed)

(* No search is started after a departure that could not be set, on either   *)
(* site: of the departure that comes first the trace then says that it was   *)
(* set, carried by the URL, or never tried behind a captcha.                 *)
DepartBeforeSearch ==
    Searched /\ DepartFirst
    => \E e \in trace : e.role = "depart" /\ e.status \in {"ok", "url_date_bound", "soft_skip"}

(* A return date that the calendar is said to have set did not go to the     *)
(* departure, as long as that can be read, whatever the page says of the     *)
(* return.                                                                   *)
ReturnSparesDepart ==
    (at = "judge" /\ Google /\ Now.act = "fill" /\ Role = "return" /\ call.ok /\ call.via = "calendar"
      /\ "depart" \in Asked \cap case.legible)
    => form["depart"] # "return"

(* Every plan comes to its end, whatever the page answers.                   *)
PlanEnds == <>(at = "ended")
=============================================================================

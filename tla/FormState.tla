------------------------------ MODULE FormState ------------------------------
(***************************************************************************)
(* What the handlers of an action plan share (core/scenario_runner.py): the *)
(* search form of the page, the plan and the step in hand, the locals of    *)
(* the handler that works on it and the trace of the steps so far.  A field *)
(* holds nothing, the value that was asked for it (its own name), the value *)
(* that was asked for another field, something else that passes for what    *)
(* was asked ("alike": an airport of the same city, 'Mar 10' for 'Mar 1'),  *)
(* or anything else.                                                        *)
(***************************************************************************)
EXTENDS PlanHygiene

CONSTANT Cases    \* [site, raw, back, legible, alike, check, closed, gate]: plans, trips, pages

ASSUME CasesAssumption ==
    \A c \in Cases :
        /\ c.raw \in Seq([act : Acts \cup {"unknown"}, role : Fields \cup {"none", "loose", "unknown", "contact"},
                         opt : BOOLEAN, need : BOOLEAN, force : BOOLEAN])
        /\ c.alike \subseteq Fields \X Fields
        /\ c.back \in BOOLEAN /\ c.check \in BOOLEAN

Values == Fields \cup {"none", "alike", "other"}

VARIABLES
    case,      \* the site, the stored plan and the trip, what can be read, the settings
    plan,      \* the plan that is carried out
    form,      \* what the fields of the page hold
    focus,     \* the field with the cursor, or "none"
    at,        \* where the execution is
    step,      \* the index of the step in hand
    call,      \* the locals of its handler
    trace,     \* the entries of the steps so far: [role, status, reason]
    raised,    \* what execute_plan left with, "" as long as it did not
    pressed    \* history: the form as it was when the search was started

formVars == <<case, plan, form, focus, at, step, call, trace, raised, pressed>>

NoCall == [left |-> 0, tries |-> 0, off |-> 0, seen |-> 0, aim |-> "none",
           tools |-> {}, ok |-> FALSE, reason |-> "", via |-> ""]
NotPressed == [f \in Fields |-> "none"]

Now == plan[step]
Role == Now.role

(* _expected_route_values_from_plan, and what the trip is made of.           *)
Asked == FillRoles(plan) \cap Fields
Trip == {"origin", "dest", "depart"} \cup (IF case.back THEN {"return"} ELSE {})
Google == case.site = "google_flights"

(* What a reading of a field may give.                                       *)
Reading(f) == IF f \in case.legible THEN {form[f]} ELSE Values

(* The fields that the selectors of a role may lead to: on labels that cannot *)
(* be read, the other field of the kind as well.                             *)
Reaches(role) ==
    IF role \in case.legible THEN {role} ELSE IF role \in Route THEN Route ELSE Dates

(* The value that reaches a field when the one for a role is put there: an   *)
(* airport field has no use for a date, nor a date field for an airport.     *)
Lands(f, role) ==
    IF f = role \/ {f, role} \subseteq Dates THEN role ELSE "other"

(* _google_form_value_matches_airport, _google_form_value_matches_date and    *)
(* _gf_field_value_matches_date: a text matches that has a token of what was *)
(* asked for somewhere in it.  So what was asked for another field may pass  *)
(* for it as well: a return on 'Mar 10' for a departure on 'Mar 1'.          *)
Passes(value, role) == value \in {role, "alike"} \/ <<value, role>> \in case.alike

Put(f, role) == form' = [form EXCEPT ![f] = Lands(f, role)]

(* The handler goes on, is done, or fails with a reason.                     *)
Goto(place) == at' = place
Done(via) == at' = "judge" /\ call' = [call EXCEPT !.ok = TRUE, !.via = via]
Fails(reason) == at' = "judge" /\ call' = [call EXCEPT !.ok = FALSE, !.reason = reason]

Keeps == UNCHANGED <<case, plan, step, trace, raised, pressed>>
KeepsPage == UNCHANGED <<form, focus>>

(* execute_plan is left with an exception: the trace goes with it.           *)
Raises(what) == at' = "ended" /\ raised' = what

InitForm ==
    /\ case \in Cases
    /\ \E home \in {"none", "alike", "other"} : form = [NotPressed EXCEPT !["origin"] = home]
    /\ plan = <<>> /\ focus = "none" /\ at = "start" /\ step = 1 /\ call = NoCall
    /\ trace = {} /\ raised = "" /\ pressed = NotPressed

-----------------------------------------------------------------------------
(* Whether the form of Google Flights shows what the plan asked for, looked  *)
(* at before the search is started: the state of the form that is read off   *)
(* the page and its confidence, and _assess_google_flights_fill_mismatch     *)
(* (core/scenario_runner/google_flights/core_functions.py).                  *)

(* _extract_google_flights_form_state: one value per field, the best of the  *)
(* candidates that carry a label of the field.                               *)
FormReadings == {r \in [Fields -> Values] : \A f \in Fields : r[f] \in Reading(f)}

(* The confidence in a reading.  Three fields can still be a partial one: an *)
(* origin that names a region and no airport counts for little.              *)
Confidences(read) ==
    LET filled == {f \in {"origin", "dest", "depart"} : read[f] # "none"}
    IN  IF read["dest"] = "none" \/ Cardinality(filled) < 2 THEN {"low"}
        ELSE IF Cardinality(filled) = 2 THEN {"medium"}
        ELSE {"medium", "high"}

(* An empty field contradicts nothing.                                       *)
Contradicts(read, f) == read[f] # "none" /\ ~Passes(read[f], f)

BlocksOnDifferences(read, confidence, onPage, closed) ==
    IF confidence = "low" THEN closed ELSE \E f \in Asked : Contradicts(read, f)

(* Whether the search is held back.  A missing field holds it back, but for  *)
(* a destination alone on a page that has one of the airports somewhere in   *)
(* its text; there, as long as the confidence is low, only the dates count.  *)
Blocks(read, confidence, onPage, closed) ==
    LET missing == {f \in Asked : read[f] = "none"}
        excused == onPage /\ confidence = "low"
    IN  \/ missing # {} /\ ~(excused /\ missing = {"dest"})
        \/ IF excused THEN \E f \in Asked \cap Dates : Contradicts(read, f)
           ELSE IF confidence = "low" THEN closed
           ELSE \E f \in Asked : Contradicts(read, f)
=============================================================================

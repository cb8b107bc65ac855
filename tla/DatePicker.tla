----------------------------- MODULE DatePicker -----------------------------
(***************************************************************************)
(* gf_set_date_impl: a date of the Google Flights form is set through the   *)
(* calendar.  It is opened, on the return date its chip is pressed, the     *)
(* month shown is read, the buttons lead to the month asked for, the day is *)
(* pressed, the calendar closed and the field read back.  Every step costs  *)
(* one action of a budget, and most failures fall back on typing.           *)
(***************************************************************************)
EXTENDS FormState

CONSTANTS
    Budget,     \* actions of one call, 20 in the code
    Openers,    \* openers that are tried, 8 in the code
    Turns,      \* months that are turned, 8 in the code
    Ahead       \* how far from the month asked for a calendar may open

ASSUME PickerAssumption ==
    /\ Budget \in Nat /\ Openers \in Nat \ {0} /\ Turns \in Nat /\ Ahead \in Nat

Months == -Ahead .. Ahead

(* check_and_consume_budget(1), and what a spent budget gives.               *)
Spends(more) == call.left > 0 /\ call' = [more EXCEPT !.left = call.left - 1]
Broke(reason) == call.left = 0 /\ Fails(reason) /\ KeepsPage

DateStarts ==
    /\ Goto("date_open")
    /\ call' = [NoCall EXCEPT !.left = Budget]

(* The fallback of a stage that fails for a reason.                          *)
TypeInstead(reason) == Goto("date_type") /\ call' = [call EXCEPT !.reason = reason]

(* select_and_click_opener: the next opener; one that is not interactive or  *)
(* that an overlay covers makes way for the next.                            *)
NextOpener == call.tries < Openers /\ Spends([call EXCEPT !.tries = @ + 1])

DateOpen ==
    /\ at = "date_open"
    /\ \/ /\ call.left = 0 \/ call.tries = Openers
          /\ TypeInstead("calendar_not_open") /\ UNCHANGED focus
       \/ NextOpener /\ Goto("date_open") /\ UNCHANGED focus
       \/ NextOpener /\ Goto("date_root") /\ focus' \in Reaches(Role) \cup {focus}
    /\ UNCHANGED form /\ Keeps

(* resolve_calendar_root_opener_impl: a dialog with a grid is the calendar;  *)
(* it may stand at any month and at either date.                             *)
DateRoot ==
    /\ at = "date_root"
    /\ \/ Goto("date_open") /\ UNCHANGED call
       \/ \E off \in Months, aim \in Dates :
             /\ call' = [call EXCEPT !.tries = 0, !.off = off, !.aim = aim]
             /\ Goto(IF Role = "return" THEN "date_chip" ELSE "date_month")
    /\ KeepsPage /\ Keeps

(* _gf_try_activate_date_chip: the calendar is at the return date then, or   *)
(* stays where it was.                                                       *)
ChipPressed == \E aim \in {call.aim, "return"} : Spends([call EXCEPT !.aim = aim])

(* activate_return_chip_impl: a chip that does not answer is let pass, but a *)
(* call that is out of time here leaves the plan.                            *)
DateChip ==
    /\ at = "date_chip"
    /\ \/ Broke("budget_hit") /\ UNCHANGED raised
       \/ /\ ChipPressed
          /\ Goto("date_month") /\ KeepsPage /\ UNCHANGED raised
       \/ /\ call.left > 0
          /\ Raises("timeout") /\ UNCHANGED call /\ KeepsPage
    /\ UNCHANGED <<case, plan, step, trace, pressed>>

(* extract_calendar_month_header_impl: a month that is read without its year *)
(* may be taken for another one.                                             *)
MonthsRead == IF Role \in case.legible THEN {call.off} ELSE Months

(* A calendar whose month cannot be read is no calendar, or not one to turn. *)
DateMonth ==
    /\ at = "date_month"
    /\ \/ Broke("budget_hit")
       \/ /\ call.left > 0
          /\ \E reason \in {"calendar_not_open", "month_nav_exhausted"} : Fails(reason)
          /\ KeepsPage
       \/ \E seen \in MonthsRead :
             /\ Spends([call EXCEPT !.seen = seen])
             /\ Goto("date_buttons") /\ KeepsPage
    /\ Keeps

DateButtons ==
    /\ at = "date_buttons"
    /\ \/ Broke("budget_hit")
       \/ \E tools \in SUBSET {"next", "previous"} :
             /\ call.left > 0
             /\ IF tools = {} THEN TypeInstead("month_nav_buttons_not_found")
                ELSE Spends([call EXCEPT !.tools = tools]) /\ Goto("date_turn")
          /\ KeepsPage
    /\ Keeps

(* navigate_to_target_month_impl: look for the day, else turn one month; no  *)
(* look follows the last turn.                                               *)
Turn(forward) ==
    /\ (IF forward THEN "next" ELSE "previous") \in call.tools
    /\ LET one == IF forward THEN -1 ELSE 1
       IN  Spends([call EXCEPT !.tries = @ + 1, !.off = @ + one, !.seen = @ + one])
    /\ Goto("date_turn")

DateTurn ==
    /\ at = "date_turn"
    /\ IF call.tries = Turns THEN TypeInstead("month_nav_exhausted")
       ELSE \/ call.left = 0 /\ Fails("budget_hit")
            \/ call.off = 0 /\ Spends(call) /\ Goto("date_day")
            \/ Turn(call.seen > 0)
            \/ call.left > 0 /\ TypeInstead("month_nav_exhausted")
    /\ KeepsPage /\ Keeps

(* select_calendar_day_impl: the day goes to the date the calendar is at; a  *)
(* press that ran out of time may have reached it.                           *)
DateDay ==
    /\ at = "date_day"
    /\ \/ Broke("budget_hit")
       \/ /\ Spends(call) /\ Put(call.aim, Role)
          /\ Goto("date_close") /\ UNCHANGED focus
       \/ /\ call.left > 0
          /\ UNCHANGED form \/ Put(call.aim, Role)
          /\ TypeInstead("calendar_day_not_found") /\ UNCHANGED focus
    /\ Keeps

(* close_calendar_dialog_impl: Done, or Escape, on which the page may drop   *)
(* the day again.                                                            *)
DateClose ==
    /\ at = "date_close"
    /\ \/ Broke("budget_hit")
       \/ /\ Spends(call) /\ Goto("date_verify")
          /\ UNCHANGED form \/ form' = [form EXCEPT ![call.aim] = "none"]
          /\ UNCHANGED focus
    /\ Keeps

(* _gf_read_date_field_value *)
DateShown(f) == Reading(f)

(* The field is read back, and on the return date the other one as well: a   *)
(* return date that shows up as the departure went to the wrong field.       *)
WentToDepart(depart) == Role = "return" /\ "depart" \in Asked /\ Passes(depart, "return")

DateVerifyOneField ==
    /\ at = "date_verify"
    /\ \/ Broke("budget_hit")
       \/ \E own \in DateShown(Role) :
             /\ call.left > 0 /\ KeepsPage
             /\ IF Passes(own, Role) THEN Done("calendar") ELSE Fails("date_picker_unverified")
    /\ Keeps

DateVerify ==
    /\ at = "date_verify"
    /\ \/ Broke("budget_hit")
       \/ \E own \in DateShown(Role), depart \in DateShown("depart") :
             /\ call.left > 0 /\ KeepsPage
             /\ IF Passes(own, Role) /\ ~WentToDepart(depart)
                THEN Done("calendar")
                ELSE Fails("date_picker_unverified")
    /\ Keeps

(* _google_date_typing_fallback: the date goes to the field with the cursor, *)
(* whichever that is, else to the one the selectors find, and counts when    *)
(* the selectors of the role read it back, in full.  A field is emptied      *)
(* before the date is typed, and may be left so.                             *)
Typable == IF focus # "none" THEN {focus, Role} ELSE {Role}

Emptied == {form} \cup {[form EXCEPT ![f] = "none"] : f \in Typable}

DateType ==
    /\ at = "date_type"
    /\ \E left \in Emptied :
       \/ Fails(call.reason) /\ form' = left
       \/ \E target \in Typable :
             /\ form' = [left EXCEPT ![target] = Lands(target, Role)]
             /\ \E own \in (IF Role \in case.legible THEN {form'[Role]} ELSE Values) :
                    IF own = Role THEN Done("typed") ELSE Fails(call.reason)
    /\ UNCHANGED focus /\ Keeps

DateStep ==
    \/ DateOpen \/ DateRoot \/ DateChip \/ DateMonth \/ DateButtons \/ DateTurn
    \/ DateDay \/ DateClose \/ DateVerify \/ DateType
=============================================================================

---------------------------- MODULE SkyscannerForm ----------------------------
(***************************************************************************)
(* The search form of Skyscanner (scenario_runner/skyscanner/ui_actions.py): *)
(* an airport is chosen from the suggestions, a date from a calendar that is *)
(* only ever turned forward.  Neither is read back afterwards.              *)
(***************************************************************************)
EXTENDS RouteFill

CONSTANTS
    Attempts,   \* goes at an airport, 2 in the code
    Hops        \* months that are turned, 15 in the code

ASSUME SkyAssumption == Attempts \in Nat \ {0} /\ Hops \in Nat

SkyRouteStarts == Goto("sky_route") /\ call' = [NoCall EXCEPT !.reason = "input_fill_failed"]

(* A failed go is followed by the next, and the last reason stands.          *)
NextGo(reason) == call' = [call EXCEPT !.tries = @ + 1, !.reason = reason] /\ Goto("sky_route")

(* _skyscanner_fill_and_commit_location: the input cannot be filled; the     *)
(* text does not stay, or no suggestions come; none can be pressed; the one  *)
(* pressed is of another airport; or it is the one.                          *)
SkyRoute ==
    /\ at = "sky_route"
    /\ IF call.tries = Attempts
       THEN Fails(call.reason) /\ KeepsPage
       ELSE \/ NextGo("input_fill_failed") /\ KeepsPage
            \/ /\ Put(Role, Role) /\ focus' = Role
               /\ NextGo("suggestion_not_found")
            \/ /\ form' = [form EXCEPT ![Role] = "other"] /\ focus' = "none"
               /\ NextGo("suggestion_mismatch_expected_iata")
            \/ Put(Role, Role) /\ focus' = "none" /\ Done("combobox")
    /\ Keeps

SkyDateStarts == Goto("sky_open") /\ call' = NoCall

(* An opener is pressed, once more when no calendar shows.  It is the page   *)
(* that knows which of the two dates a day is going to be.                   *)
SkyOpen ==
    /\ at = "sky_open"
    /\ \/ Fails("calendar_not_open") /\ KeepsPage
       \/ \E off \in Months, aim \in Dates :
             /\ call' = [call EXCEPT !.off = off, !.aim = aim]
             /\ focus' = "none" /\ UNCHANGED form
             /\ Goto("sky_month")
    /\ Keeps

SkyNextMonth ==
    \/ Fails("month_nav_exhausted")
    \/ call' = [call EXCEPT !.tries = @ + 1, !.off = @ - 1] /\ Goto("sky_month")

(* The month is looked for, then the day in it; what is missing is looked    *)
(* for a month further on.                                                   *)
SkyMonth ==
    /\ at = "sky_month"
    /\ \/ call.tries > Hops /\ Fails("month_nav_exhausted") /\ UNCHANGED form
       \/ call.tries <= Hops /\ SkyNextMonth /\ UNCHANGED form
       \/ /\ call.tries <= Hops /\ call.off = 0
          /\ Put(call.aim, Role) /\ Done("calendar")
    /\ UNCHANGED focus /\ Keeps

SkyStep == SkyRoute \/ SkyOpen \/ SkyMonth
=============================================================================

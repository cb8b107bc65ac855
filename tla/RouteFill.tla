------------------------------ MODULE RouteFill ------------------------------
(***************************************************************************)
(* An airport of the Google Flights form: the combobox is opened, typed     *)
(* into and committed (core/browser/combobox.py), and the form is read back *)
(* to see whether the airport got there (_google_fill_and_commit_location   *)
(* of google_flights/ui_actions.py).  Then the start of the search.         *)
(*                                                                          *)
(* call.aim is the field that is typed into, call.tools how the commit was  *)
(* made, call.seen the turn of the alias query, call.via the value of the   *)
(* active editor as the combobox saw it.                                    *)
(***************************************************************************)
EXTENDS DatePicker

Settled == {"none", "alike", "other"}

RouteStarts == Goto("box_look") /\ call' = NoCall
RouteFails(reason) == Fails(reason)

(* A box that fails ends the fill, but for the query with an alias, which    *)
(* leaves a destination that was never committed.                            *)
BoxFails ==
    IF call.tries = 0 THEN Fails("combobox_fill_failed")
    ELSE Goto("route_itinerary") /\ UNCHANGED call

(* An input of the box has the airport already; the input with the cursor is *)
(* the one of the box, as its label says.                                    *)
Prefilled(shown) == shown \in Reading(Role) /\ Passes(shown, Role)
ActiveEditor == focus \in Reaches(Role)

(* A box that already shows the airport is left alone; one that is open is   *)
(* not opened again.                                                         *)
BoxLook ==
    /\ at = "box_look"
    /\ \/ \E shown \in Values :
             /\ Prefilled(shown)
             /\ Goto("route_check")
             /\ call' = [call EXCEPT !.tools = {"prefilled"}, !.ok = TRUE, !.via = shown]
       \/ ActiveEditor /\ Goto("box_input") /\ UNCHANGED call
       \/ Goto("box_press") /\ UNCHANGED call
    /\ KeepsPage /\ Keeps

(* The selectors of the box are pressed in turn, those that can be seen      *)
(* first; the cursor goes along or stays.                                    *)
BoxPress ==
    /\ at = "box_press"
    /\ \/ BoxFails /\ UNCHANGED focus
       \/ /\ focus' \in Reaches(Role) \cup {focus}
          /\ Goto("box_opened") /\ UNCHANGED call
    /\ UNCHANGED form /\ Keeps

(* A press counts when the box or the input with the cursor shows a list, or *)
(* when the page does not answer; else the next selector is pressed, until   *)
(* they or the time are used up.  What the next one does is what the last    *)
(* one did.                                                                  *)
BoxOpened ==
    /\ at = "box_opened"
    /\ BoxFails \/ (Goto("box_input") /\ UNCHANGED call)
    /\ KeepsPage /\ Keeps

(* The input of the opened box: whichever has the cursor, one in its         *)
(* container, or one of the candidates, the plainest of which any box has.   *)
BoxInput ==
    /\ at = "box_input"
    /\ \/ BoxFails /\ UNCHANGED focus
       \/ \E f \in Reaches(Role) \cup ({focus} \ {"none"}) :
             /\ focus' = f /\ call' = [call EXCEPT !.aim = f]
             /\ Goto("box_commit")
    /\ UNCHANGED form /\ Keeps

(* The text replaces what the box held, and a suggestion is chosen: by the   *)
(* keyboard when time is short or no option could be pressed.                *)
BoxCommit ==
    /\ at = "box_commit"
    /\ \/ BoxFails /\ (UNCHANGED form \/ form' = [form EXCEPT ![call.aim] = "none"])
       \/ \E how \in {{"option"}, {"keys"}, {}}, shows \in {Role} \cup Settled :
             /\ form' = [form EXCEPT ![call.aim] =
                             IF shows \in Settled THEN shows ELSE Lands(call.aim, Role)]
             /\ call' = [call EXCEPT !.tools = how]
             /\ Goto("box_verify")
    /\ UNCHANGED focus /\ Keeps

(* The signals of a commit that the page may give with an editor: a list     *)
(* that is closed, or an editor that shows something else than was typed,    *)
(* which is a strong one when there is no placeholder around it.             *)
CommitSignals(shown) ==
    {s \in [told : BOOLEAN, strong : BOOLEAN] :
        /\ shown # Role => s.told
        /\ s.strong => shown # Role}

(* What the active editor shows is looked at, unless the time is up or the   *)
(* page does not answer.  Without an option a signal of the commit is needed *)
(* too, and a strong one outweighs the editor.                               *)
BoxVerify ==
    /\ at = "box_verify"
    /\ \E shown \in Reading(call.aim), looked \in BOOLEAN :
       \E signal \in CommitSignals(shown) :
          LET fits == ~looked \/ Passes(shown, Role)
              option == "option" \in call.tools
          IN  IF (fits /\ (option \/ signal.told)) \/ (~option /\ signal.strong)
              THEN /\ Goto("route_check")
                   /\ call' = [call EXCEPT !.ok = TRUE,
                                           !.via = IF option THEN "" ELSE shown]
              ELSE BoxFails
    /\ KeepsPage /\ Keeps

-----------------------------------------------------------------------------
(* The form is read back.  As long as fewer than two fields are filled the   *)
(* reading is of low confidence, and a wrong airport goes unnoticed here.    *)

Unsure(read) == Confidences(read) = {"low"}
ReadsUnsure == IF Fields \subseteq case.legible THEN {Unsure(form)} ELSE BOOLEAN

(* An airport that is not the one asked for is let pass when the editor      *)
(* showed the same, or when it is a text of another field or of the page and *)
(* the editor showed the airport asked for.                                  *)
Excused(own) ==
    call.ok /\ (call.via = own \/ (own \in Dates \cup {"other"} /\ Passes(call.via, Role)))

Mismatch(own, unsure) == own # "none" /\ ~Passes(own, Role) /\ ~unsure

RouteCheck ==
    /\ at = "route_check"
    /\ \E own \in Reading(Role), unsure \in ReadsUnsure :
          IF call.tries > 0
          THEN IF own # "none" /\ ~Mismatch(own, unsure) THEN Done("alias")
               ELSE Goto("route_itinerary") /\ UNCHANGED call
          ELSE IF Role = "dest" /\ own = "none"
               THEN Goto("route_settle") /\ UNCHANGED call
          ELSE IF Mismatch(own, unsure) /\ ~Excused(own)
               THEN RouteFails("combobox_fill_unverified")
          ELSE Done("combobox")
    /\ KeepsPage /\ Keeps

(* A destination that still shows its placeholder: the page is given a       *)
(* moment, and then any text will do.                                        *)
RouteSettle ==
    /\ at = "route_settle"
    /\ \E shows \in {form["dest"]} \cup Values :
          /\ shows \in {form["dest"], Role, "alike", "other"}
          /\ form' = [form EXCEPT !["dest"] = shows]
          /\ \E own \in (IF Role \in case.legible THEN {shows} ELSE Values) :
                IF own # "none" THEN Done("settled")
                ELSE Goto("route_finalize") /\ UNCHANGED call
    /\ UNCHANGED focus /\ Keeps

(* _finalize_dest_editor_commit_once: the Tab key takes over what the editor *)
(* shows, when it was the keyboard that committed.                           *)
RouteFinalize ==
    /\ at = "route_finalize"
    /\ \/ /\ "keys" \in call.tools /\ call.ok /\ call.via \notin {"", "none"}
          /\ form' = [form EXCEPT !["dest"] = call.via]
          /\ \E unsure \in ReadsUnsure :
                /\ ~Mismatch(call.via, unsure)
                /\ Done("tab")
       \/ Goto("route_alias") /\ UNCHANGED <<call, form>>
    /\ UNCHANGED focus /\ Keeps

RouteAliasAgain ==
    /\ at = "route_alias"
    /\ \/ Goto("box_look") /\ call' = NoCall
       \/ Goto("route_itinerary") /\ UNCHANGED call
    /\ KeepsPage /\ Keeps

(* One more go at the box with an alias of the airport, where there is one.  *)
RouteAlias ==
    /\ at = "route_alias"
    /\ \/ Goto("box_look") /\ call' = [NoCall EXCEPT !.tries = 1]
       \/ Goto("route_itinerary") /\ UNCHANGED call
    /\ KeepsPage /\ Keeps

(* Last, results of the route on the page count for the destination.         *)
RouteItinerary ==
    /\ at = "route_itinerary"
    /\ Done("itinerary") \/ RouteFails("combobox_fill_unverified")
    /\ KeepsPage /\ Keeps

RouteStep ==
    \/ BoxLook \/ BoxPress \/ BoxOpened \/ BoxInput \/ BoxCommit \/ BoxVerify \/ RouteCheck
    \/ RouteSettle \/ RouteFinalize \/ RouteAlias \/ RouteItinerary

-----------------------------------------------------------------------------
(* The search is started and seen to have begun                              *)
(* (_google_search_and_commit of google_flights/ui_actions.py).              *)

Presses == pressed' = form
Searching == UNCHANGED <<case, plan, form, focus, step, trace>>

(* A page of results is left as it is; an error page is reloaded first.      *)
SearchLook ==
    /\ at = "search_look"
    /\ \/ Done("already_ready") /\ UNCHANGED raised
       \/ Goto("search_reload") /\ UNCHANGED <<call, raised>>
       \/ Goto("search_press") /\ UNCHANGED <<call, raised>>
       \/ Raises("timeout") /\ UNCHANGED call
    /\ UNCHANGED pressed /\ Searching

(* The reload is pressed and results are awaited.                            *)
SearchReload ==
    /\ at = "search_reload"
    /\ Done("reload_then_verify") \/ (Goto("search_press") /\ UNCHANGED call)
    /\ UNCHANGED <<raised, pressed>> /\ Searching

(* The candidates are pressed until one answers; a press or a wait that is   *)
(* out of time leaves the plan.                                              *)
SearchPress ==
    /\ at = "search_press"
    /\ \/ Presses /\ Done("click_button") /\ UNCHANGED raised
       \/ /\ Presses /\ Goto("search_enter")
          /\ call' = [call EXCEPT !.tools = {"pressed"}] /\ UNCHANGED raised
       \/ UNCHANGED pressed /\ Goto("search_enter") /\ UNCHANGED <<call, raised>>
       \/ (Presses \/ UNCHANGED pressed) /\ Raises("timeout") /\ UNCHANGED call
    /\ Searching

(* Then Enter, if the cursor is in an input; its time-out is swallowed.      *)
SearchEnter ==
    /\ at = "search_enter"
    /\ \/ /\ focus # "none" /\ Presses
          /\ Done("enter_then_verify") \/ Fails("search_not_committed")
       \/ UNCHANGED pressed /\ Fails("search_not_committed")
    /\ UNCHANGED raised /\ Searching

SearchStep == SearchLook \/ SearchReload \/ SearchPress \/ SearchEnter
=============================================================================

--------------------------- MODULE MCPlanExecution ---------------------------
(* A small instance of PlanExecution: the plan of a whole form on a page that *)
(* can be read, the dates alone on one that mostly cannot, a forced route, an *)
(* optional return, fills of fields that are not known, and the form of       *)
(* Skyscanner.                                                                *)
EXTENDS PlanExecution

Fill(role) == StepOf("fill", role)
Do(act, opt) == [StepOf(act, "none") EXCEPT !.opt = opt]
OptReturn(need) == [Fill("return") EXCEPT !.opt = TRUE, !.need = need]
Force(role) == [Fill(role) EXCEPT !.force = TRUE]

Whole == <<Fill("origin"), Fill("dest"), Fill("depart"), Fill("return"), Do("search", FALSE)>>
Stale == <<Fill("contact"), Fill("unknown"), Fill("origin"), Fill("dest"), Fill("depart"), Do("search", FALSE)>>
DatesOnly == <<Fill("depart"), OptReturn(FALSE), Do("search", FALSE), Do("wait", FALSE)>>
Needed == <<Do("click", TRUE), Fill("depart"), OptReturn(TRUE), Do("search", TRUE)>>
Forced == <<Force("dest"), Do("click", FALSE), Do("search", FALSE)>>
OnSky == <<Fill("origin"), Fill("dest"), Fill("depart"), OptReturn(FALSE), Do("search", FALSE), Do("wait", FALSE)>>

Loose(opt) == [Fill("loose") EXCEPT !.opt = opt]
Scattered == <<Fill("depart"), Loose(TRUE), Fill("dest"), Fill("origin"), Loose(FALSE), Do("search", FALSE)>>
Odd == <<Loose(TRUE), Fill("dest"), Do("search", FALSE)>>

(* A return that passes for the departure, and the other way round.          *)
Case(site, raw, back, legible, check, gate) ==
    [site |-> site, raw |-> raw, back |-> back, legible |-> legible, check |-> check,
     gate |-> gate, closed |-> ~gate,
     alike |-> IF ~back THEN {}
               ELSE IF gate THEN {<<"depart", "return">>} ELSE {<<"return", "depart">>}]

MCCases ==
    {Case("google_flights", Whole, TRUE, Fields, TRUE, FALSE),
     Case("google_flights", Whole, FALSE, Fields, TRUE, TRUE),
     Case("google_flights", Stale, TRUE, Fields, TRUE, FALSE),
     Case("google_flights", DatesOnly, TRUE, {"depart"}, TRUE, TRUE),
     Case("google_flights", Needed, TRUE, {"depart"}, FALSE, FALSE),
     Case("google_flights", Forced, FALSE, {}, TRUE, FALSE),
     Case("google_flights", Scattered, FALSE, Fields, TRUE, FALSE),
     Case("skyscanner", Odd, FALSE, {}, FALSE, FALSE),
     Case("google_flights", <<Fill("contact")>>, FALSE, {}, TRUE, FALSE),
     Case("skyscanner", OnSky, TRUE, {}, FALSE, FALSE)}
=============================================================================

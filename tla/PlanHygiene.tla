----------------------------- MODULE PlanHygiene -----------------------------
(***************************************************************************)
(* A plan that was stored or generated for another trip is bound to the one *)
(* in hand before it is carried out, and what cannot be trusted in it is    *)
(* left out (core/scenario_runner/plan_hygiene.py).  A step is a record     *)
(* [act, role, opt, need, force]; a fill whose field is not known has the   *)
(* role "loose" when its value is one of the trip's and "unknown" when not, *)
(* one of a login or contact form "contact".                                *)
(***************************************************************************)
EXTENDS Naturals, Integers, Sequences, FiniteSets

Route  == {"origin", "dest"}
Dates  == {"depart", "return"}
Fields == Route \cup Dates
Acts   == {"fill", "click", "search", "wait"}

StepOf(act, role) == [act |-> act, role |-> role, opt |-> FALSE, need |-> FALSE, force |-> FALSE]
FillRoles(plan) == {plan[k].role : k \in {j \in DOMAIN plan : plan[j].act = "fill"}}

(* _is_valid_plan, and the plans that execute_plan turns down for their      *)
(* login fields.                                                             *)
Carriable(plan) ==
    /\ plan # <<>>
    /\ \A k \in DOMAIN plan : plan[k].act \in Acts
    /\ "contact" \notin FillRoles(plan)

(* _plan_has_required_fill_roles: on Google Flights the three must also be   *)
(* required.                                                                 *)
HasRequiredRoles(plan, google) ==
    LET three == {"origin", "dest", "depart"}
        needed == {plan[k].role : k \in {j \in DOMAIN plan :
                       plan[j].act = "fill" /\ (~plan[j].opt \/ plan[j].need)}}
    IN  three \subseteq FillRoles(plan) /\ (google => three \subseteq needed)

(* _return_date_step                                                         *)
ReturnStep == [StepOf("fill", "return") EXCEPT !.opt = TRUE]

(* The steps at these positions of a plan, in their order.                   *)
Picked(raw, kept) ==
    LET Behind(k) == Cardinality({j \in kept : j <= k})
    IN  [i \in 1 .. Cardinality(kept) |-> raw[CHOOSE k \in kept : Behind(k) = i]]

(* A fill of the trip: of a field, but for a return on a one-way trip, or of *)
(* an unknown field with a value of the trip; not one of a contact form.     *)
OfTrip(role, back) == role \in (IF back THEN Fields ELSE Fields \ {"return"}) \cup {"loose"}

(* Behind how many of the kept steps a return comes that is missing: behind  *)
(* the departure, as far behind as fills were dropped in front of it.        *)
ReturnPlace(raw, length) ==
    LET departs == {k \in DOMAIN raw : raw[k].act = "fill" /\ raw[k].role = "depart"}
        behind == Cardinality({k \in DOMAIN raw : \E d \in departs : k <= d})
    IN  IF departs # {} /\ behind < length THEN behind ELSE length

PutBehind(steps, place, new) ==
    SubSeq(steps, 1, place) \o <<new>> \o SubSeq(steps, place + 1, Len(steps))

(* _retarget_plan_inputs: foreign fills go, a return that is missing comes in. *)
Rebind(raw, back) ==
    LET kept == Picked(raw, {k \in DOMAIN raw : raw[k].act = "fill" => OfTrip(raw[k].role, back)})
        place == ReturnPlace(raw, Len(kept))
    IN  IF back /\ "return" \notin FillRoles(raw)
        THEN PutBehind(kept, place, ReturnStep)
        ELSE kept
=============================================================================

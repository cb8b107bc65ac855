---------------------------- MODULE RouteBinding ----------------------------
(***************************************************************************)
(* Whether the page in hand shows the route that was asked for: what the   *)
(* DOM says, what the vision model says of a screenshot, the verdict fused *)
(* from the two, and the gate a Google Flights price has to pass with it   *)
(* (core/route_binding.py and the gate of core/extractor.py).              *)
(*                                                                         *)
(* A form gives for every field what the page shows against what was asked *)
(* for; the return date, when there is one, is checked as the departure.   *)
(***************************************************************************)
EXTENDS Naturals

Fields == {"origin", "dest", "depart"}
Readings == {"match", "differs", "unread"}
Forms == [Fields -> Readings]
Supports == {"none", "weak", "strong"}

(* The fields the DOM contradicts.  An origin beside an empty destination is *)
(* a destination that was never committed, whatever the date says.           *)
Contradicted(form) ==
    IF form["origin"] # "unread" /\ form["dest"] = "unread"
      THEN {"dest"}
      ELSE {f \in Fields : form[f] = "differs"}

(* The support of the DOM; an empty form leaves every field open and is weak *)
(* evidence, so "none" is only said of a contradicted form.                  *)
DomSupport(form) ==
    IF Contradicted(form) # {} THEN "none"
    ELSE IF \A f \in Fields : form[f] = "match" THEN "strong" ELSE "weak"

(* What the vision model reads off the screenshot: how many of the required  *)
(* fields match, or nothing that can be used.                                *)
VisionReadings == {"lost", "no_field", "some_fields", "all_fields"}

VisionSupport(reading) ==
    CASE reading = "all_fields"  -> "strong"
      [] reading = "some_fields" -> "weak"
      [] OTHER                   -> "none"

FuseStrongFirst(form, reading, strongOnly, closed) ==
    LET dom == DomSupport(form)
        seen == VisionSupport(reading)
    IN  IF "strong" \in {dom, seen}
          THEN [support |-> "strong", bound |-> TRUE, reason |-> "strong_evidence"]
        ELSE IF closed /\ Contradicted(form) # {}
          THEN [support |-> "none", bound |-> FALSE, reason |-> "explicit_mismatch"]
        ELSE IF "weak" \in {dom, seen}
          THEN [support |-> "weak", bound |-> ~strongOnly, reason |-> "weak_evidence"]
        ELSE [support |-> "none", bound |-> FALSE, reason |-> "no_evidence"]

(* fuse_route_bind_verdict: a contradiction in the DOM outweighs everything  *)
(* the vision model saw.                                                     *)
Fuse(form, reading, strongOnly, closed) ==
    LET dom == DomSupport(form)
        seen == VisionSupport(reading)
    IN  IF closed /\ Contradicted(form) # {}
          THEN [support |-> "none", bound |-> FALSE, reason |-> "explicit_mismatch"]
        ELSE IF "strong" \in {dom, seen}
          THEN [support |-> "strong", bound |-> TRUE, reason |-> "strong_evidence"]
        ELSE IF "weak" \in {dom, seen}
          THEN [support |-> "weak", bound |-> ~strongOnly, reason |-> "weak_evidence"]
        ELSE [support |-> "none", bound |-> FALSE, reason |-> "no_evidence"]

(* Whether the verdict counts as bound under the strength that is required.  *)
AcceptedBound(v, strongOnly) ==
    IF strongOnly THEN v.bound /\ v.support = "strong"
                  ELSE v.bound \/ v.support # "none"

(* _route_not_bound_payload: the candidate without its price.                *)
NotBound(c, v) ==
    [c EXCEPT !.price = FALSE, !.rank = 1, !.support = v.support]

GateOnMismatchOnly(c, v, strongOnly, closed) ==
    IF closed /\ v.reason = "explicit_mismatch" THEN NotBound(c, v)
    ELSE [c EXCEPT !.support = v.support,
                   !.rank = IF v.support = "weak" THEN 1 ELSE c.rank]

(* _apply_google_route_bind_gate for a priced candidate: a mismatch costs    *)
(* the price, so does a confidence above low that the route does not carry,  *)
(* and weak support leaves only low confidence.                              *)
RouteGate(c, v, strongOnly, closed) ==
    IF \/ closed /\ v.reason = "explicit_mismatch"
       \/ c.rank > 1 /\ ~AcceptedBound(v, strongOnly)
      THEN NotBound(c, v)
      ELSE [c EXCEPT !.support = v.support,
                     !.rank = IF v.support = "weak" THEN 1 ELSE c.rank]
=============================================================================

----------------------------- MODULE ScopeGuard -----------------------------
(***************************************************************************)
(* What GoogleFlightsPlugin makes of a candidate price before it is let    *)
(* out: the verification of a price read by the vision model, and the      *)
(* guard against prices of pages that do not sell flights                  *)
(* (core/extractor.py).                                                    *)
(*                                                                         *)
(* An opinion is what one model said of the page: the page class and the   *)
(* trip product it named, the class standing in for a missing product and  *)
(* the product for a missing class; {} of the code is given = FALSE.       *)
(* "irrelevant" stands for the irrelevant and the garbage page.            *)
(***************************************************************************)
EXTENDS Naturals, FiniteSets

Classes == {"flight", "package", "irrelevant"}
Opinions ==
    [says : {s \in SUBSET Classes : Cardinality(s) <= 2}, given : {TRUE}]
NoOpinion == [says |-> {}, given |-> FALSE]

NonFlight(says) == says \cap {"package", "irrelevant"} # {}

VisionSources == {"vlm", "vlm_multimodal"}

(* resolve_scope_conflict: the text model says no flight page, the vision    *)
(* model does not, and the route is strongly bound.  A price of the vision   *)
(* model needs in addition that it affirmed the flight page and that the     *)
(* price is found in the page.                                               *)
ConflictResolved(c, vision, text, support, grounded) ==
    /\ NonFlight(text.says) /\ ~NonFlight(vision.says)
    /\ support = "strong"
    /\ c.src \in VisionSources => "flight" \in vision.says /\ grounded

Failed(c) == [c EXCEPT !.price = FALSE, !.rank = 1, !.guard = "fail"]
Passed(c, how) == [c EXCEPT !.guard = how]

PostGuardOfTextAlone(c, vision, text, support, grounded, bound, enforced, closed) ==
    IF \/ enforced /\ ~bound
       \/ c.src \in VisionSources /\ NonFlight(text.says)
      THEN Failed(c)
      ELSE Passed(c, "pass")

(* post_candidate_scope_guard for a price that the page does not carry in    *)
(* its embedded data: the route context where it is enforced, then the two   *)
(* opinions.  Evidence against a flight page blocks the price unless one of  *)
(* the models or a strongly bound route speaks for it; the probe never       *)
(* returns the page kind evaluate_irrelevant_page_downgrade looks for, so    *)
(* that no blocked page is let through by it.                                *)
PostGuard(c, vision, text, support, grounded, bound, enforced, closed) ==
    LET resolved == ConflictResolved(c, vision, text, support, grounded)
        textSays == IF resolved THEN text.says \cap {"flight"} ELSE text.says
        against  == NonFlight(vision.says) \/ NonFlight(textSays)
        speaksFor == \/ "flight" \in vision.says \cup textSays
                     \/ support = "strong"
    IN  IF \/ enforced /\ ~bound
           \/ c.src \in VisionSources /\ NonFlight(textSays)
           \/ against /\ ~speaksFor
           \/ closed /\ ~(vision.given /\ text.given) /\ ~speaksFor
          THEN Failed(c)
          ELSE Passed(c, IF resolved THEN "conflict_resolved" ELSE "pass")

(* validate_vlm_candidate: what is left of a price the vision model read.    *)
(* shown is the price text it quoted against the price it returned, judged   *)
(* the answer of the text model to whether the page shows that price.        *)
Validated(c, shown, judged, unknownCloses) ==
    IF shown = "other_price" THEN {}
    ELSE IF judged = "reject" \/ (judged = "unknown" /\ unknownCloses)
      THEN {Failed(c)}
    ELSE {c}

(* _normalize_extractor_output: a price whose selector is brittle loses one  *)
(* level of confidence, unless the candidate itself names the flight page,   *)
(* passed the guard and has its route bound (_has_strong_route_scope_...).   *)
Normalized(c) ==
    IF /\ c.brittle /\ c.rank > 1
       /\ ~(c.affirmed /\ c.support = "strong" /\ c.guard # "fail")
      THEN [c EXCEPT !.rank = @ - 1] ELSE c
=============================================================================

-------------------------- MODULE ScenarioHandover --------------------------
(***************************************************************************)
(* What a scenario leaves to the extraction beside the page: the verdict    *)
(* of its turns and of its return, in a file of the run and the service     *)
(* (scenario_return.py, route_bind.py), and what main.py makes of it before *)
(* it extracts: whether a price is looked for at all, whether the guards of *)
(* the extraction are lifted, whether the page is read without a model.     *)
(*                                                                         *)
(* The file outlives the scenario: another address or trip of the same run  *)
(* finds the one before, and its return is merged into it.                  *)
(***************************************************************************)

Services == {"google_flights", "skyscanner"}
Scopes == {"flight_only", "irrelevant_page", "other_page", "unknown"}
Bounds == {"yes", "no", "unread"}
Supports == {"none", "weak", "strong", "agent"}

\* Why a scenario returned, as far as a list of reasons tells them apart.
ByHand == {"date_fill_failure", "blocked_interstitial", "manual_intervention",
           "page_state_recovery", "recovery_unverified"}
Stopped == {"retries_exhausted", "wall_clock_cap", "demo_observation"}
ScenarioReasons == ByHand \cup Stopped \cup
           {"ready", "unready", "scope_non_flight", "route_mismatch", "corroborated_fill"}

Returns == [ready : BOOLEAN, reason : ScenarioReasons, scope : Scopes,
            bound : Bounds, support : Supports]

\* The verdict of the route that is kept, and the class of the page beside it.
VerdictReasons == ScenarioReasons \cup {"none", "explicit_mismatch"}
Verdicts == [bound : BOOLEAN, support : Supports, reason : VerdictReasons,
             final : Scopes]

-----------------------------------------------------------------------------
(* The scenario *)

\* The verdict a turn writes: read tells whether the form or the vision model
\* gave any field.
TurnVerdict(status, bound, read, scope) ==
    [bound   |-> bound = "yes",
     support |-> IF status = "route_mismatch" THEN "none"
                 ELSE IF bound = "yes" THEN "strong"
                 ELSE IF read THEN "weak" ELSE "none",
     reason  |-> IF status = "route_mismatch" THEN "explicit_mismatch" ELSE status,
     final   |-> scope]

\* Without a file, the return makes one up from its own words.
FallbackVerdict(service, r) ==
    LET elsewhere == service = "google_flights" /\ r.scope = "irrelevant_page"
    IN  [bound   |-> ~elsewhere /\ r.bound = "yes",
         support |-> r.support,
         reason  |-> IF elsewhere THEN "scope_non_flight" ELSE r.reason,
         final   |-> r.scope]

\* What the return leaves of the verdict v that it finds: how it is bound is its
\* own word, the reason and the class beside it stay those of v.
Merged(v, r) ==
    [bound   |-> IF r.bound = "unread" THEN v.bound ELSE r.bound = "yes",
     support |-> r.support,
     reason  |-> v.reason,
     final   |-> v.final]

ScopeLeft(v, r) == IF r.scope = "unknown" THEN v.final ELSE r.scope

\* The file after a scenario that returned r; found is what it found there.
Left(service, found, r) ==
    LET v == IF found = {} THEN FallbackVerdict(service, r) ELSE CHOOSE x \in found : TRUE
    IN  [service |-> service,
         verdict |-> Merged(v, r),
         ready   |-> r.ready,
         reason  |-> r.reason,
         scope   |-> ScopeLeft(v, r)]

Files == [service : Services, verdict : Verdicts, ready : BOOLEAN,
          reason : ScenarioReasons, scope : Scopes]

\* scenario_extract_verdict: the reason not to extract, or none.
ScenarioVerdict(file) ==
    LET v == file.verdict
        named == IF ~file.ready /\ file.reason \in ByHand THEN file.reason ELSE "none"
    IN  IF file.service = "google_flights" /\ ~v.bound
        THEN IF ~file.ready /\ file.reason = "date_fill_failure" THEN file.reason
             ELSE IF \/ v.reason \in {"explicit_mismatch", "scope_non_flight"}
                     \/ file.scope = "irrelevant_page"
                     \/ ~file.ready /\ v.reason = "retries_exhausted"
             THEN "route_context_unbound"
             ELSE named
        ELSE IF /\ file.service # "google_flights" /\ ~file.ready /\ ~v.bound
                /\ v.reason = "retries_exhausted"
        THEN "retries_exhausted"
        ELSE named

-----------------------------------------------------------------------------
(* The gate of main.py *)

NonActionable(reason) == reason \in ByHand \cup Stopped

\* With the evidence dump, the checkpoint of the return is looked at first.
ByEvidence(file, dump) == dump /\ ~file.ready /\ NonActionable(file.reason)

\* The last snapshot of the scenario is its return's, so an interstitial is found
\* there only if that one was not written.
ByLastError(file, unwritten) ==
    unwritten /\ ~file.ready /\ file.reason = "blocked_interstitial"

BySummary(file) ==
    /\ NonActionable(file.reason)
    /\ ~file.ready \/ file.reason = "demo_observation"
    /\ ~(file.service = "google_flights" /\ file.reason = "retries_exhausted")

ByRoute(file) ==
    /\ file.service = "google_flights"
    /\ ~file.verdict.bound
    /\ \/ file.verdict.reason \in {"explicit_mismatch", "scope_non_flight"}
       \/ file.verdict.final = "irrelevant_page"
       \/ ~file.ready /\ NonActionable(file.reason)

\* The verdict of the scenario itself decides when its reason is one of the list,
\* or when the second version is switched on.
ByScenario(file, v2) ==
    LET reason == ScenarioVerdict(file)
    IN  reason # "none" /\ (v2 \/ NonActionable(reason))

\* _scenario_preextract_gate_result gives a result: nothing is extracted.
Refused(file, dump, unwritten, v2) ==
    \/ ByEvidence(file, dump) \/ ByLastError(file, unwritten)
    \/ BySummary(file) \/ ByScenario(file, v2) \/ ByRoute(file)

\* The page was found ready, of flights, and of the route.
Proven(file) ==
    /\ file.service = "google_flights"
    /\ file.ready /\ file.verdict.bound /\ file.scope = "flight_only"

\* The vision and the language model's guards of the extraction are switched off.
Lifted(file) ==
    /\ Proven(file)
    /\ \/ file.verdict.support \in {"weak", "strong"}
       \/ file.verdict.reason = "corroborated_fill"

-----------------------------------------------------------------------------
(* The returns there are *)

\* What a turn found out and wrote, and how it may have been returned.
TurnStatuses == {"none", "scope_non_flight", "route_mismatch", "corroborated_fill"}
Turns == [status : TurnStatuses, bound : Bounds, read : BOOLEAN, scope : Scopes]
WrittenBy(t) == TurnVerdict(t.status, t.bound, t.read, t.scope)
TurnReturns(t) ==
    {[ready   |-> ready,
      reason  |-> IF t.status # "none" THEN t.status ELSE IF ready THEN "ready" ELSE "unready",
      scope   |-> t.scope, bound |-> t.bound, support |-> WrittenBy(t).support] :
        ready \in IF t.status \in {"none", "corroborated_fill"} THEN {TRUE, FALSE}
                  ELSE {FALSE}}

\* Returns that no verdict of a turn goes with: ready ones of the deep link, of a
\* snapshot and of the agent, and unready ones.
PlainReturns ==
    [ready : {TRUE}, reason : {"ready", "page_state_recovery"}, scope : {"flight_only", "other_page"},
     bound : {"yes"}, support : {"strong", "agent"}]
    \cup [ready : {FALSE}, reason : ByHand \cup Stopped \cup {"unready"},
          scope : {"unknown", "irrelevant_page", "other_page"}, bound : {"no"}, support : {"none"}]
    \cup [ready : BOOLEAN, reason : {"demo_observation"}, scope : {"unknown"},
          bound : {"no"}, support : {"none"}]

\* The files the extraction may find: of a turn of this scenario, or of a return
\* with nothing, or with what an earlier scenario of the run left, in the file.
OfTurn(service) ==
    UNION {{Left(service, {WrittenBy(t)}, r) : r \in TurnReturns(t)} : t \in Turns}
OfReturn(service) == {Left(service, {}, r) : r \in PlainReturns}
OverEarlier(service) == {Left(service, {WrittenBy(t)}, r) : t \in Turns, r \in PlainReturns}

Handovers(service) == OfTurn(service) \cup OfReturn(service) \cup OverEarlier(service)
=============================================================================

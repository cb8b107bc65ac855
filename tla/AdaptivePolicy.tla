--------------------------- MODULE AdaptivePolicy ---------------------------
(***************************************************************************)
(* The adaptive runtime policy of storage/adaptive_policy.py: the outcome  *)
(* counters kept for one site between service runs, and the profile they   *)
(* recommend for the site's next run.  main.py records an outcome after    *)
(* every service run and turns the profile into the time limit of the next *)
(* scenario (_adaptive_scenario_candidate_timeout_sec).                    *)
(*                                                                         *)
(* Times are seconds.  The two miss counters are only ever used as a sum.  *)
(* A profile keeps the two time limits, the reasons and whether a failed   *)
(* fast plan may ask the LLM, which only pressure switches off: the        *)
(* thresholds are at their default, as the flag for extraction always is.  *)
(***************************************************************************)
EXTENDS Naturals, Sequences, FiniteSets

CONSTANTS
    LightMode,       \* whether llm_mode is "light"
    BaseTimeout,     \* scenario_candidate_timeout_sec
    TimeoutCap,      \* scenario_candidate_timeout_cap_sec
    PlannerTimeout,  \* llm_light_planner_timeout_sec
    ExtractTimeout,  \* llm_light_extract_timeout_sec
    PlannerCap,      \* adaptive_high_timeout_pressure_light_planner_timeout_sec
    ExtractCap,      \* adaptive_high_timeout_pressure_light_extract_timeout_sec
    Window,          \* how many LLM calls the pressure is measured on (120)
    MaxRuns          \* bound: service runs of the site

ASSUME PolicyAssumption ==
    /\ LightMode \in BOOLEAN
    /\ {BaseTimeout, TimeoutCap, PlannerTimeout, ExtractTimeout,
        PlannerCap, ExtractCap, MaxRuns} \subseteq Nat
    /\ Window \in Nat \ {0}

VARIABLES
    policy,          \* the record of the site in adaptive_policy.json
    metrics          \* the last calls in light mode: TRUE for one that timed
                     \* out or was refused by the open circuit

policyVars == <<policy, metrics>>

SiteState == [success : Nat, failure : Nat, okStreak : Nat, failStreak : Nat,
              priced : Nat, misses : Nat, timeouts : Nat]

NewSite == [success |-> 0, failure |-> 0, okStreak |-> 0, failStreak |-> 0,
            priced |-> 0, misses |-> 0, timeouts |-> 0]

Larger(a, b) == IF a > b THEN a ELSE b
Lesser(a, b) == IF a < b THEN a ELSE b
AsCount(b) == IF b THEN 1 ELSE 0

-----------------------------------------------------------------------------
(* record_service_outcome: a run that published a result, with or without a price
   in it, and a run that failed. *)

RecordOk(hasPrice, isMiss) ==
    policy' = [policy EXCEPT !.success = @ + 1,
                             !.okStreak = @ + 1,
                             !.failStreak = 0,
                             !.priced = @ + AsCount(hasPrice),
                             !.misses = @ + AsCount(isMiss)]

RecordError(isTimeout) ==
    policy' = [policy EXCEPT !.failure = @ + 1,
                             !.failStreak = @ + 1,
                             !.okStreak = 0,
                             !.timeouts = @ + AsCount(isTimeout)]

-----------------------------------------------------------------------------
(* recommend_runtime_profile *)

DefaultProfile(reasons) ==
    [planner |-> PlannerTimeout, extract |-> ExtractTimeout, plans |-> TRUE,
     reasons |-> reasons]

\* The escalation comes with the second failure and goes with the third.
ExtractEscalatedOnce(st) == st.failStreak = 2 \/ st.misses >= 2

ExtractEscalated(st) == st.failStreak >= 2 \/ st.misses >= 2
PlannerEscalated(st) == st.failStreak >= 3

Escalations(st) ==
    {r \in {"extract_escalation", "planner_escalation"} :
        \/ r = "extract_escalation" /\ ExtractEscalated(st)
        \/ r = "planner_escalation" /\ PlannerEscalated(st)}

EscalatedProfile(st) ==
    [planner |-> IF PlannerEscalated(st) THEN Larger(PlannerTimeout, 45)
                                         ELSE PlannerTimeout,
     extract |-> IF ExtractEscalated(st) THEN Larger(ExtractTimeout, 30)
                                         ELSE ExtractTimeout,
     plans |-> TRUE,
     reasons |-> Escalations(st)]

PressuredProfile ==
    [planner |-> Lesser(PlannerTimeout, PlannerCap),
     extract |-> Lesser(ExtractTimeout, ExtractCap),
     plans |-> FALSE,
     reasons |-> {"timeout_pressure"}]

\* _recent_llm_timeout_rate, as a comparison with a percentage.
TimeoutCalls(calls) == Cardinality({i \in DOMAIN calls : calls[i]})
AtLeast(percent, calls) ==
    calls # <<>> /\ TimeoutCalls(calls) * 100 >= percent * Len(calls)

UnderPressure(calls) == AtLeast(70, calls)

\* The recovery without a look at the calls.
RecoveredAnyway(st, calls) == st.okStreak >= 3

Recovered(st, calls) == st.okStreak >= 3 /\ ~AtLeast(40, calls)

RecommendedProfile(st, calls) ==
    IF ~LightMode THEN DefaultProfile({})
    ELSE IF Recovered(st, calls) THEN DefaultProfile({"recovered"})
    ELSE IF UnderPressure(calls) THEN PressuredProfile
    ELSE EscalatedProfile(st)

(* _adaptive_scenario_candidate_timeout_sec *)
RequiredTimeout(p) ==
    LET plain   == Larger(p.planner + 120, p.extract + 180)
        planned == IF "planner_escalation" \in p.reasons
                     THEN Larger(plain, p.planner + 300) ELSE plain
        parsed  == IF "extract_escalation" \in p.reasons
                     THEN Larger(planned, Larger(p.extract + 420, p.planner + 360))
                     ELSE planned
    IN  IF "timeout_pressure" \in p.reasons
          THEN Larger(parsed, Larger(p.extract + 540, p.planner + 420)) ELSE parsed

CandidateTimeout(p) ==
    LET base == Larger(15, BaseTimeout)
    IN  IF ~LightMode \/ (p.planner = 0 /\ p.extract = 0) THEN base
        ELSE Lesser(Larger(base, RequiredTimeout(p)), Larger(60, TimeoutCap))
-----------------------------------------------------------------------------
PolicyInit ==
    /\ policy = NewSite
    /\ metrics = <<>>

LastCalls(calls) ==
    IF Len(calls) > Window THEN Tail(calls) ELSE calls

\* A call of the LLM client in light mode leaves a row in llm_call_metrics.
LlmCall ==
    /\ \E timeoutLike \in BOOLEAN : metrics' = LastCalls(Append(metrics, timeoutLike))
    /\ UNCHANGED policy

RunEnds ==
    /\ policy.success + policy.failure < MaxRuns
    /\ \/ \E hasPrice, isMiss \in BOOLEAN : RecordOk(hasPrice, isMiss)
       \/ \E isTimeout \in BOOLEAN : RecordError(isTimeout)
    /\ UNCHANGED metrics

\* save_policy writes the file in place: a process that ends while it does so
\* leaves no valid JSON, and load_policy then starts from nothing.
CrashInSave ==
    /\ policy' = NewSite
    /\ UNCHANGED metrics

PolicyNext == LlmCall \/ RunEnds \/ CrashInSave

PolicySpec == PolicyInit /\ [][PolicyNext]_policyVars

-----------------------------------------------------------------------------
(* Properties *)

PolicyTypeOK ==
    /\ policy \in SiteState
    /\ metrics \in Seq(BOOLEAN) /\ Len(metrics) <= Window

Profile == RecommendedProfile(policy, metrics)
Budget == CandidateTimeout(Profile)

\* The counters of a site tell one story: a streak is part of its count, never
\* both streaks run, and after any run one of them does.
CountsAgree ==
    /\ policy.okStreak <= policy.success /\ policy.failStreak <= policy.failure
    /\ policy.okStreak = 0 \/ policy.failStreak = 0
    /\ policy.success + policy.failure > 0 => policy.okStreak + policy.failStreak > 0
    /\ policy.misses <= policy.success /\ policy.timeouts <= policy.failure

\* A run that fails never costs the next one time: through escalation, pressure
\* and the recovery it ends, the limit of the next scenario does not shrink.
FailureNeverShrinks ==
    [][policy'.failure > policy.failure => Budget' >= Budget]_policyVars

\* As long as most calls time out, the limits of a call stay capped, whatever the
\* streaks of the site say: stalls are not compounded.
PressureCaps ==
    LightMode /\ UnderPressure(metrics) =>
        /\ Profile.planner <= PlannerCap
        /\ Profile.extract <= ExtractCap
        /\ ~Profile.plans
=============================================================================

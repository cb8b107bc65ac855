------------------------------ MODULE Salvage ------------------------------
(***************************************************************************)
(* How one service run of main.py turns the page in hand into a result:    *)
(* the gate of the scenario guard on what ScenarioHandover says was left,  *)
(* the extraction, the wall clock cap, and the salvage attempts that       *)
(* re-extract a weak result with heavier means while the candidate's time  *)
(* budget lasts.                                                           *)
(*                                                                         *)
(* A result is a price, a rank of confidence (_confidence_rank) and the    *)
(* reason the code compares.  What an extraction finds and how long it     *)
(* takes is the environment's choice; spent is the time since the          *)
(* extraction started.                                                     *)
(***************************************************************************)
EXTENDS Integers, Sequences, ScenarioHandover

CONSTANTS
    Prices,            \* the prices a page can show
    NoPrice,           \* price None
    WallClockCaps,     \* values of extract_wall_clock_cap_sec, 0 when off
    SalvageEnabled,    \* extract_salvage_retry_enabled
    SalvageOnLow,      \* extract_salvage_retry_on_low_confidence
    MinRank,           \* rank of extract_salvage_min_confidence
    StopRank,          \* rank of extract_salvage_stop_confidence
    MaxAttempts,       \* extract_salvage_max_attempts
    RouteMissAttempts, \* extract_salvage_max_attempts_route_miss
    SkipAfter,         \* extract_salvage_skip_after_elapsed_sec
    SalvageTimeout,    \* extract_salvage_llm_extract_timeout_sec
    CandidateTimeout,  \* service_candidate_timeout_sec
    StartTimes,        \* candidate and service time spent before extraction
    Durations          \* how long one extraction may take

ASSUME SalvageAssumption ==
    /\ NoPrice \notin Prices
    /\ SalvageEnabled \in BOOLEAN /\ SalvageOnLow \in BOOLEAN
    /\ MinRank \in 0..3 /\ StopRank \in 0..3
    /\ WallClockCaps \subseteq Nat
    /\ {MaxAttempts, RouteMissAttempts, SkipAfter,
        SalvageTimeout, CandidateTimeout} \subseteq Nat
    /\ StartTimes \subseteq Nat \X Nat
    /\ Durations \subseteq Nat

VARIABLES
    pc,       \* "extract", "salvage", "publish" or "raised"
    cap,      \* extract_wall_clock_cap_sec of this run
    start,    \* <<candidate time, service time>> at extract_started_at
    handed,   \* what the file the scenario left allows
    spent,    \* time since extract_started_at
    primary,  \* primary_result, the result before any salvage
    best,     \* best_result
    limit,    \* salvage_max_attempts of this run, 0 when nothing is salvaged
    result,   \* the result that is published
    seen,     \* history: what every extraction of the page returned
    overrun   \* history: how far the last attempt ran over its own limit

vars == <<pc, cap, start, handed, spent, primary, best, limit, result, seen, overrun>>

-----------------------------------------------------------------------------
(* Results *)

Misses == {"missing_price", "route_miss", "non_flight", "llm_failed"}
Reasons == Misses \cup {"none", "wall_clock_cap", "scenario_guard"}
Results == [price : Prices \cup {NoPrice}, rank : 0..3, reason : Reasons]

Priced(r) == r.price # NoPrice

Capped == [price |-> NoPrice, rank |-> 1, reason |-> "wall_clock_cap"]
Gated == [price |-> NoPrice, rank |-> 1, reason |-> "scenario_guard"]
NoResult == [price |-> NoPrice, rank |-> 0, reason |-> "none"]

(* What an extraction that takes d can return: extract_price has its own     *)
(* wall clock cap over the same limit.                                       *)
Extracted(d) ==
    IF cap > 0 /\ d >= cap THEN {Capped}
    ELSE [price : Prices, rank : 1..3, reason : {"none"}]
         \cup [price : {NoPrice}, rank : 1..3, reason : Misses]

(* _scenario_success_google_deterministic_extract_fastpath *)
FastPath ==
    IF handed.proven THEN [price : Prices, rank : {2}, reason : {"none"}] ELSE {}

PrefersAnyPrice(c, p) == Priced(c) \/ ~Priced(p)

(* _prefer_result: whether the candidate c replaces p.                       *)
Prefers(c, p) ==
    IF Priced(p)
      THEN Priced(c) /\ c.rank > p.rank
      ELSE \/ Priced(c)
           \/ c.rank > p.rank
           \/ p.reason = "llm_failed" /\ c.reason # "llm_failed"

Preferred(p, c) == IF Prefers(c, p) THEN c ELSE p

(* _should_salvage_extract *)
ShouldSalvage(r) ==
    /\ r.reason # "non_flight"
    /\ ~Priced(r) \/ (SalvageOnLow /\ r.rank < (IF MinRank > 1 THEN MinRank ELSE 1))

-----------------------------------------------------------------------------
(* Budgets *)

AtLeastOne(n) == IF n > 1 THEN n ELSE 1
Smaller(a, b) == IF a < b THEN a ELSE b

(* salvage_max_attempts: at least one; one only for a plain miss on a page   *)
(* with the guards lifted, and the route-miss cap for a route miss.         *)
AttemptLimit(r) ==
    IF handed.lifted /\ r.reason = "missing_price" THEN 1
    ELSE IF r.reason = "route_miss"
      THEN Smaller(AtLeastOne(MaxAttempts), AtLeastOne(RouteMissAttempts))
    ELSE AtLeastOne(MaxAttempts)

CapReached(t) == cap > 0 /\ t >= cap

RemainingOfExtraction(t) == CandidateTimeout - t

(* remaining_candidate_budget when the extraction phase has taken t.         *)
Remaining(t) ==
    IF start[1] + t >= CandidateTimeout THEN 0 ELSE CandidateTimeout - (start[1] + t)

MaySalvage(r, t) ==
    /\ SalvageEnabled
    /\ ~CapReached(t)
    /\ SkipAfter > 0 => start[2] + t < SkipAfter
    /\ Remaining(t) >= 2 * SalvageTimeout
    /\ ShouldSalvage(r)

(* How many salvage attempts have been made.                                 *)
Attempts == Len(seen) - 1

(* The clock is asked for SalvageTimeout, and an attempt may take longer: its *)
(* calls are given more with every attempt, and there may be several.        *)
Overrun(d) == IF d > SalvageTimeout THEN d - SalvageTimeout ELSE 0

-----------------------------------------------------------------------------
(* What main.py makes of a file the scenario may have left.                  *)
HandedOver(site) ==
    {[refused |-> Refused(file, dump, unwritten, v2), lifted |-> Lifted(file),
      proven |-> Proven(file)] :
        file \in Handovers(site), dump \in BOOLEAN, unwritten \in BOOLEAN, v2 \in BOOLEAN}

GateExtraction ==
    /\ pc = "extract" /\ handed.refused
    /\ pc' = "publish"
    /\ result' = Gated
    /\ UNCHANGED <<cap, start, handed, spent, primary, best, limit, seen, overrun>>

(* The first extraction, on a proven page by the service's own parser if that *)
(* finds a price; a result that comes after the cap is the watchdog's.       *)
Extract ==
    /\ pc = "extract" /\ ~handed.refused
    /\ \E d \in Durations : \E r \in Extracted(d) \cup FastPath :
        LET first == IF CapReached(d) THEN Capped ELSE r
        IN  /\ spent' = d
            /\ seen' = <<r>>
            /\ primary' = first /\ best' = first /\ result' = first
            /\ IF MaySalvage(first, d)
                 THEN pc' = "salvage" /\ limit' = AttemptLimit(first)
                 ELSE pc' = "publish" /\ UNCHANGED limit
    /\ UNCHANGED <<cap, start, handed, overrun>>

PublishLast(b) ==
    /\ pc' = "publish"
    /\ result' = b

(* chosen = _prefer_result(primary_result, best_result)                      *)
Publish(b) ==
    /\ pc' = "publish"
    /\ result' = Preferred(primary, b)

SalvageEnds ==
    /\ pc = "salvage"
    /\ Attempts = limit \/ Remaining(spent) < SalvageTimeout
    /\ Publish(best)
    /\ UNCHANGED <<cap, start, handed, spent, primary, best, limit, seen, overrun>>

(* The cap between two attempts overwrites the best result found so far.     *)
SalvageCapped ==
    /\ pc = "salvage"
    /\ Attempts < limit /\ Remaining(spent) >= SalvageTimeout
    /\ CapReached(spent)
    /\ best' = Capped
    /\ Publish(Capped)
    /\ UNCHANGED <<cap, start, handed, spent, primary, limit, seen, overrun>>

SameMiss(r) == ~Priced(best) /\ ~Priced(r) /\ best.reason = r.reason

SalvageAttempt ==
    /\ pc = "salvage"
    /\ Attempts < limit /\ Remaining(spent) >= SalvageTimeout
    /\ ~CapReached(spent)
    /\ \E d \in Durations : \E r \in Extracted(d) :
        /\ spent' = spent + d /\ overrun' = Overrun(d)
        /\ seen' = Append(seen, r)
        /\ IF SameMiss(r)
             THEN Publish(best) /\ UNCHANGED best
             ELSE /\ best' = Preferred(best, r)
                  /\ IF Prefers(r, best) /\ Priced(r) /\ r.rank >= StopRank
                       THEN Publish(r)
                       ELSE UNCHANGED <<pc, result>>
    /\ UNCHANGED <<cap, start, handed, primary, limit>>

(* Nothing between here and the handler of the service run catches what an   *)
(* extraction raises, a salvage attempt's included.                          *)
ExtractRaises ==
    /\ pc' = "raised"
    /\ \E d \in Durations :
        /\ spent' = spent + d
        /\ \/ pc = "extract" /\ ~handed.refused /\ UNCHANGED overrun
           \/ /\ pc = "salvage"
              /\ Attempts < limit /\ Remaining(spent) >= SalvageTimeout
              /\ ~CapReached(spent)
              /\ overrun' = Overrun(d)
    /\ UNCHANGED <<cap, start, handed, primary, best, limit, result, seen>>

Finished ==
    /\ pc \in {"publish", "raised"}
    /\ UNCHANGED vars

Init ==
    /\ pc = "extract"
    /\ cap \in WallClockCaps
    /\ start \in StartTimes
    /\ handed \in UNION {HandedOver(site) : site \in Services}
    /\ spent = 0
    /\ primary = NoResult /\ best = NoResult /\ result = NoResult
    /\ limit = 0 /\ overrun = 0
    /\ seen = <<>>

Next ==
    \/ GateExtraction \/ Extract
    \/ SalvageEnds \/ SalvageCapped \/ SalvageAttempt \/ ExtractRaises
    \/ Finished

Spec == Init /\ [][Next]_vars

-----------------------------------------------------------------------------
(* Properties *)

TypeOK ==
    /\ pc \in {"extract", "salvage", "publish", "raised"}
    /\ cap \in WallClockCaps
    /\ start \in StartTimes
    /\ handed \in [refused : BOOLEAN, lifted : BOOLEAN, proven : BOOLEAN]
    /\ spent \in Nat
    /\ primary \in Results /\ best \in Results /\ result \in Results
    /\ limit \in Nat /\ overrun \in Nat
    /\ seen \in Seq(Results)
    /\ pc = "salvage" => seen # <<>> /\ Len(seen) <= limit + 1

(* A run that was not capped publishes the best result any of its            *)
(* extractions returned: a price if one was found, of the highest confidence,*)
(* whatever order the attempts came in and whichever way salvage stopped.    *)
BestPublished ==
    pc = "publish" /\ seen # <<>> /\ ~CapReached(spent) =>
        /\ result \in {seen[i] : i \in DOMAIN seen}
        /\ \A i \in DOMAIN seen :
              Priced(seen[i]) => Priced(result) /\ result.rank >= seen[i].rank

(* Salvage never worsens a price it started from, under the cap too.         *)
PricedPrimaryKept ==
    pc = "publish" /\ Priced(primary) =>
        Priced(result) /\ result.rank >= primary.rank

(* Overruns do not add up: however many salvage attempts ran over their      *)
(* limit, and whether the last of them came to a result, was raised out of or*)
(* was followed by another look at the clock, a run that salvages is past the*)
(* candidate's timeout by at most what its last attempt overran.             *)
OneOverrun == limit > 0 => start[1] + spent <= CandidateTimeout + overrun
=============================================================================

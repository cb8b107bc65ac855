--------------------------- MODULE CandidateLoop ---------------------------
(***************************************************************************)
(* How one service run of main.py (_run_multi_service_impl) gets a page:   *)
(* it tries its URL candidates in order, each with a Chromium scenario,    *)
(* and after an HTTP/2 protocol error retries the same URL with WebKit and *)
(* then without HTTP/2.  The loop ends with a page to extract from or with *)
(* the exception that makes the service run an error.                      *)
(*                                                                         *)
(* A page is known by whether it is a package (flight + hotel) page, an    *)
(* exception by what the code reads in its text.  The scenario, its        *)
(* duration and the page it finds are the environment's choice.            *)
(***************************************************************************)
EXTENDS Integers, Sequences

CONSTANTS
    MaxCandidates,    \* most URL candidates
    CandidateTimeout, \* service_candidate_timeout_sec
    RetryTimeout,     \* scenario_disable_http2_retry_timeout_sec
    RetryPatience,    \* the literal 120 of the retry without HTTP/2
    HardTimeouts,     \* values of FLIGHT_WATCHER_SCENARIO_HARD_TIMEOUT_ENABLED
    Durations         \* how long one scenario may take

ASSUME CandidateLoopAssumption ==
    /\ MaxCandidates \in Nat
    /\ CandidateTimeout \in Nat \ {0}
    /\ RetryTimeout \in Nat \ {0}
    /\ RetryPatience \in Nat
    /\ HardTimeouts \subseteq BOOLEAN
    /\ Durations \subseteq Nat

VARIABLES
    pc,           \* where the loop is
    hardTimeout,  \* the scenarios run under a hard timeout
    cands,        \* url_candidates: TRUE if the URL is of the service's domain
    idx,          \* the candidate being tried
    html,         \* the page in hand
    navError,     \* last_nav_error
    engineRetry,  \* allow_engine_fallback_retry
    http2Retry,   \* allow_disable_http2_retry
    error,        \* the exception that leaves the loop
    calls         \* history: the scenario calls made, oldest first

loopVars == <<pc, hardTimeout, cands, idx, html, navError, engineRetry, http2Retry,
              error, calls>>

-----------------------------------------------------------------------------
(* What a scenario call can come to *)

Pages == {"flight", "package"}
NoPage == "no_page"

(* The exceptions of a scenario: an HTTP/2 protocol error, another network   *)
(* error, a navigation that timed out, and failures that are not             *)
(* navigation.  The last two are raised by the timeout wrapper; their texts  *)
(* hold neither the capitalised "Timeout" nor a navigation error code.       *)
NavErrors == {"http2", "connection", "goto_timeout"}
ScenarioErrors == NavErrors \cup {"other_timeout", "other"}
Errors == ScenarioErrors \cup {"hard_timeout", "foreign_timeout"}
IsTimeoutText(e) == e \in {"goto_timeout", "other_timeout"}
NoError == "none"

(***************************************************************************)
(* _run_agentic_scenario_with_timeout with its _call_timeout: what a call  *)
(* with this time limit comes to when the scenario needs d seconds.  cause *)
(* is what went wrong inside, err the exception main.py sees.  The alarm   *)
(* of the hard timeout goes off once: it may cut the call off, or one of   *)
(* the broad handlers inside the scenario may swallow it, after which the  *)
(* scenario runs on and ends in any way.  A TimeoutError of the scenario   *)
(* ("wall_clock") is re-raised only under the hard timeout and early;      *)
(* otherwise the handler ends without raising and the call returns None.   *)
(***************************************************************************)
Smaller(a, b) == IF a < b THEN a ELSE b

WallClockError(limit, d) ==
    IF hardTimeout /\ 5 * d < limit /\ 2 * (limit - d) > limit
      THEN "foreign_timeout" ELSE NoError

(* The scenario ends by itself.                                              *)
RunsOut(limit, d) ==
    {[page |-> p, err |-> NoError, cause |-> NoError, took |-> d] : p \in Pages}
    \cup {[page |-> NoPage, err |-> e, cause |-> e, took |-> d] : e \in ScenarioErrors}
    \cup {[page |-> NoPage, err |-> WallClockError(limit, d), cause |-> "wall_clock",
           took |-> d]}

(* The alarm ends it.                                                        *)
CutOff(limit, d) ==
    IF hardTimeout /\ d >= limit
      THEN {[page |-> NoPage, err |-> "hard_timeout", cause |-> "hard_timeout",
             took |-> limit]}
      ELSE {}

Ends(limit, d) == RunsOut(limit, d) \cup CutOff(limit, d)

RetryLimit == Smaller(CandidateTimeout, RetryTimeout)

Call(mode, end) ==
    calls' = Append(calls, [cand |-> idx, mode |-> mode,
                            cause |-> end.cause, took |-> end.took])

-----------------------------------------------------------------------------
(* Where a candidate leads *)

IsLastOffByOne == idx + 1 >= Len(cands)

IsLast == idx = Len(cands)

GiveUp(e) ==
    /\ pc' = "failed"
    /\ error' = e
    /\ UNCHANGED idx

NextCandidate ==
    /\ pc' = "candidate"
    /\ idx' = idx + 1
    /\ UNCHANGED error

(* The end of the except branch: on to the next URL only after a navigation  *)
(* failure.                                                                  *)
FallBackAlways(e) ==
    IF ~IsLast THEN NextCandidate ELSE GiveUp(e)

FallBack(e) ==
    IF ~IsLast /\ e \in NavErrors THEN NextCandidate ELSE GiveUp(e)

(* if html is None: raise last_nav_error, or "scenario returned no html".    *)
NoHtml == GiveUp(IF navError = NoError THEN "no_html" ELSE navError)

Accept(page) ==
    IF page = NoPage THEN NoHtml /\ UNCHANGED html
    ELSE /\ pc' = "page"
         /\ html' = page
         /\ UNCHANGED <<idx, error>>

(* A URL outside the service's domain is skipped without a scenario.         *)
SkipForeign ==
    /\ pc = "candidate" /\ idx <= Len(cands) /\ ~cands[idx]
    /\ NextCandidate
    /\ UNCHANGED <<hardTimeout, cands, html, navError, engineRetry, http2Retry, calls>>

OutOfCandidates ==
    /\ pc = "candidate" /\ idx > Len(cands)
    /\ NoHtml
    /\ UNCHANGED <<hardTimeout, cands, html, navError, engineRetry, http2Retry, calls>>

AfterNavError(e) ==
    IF e # "http2" THEN FallBack(e)
    ELSE IF engineRetry THEN pc' = "webkit" /\ UNCHANGED <<idx, error>>
    ELSE IF http2Retry THEN pc' = "http2_off" /\ UNCHANGED <<idx, error>>
    ELSE FallBack(e)

(* A package page is passed over while a later candidate remains.            *)
PassesOver(page) == page = "package" /\ ~IsLast

TryCandidate ==
    /\ pc = "candidate" /\ idx <= Len(cands) /\ cands[idx]
    /\ \E d \in Durations : \E end \in Ends(CandidateTimeout, d) :
        /\ Call("chromium", end)
        /\ IF end.err # NoError
             THEN navError' = end.err /\ AfterNavError(end.err) /\ UNCHANGED html
             ELSE /\ UNCHANGED navError
                  /\ IF PassesOver(end.page)
                       THEN NextCandidate /\ html' = NoPage
                       ELSE Accept(end.page)
    /\ UNCHANGED <<hardTimeout, cands, engineRetry, http2Retry>>

WebkitFailedKeepsRetry(e) ==
    /\ UNCHANGED engineRetry
    /\ IF http2Retry THEN pc' = "http2_off" /\ UNCHANGED <<idx, error>>
       ELSE IF ~IsLast THEN NextCandidate ELSE GiveUp(e)

(* The one WebKit retry of a service run; when it fails, the retry without   *)
(* HTTP/2 of the same URL follows unless an earlier one was too slow.        *)
WebkitFailed(e) ==
    /\ engineRetry' = FALSE
    /\ IF http2Retry THEN pc' = "http2_off" /\ UNCHANGED <<idx, error>>
       ELSE IF ~IsLast THEN NextCandidate ELSE GiveUp(e)

WebkitRetry ==
    /\ pc = "webkit"
    /\ \E d \in Durations : \E end \in Ends(RetryLimit, d) :
        /\ Call("webkit", end)
        /\ IF end.err = NoError
             THEN Accept(end.page) /\ UNCHANGED <<navError, engineRetry>>
             ELSE navError' = end.err /\ WebkitFailed(end.err) /\ UNCHANGED html
    /\ UNCHANGED <<hardTimeout, cands, http2Retry>>

TooSlowByClock(e, took) == took > RetryPatience

TooSlow(e, took) == IsTimeoutText(e) \/ took > RetryPatience

Http2OffRetry ==
    /\ pc = "http2_off"
    /\ \E d \in Durations : \E end \in Ends(RetryLimit, d) :
        /\ Call("http2_off", end)
        /\ IF end.err = NoError
             THEN Accept(end.page) /\ UNCHANGED <<navError, http2Retry>>
             ELSE /\ navError' = end.err
                  /\ http2Retry' = (http2Retry /\ ~TooSlow(end.err, end.took))
                  /\ FallBack(end.err)
                  /\ UNCHANGED html
    /\ UNCHANGED <<hardTimeout, cands, engineRetry>>

Settled ==
    /\ pc \in {"page", "failed"}
    /\ UNCHANGED loopVars

-----------------------------------------------------------------------------
CandidateLists == UNION {[1..n -> BOOLEAN] : n \in 0..MaxCandidates}

LoopInit ==
    /\ pc = "candidate"
    /\ hardTimeout \in HardTimeouts
    /\ cands \in CandidateLists
    /\ idx = 1
    /\ html = NoPage
    /\ navError = NoError
    /\ engineRetry = TRUE /\ http2Retry = TRUE
    /\ error = NoError
    /\ calls = <<>>

LoopNext ==
    \/ SkipForeign \/ OutOfCandidates
    \/ TryCandidate \/ WebkitRetry \/ Http2OffRetry
    \/ Settled

LoopSpec == LoopInit /\ [][LoopNext]_loopVars

-----------------------------------------------------------------------------
(* Properties *)

LoopTypeOK ==
    /\ pc \in {"candidate", "webkit", "http2_off", "page", "failed"}
    /\ hardTimeout \in BOOLEAN
    /\ cands \in CandidateLists
    /\ idx \in 1..(Len(cands) + 1)
    /\ html \in Pages \cup {NoPage}
    /\ navError \in Errors \cup {NoError}
    /\ engineRetry \in BOOLEAN /\ http2Retry \in BOOLEAN
    /\ error \in Errors \cup {NoError, "no_html"}
    /\ calls \in Seq([cand : 1..Len(cands), mode : {"chromium", "webkit", "http2_off"},
                      cause : Errors \cup {NoError, "wall_clock"}, took : Nat])

Failures == {i \in DOMAIN calls : calls[i].cause # NoError}
OwnCandidates == {i \in DOMAIN cands : cands[i]}
Tried == {calls[i].cand : i \in DOMAIN calls}

(* A failure that is not a navigation failure ends the loop, so that a later *)
(* URL cannot hide it (main.py: "do not hide the root cause"): only the      *)
(* WebKit retry may be followed by another call, of the same URL.            *)
RootCauseNotHidden ==
    \A i \in Failures :
        calls[i].cause \notin NavErrors /\ i < Len(calls)
            => calls[i].mode = "webkit" /\ calls[i + 1].cand = calls[i].cand

(* The loop gives up only on a failure it must not hide, or when every URL   *)
(* of the service's own domain has been tried: no fallback URL is lost to    *)
(* the retry bookkeeping.                                                    *)
GivesUpOnlyWhenExhausted ==
    pc = "failed" =>
        \/ OwnCandidates \subseteq Tried
        \/ calls # <<>> /\ calls[Len(calls)].cause \notin NavErrors \cup {NoError}

(* WebKit is tried at most once in a service run, and a URL costs at most a  *)
(* call and a retry beyond it: a service whose every URL answers with        *)
(* HTTP/2 errors makes a bounded number of scenario calls.                   *)
CallsBounded == Len(calls) <= 2 * Len(cands) + 1

(* A retry without HTTP/2 that timed out in any way, or took too long, is    *)
(* not paid for again on a later URL of the run (main.py: "stop paying this  *)
(* cost for subsequent fallback URLs").  The flag alone does not see to it:  *)
(* a scenario cut off by the alarm, and one that ran out of its own clock,   *)
(* leave it set and have to end the loop.                                    *)
TimedOut == {"goto_timeout", "other_timeout", "wall_clock", "hard_timeout"}
Costly(call) ==
    /\ call.mode = "http2_off"
    /\ call.cause \in TimedOut \/ call.took > RetryPatience

CostlyRetryNotRepeated ==
    \A i, j \in DOMAIN calls :
        Costly(calls[i]) /\ i < j => calls[j].mode # "http2_off"
=============================================================================

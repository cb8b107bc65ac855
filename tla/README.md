# Verification of aegis-runtime

TLA+ models of the parts of this repository whose correctness depends on the
order of steps, on time budgets and on what survives a failure; TLC runs that
check them on small instances; and TLAPS proofs that hold for every value of
the constants. Source paths are relative to the repository's root.

## The system

The program watches flight prices. `main.py` takes a list of trip plans and a
list of services (Google Flights, Skyscanner) and works through every pair: it
opens a browser, drives the site to a page of results (the *scenario*), extracts
a price with deterministic means and a local language model, stores it in
SQLite, sends an alert when the price changed enough, and learns from the
outcome how much time the next run should get. One process, one main thread;
the concurrency is with time, with a model server and pages that answer late or
not at all, with a person in the browser window, with the operator's Ctrl-C, and
with the end of the process.

| Component | State | Operations | What makes it hard | What makes it correct |
|---|---|---|---|---|
| Run orchestration (`main.py`) | the job at hand, payloads, threshold profile, evidence variable | one job per (trip, service); the handler of a job; the finally blocks of three frames | an exception may be caught by the handler of its job, pass it by, or rise after the row is committed | each job reported once, in order, and as it is stored; nothing set for a run outlives it |
| URL candidate loop (`main.py`) | candidate index, two retry flags, last navigation error, time | Chromium, WebKit retry, retry without HTTP/2, fallback to the next URL | three nested retries share two flags and one error | calls are bounded, a costly retry is not repeated, the root cause is not hidden, no URL is given up too early |
| Scenario (`core/scenario_runner/run_agentic*`) | attempt, turn, plan at hand, last capture, counters of the attempt and of the scenario | deep link, gate of an attempt, turn, judgement, follow-ups, handler, escalations, thirty returns | a page is judged, looked at again and then handed over; recoveries share limits over attempts; checks of the clock only at the start of a turn | what is handed over as ready is a page that passed its test as it is; recoveries and escalations stay bounded; one answer, in the end |
| Plan execution (`core/scenario_runner.py`, `plan_hygiene.py`) | the plan, the form of the page, the cursor, the trace | binding a stored plan to the trip, one handler per step, recoveries of a fill | text that lands in another field, a month misread, failures that are let pass | a search is started for the trip that was asked for, as far as the match of the form can tell |
| Browser session (`core/browser/session.py`) | pages, the page driven, expected pages, signal handlers, the window of a person | open, guard, rebind, recover, manual window, grace period | pages open, close and navigate between any two steps; interrupts anywhere in the window | the driven page is never closed by its own guard, what is called cleared was clear, what was taken is given back |
| Hand-over and salvage (`main.py`, `scenario_return.py`) | the route-state file, best result so far, attempts, budget | gate, extract, salvage attempts, choice | results of any quality in any order against two clocks; a file that outlives its scenario | the best result is published; overruns do not add up; gate and fast path never contradict |
| Extraction ladder (`core/extractor.py`, `llm/code_model.py`, `core/route_binding.py`) | once-flags, cached verdict, chunks left, clock | fourteen rungs, the guards of a price, the vision call | any rung can end the extraction; DOM and vision disagree; retries inside retries | no price that a guard should have stopped; an image is not paid for twice; it ends |
| LLM client (`llm/llm_client.py`) | circuits per model, one call | endpoints and format fallbacks within one budget; opening, pruning and resetting circuits | slow, stalled and refused answers; a circuit pruned by other models' calls | the circuit is not forgotten, every endpoint gets its share, calls end |
| Price history and alerts (`core/alerts.py`, `storage/runs.py`) | rows of a route, alerts | read the last price, save, evaluate, dispatch | read-before-save order; runs cut short; cooldown | the right pair of prices is compared, alerts are spaced, no change is swallowed |
| Adaptive policy (`storage/adaptive_policy.py`) | outcome counters of a site, last LLM calls | record, recommend, time limit | streaks and pressure pull in opposite directions; a store rewritten in place | failing never shortens the next run; pressure caps what a call may take |
| Retention (`storage/runs.py`) | two tables, the size of the file | insert, prune by age and count, by size, VACUUM | a loop on a size that no deletion changes; sweeps cut short | promised rows survive |

`PROJECT.json` lists every part of the repository, the ones left out included,
with its status and the reason.

How they interact: `main.py` calls the scenario with a budget derived from the
adaptive policy; the scenario drives the browser session, carries out plans and
asks models; it leaves a page and a route-state file, which the gate before the
extraction reads; the extraction and the scenario call `llm_client.call_llm`,
whose rows in the metrics table feed the adaptive policy; `save_run` writes the
other table and sweeps both; the alert compares with the row that was the last
priced one before.

## The modules

    ServiceRun ------implements------> RunLedger
      |
      +- CandidateLoop          the calls of the scenario for the URLs of a job
      |    |
      |    +- ScenarioLoop ----implements------> ScenarioContract
      |         ScenarioTurn > ScenarioRecovery > AttemptGate > ScenarioStart > ScenarioState
      |         |                        |
      |         +- PlanExecution         +- BrowserSession
      |              SkyscannerForm           ChallengeGrace
      |              RouteFill                ManualWindow
      |              DatePicker               BrowserPages
      |              FormState
      |              PlanHygiene
      +- Salvage > ScenarioHandover   from the page to a published result
      |    +- ExtractLadder > VisionCall > LadderState > RouteBinding, ScopeGuard
      |         +- LlmClient
      +- PriceWatch, AdaptivePolicy, Retention

`>` and a column of names below each other read "extends"; a `+-` branch looks
into one step of the module above it and takes that module's other steps as its
environment. They share no variables, only the answers one step gives the next:
the answer of the scenario (`ScenarioContract`), what its hand-over leaves
(`ScenarioHandover`, which Salvage starts from), the results an extraction can
return (`Extracted`). `XProofs` holds the theorems about `X` (BrowserProofs about
BrowserSession, ServiceRunProofs about CandidateLoop too, ScenarioProofs about
ScenarioLoop, StorageProofs about Retention, AdaptivePolicy and PriceWatch);
`MCX` holds the values TLC uses where a .cfg cannot say them.

A model keeps the control: every early return, retry, except clause and commit
of the mapped lines, in the source's order. It abstracts pages, prices and
errors to what the code compares. `PROJECT.json` maps each definition to its
lines.

### ServiceRun and RunLedger

`stage` is the place in `main.main`, `run_multi_service` and the loop of
`_run_multi_service_impl`; a job is a (trip, service) pair. Each step succeeds,
raises into the handler of the job (`Raise`), or escapes it (`Escape`): what is
before the `try` of the job, the handler itself in debug mode, and
`KeyboardInterrupt` at any time (`Interrupt`). `SaveRun` can commit its row and
raise (the sweep at the end of `save_run`). `Learn` is best effort. The three
finally blocks are `Escape`, `Close` and `Release`. `RunLedger` is what a caller
may rely on: jobs are dealt with in order, a result is in the table before it is
reported, and the caller gets all the reports or none.

### CandidateLoop

`cands` says of each URL whether it is of the service's domain; `TryCandidate`,
`WebkitRetry` and `Http2OffRetry` are the three kinds of scenario call, each with
its except branch; `Ends` is `_run_agentic_scenario_with_timeout`. The alarm of
the hard timeout rings once, and its exception may be caught inside the scenario
(`llm_client.py:522`, `run_agentic_scenario.py:5106`): it either cuts the
scenario off (`CutOff`) or the scenario runs on and ends as if there were no
alarm (`RunsOut`), however long that takes. No bound on the time of a run
follows from it, and none is stated; `CostlyRetryNotRepeated` bounds what the
most expensive retry can cost instead.

### The scenario

`ScenarioState` holds the locals of `run_agentic_scenario`: `at` is the step,
`html` the last capture, `once` the counters of an attempt, `used` those of the
scenario, `seen` the history. The page belongs to the site: every look at it may
find any surface. `ScenarioStart` is the deep link, the optional agent and the
choice of the first plan; `AttemptGate` is `attempt_gate.py` with the reloads,
the grace period and the person; `ScenarioRecovery` the collaborative recovery
of a date and the ladder of the blank shell; `ScenarioTurn` one turn from its
gate to the hand-over or the follow-up; `ScenarioLoop` the handler of an
attempt, the escalations and what can break anywhere (`StepFails`, `Breaks`).
Time is two marks (`low`, `capped`) that are passed at some moment.
Whether a page is ready is the answer of a test that may err both ways: the scope
guard is skipped, cut off, raises or does not know (`run_agentic_scenario.py`
4139-4301), Skyscanner's test never compares the route (`readiness.py:170-198`),
the agent's word is taken. `vouched` says that the last capture has passed such a
test as it is (`CapturesJudged`); `ReadyAsJudged` does not promise that a ready
page shows results, but that the page handed over is the one that was judged.
`ScenarioContract` is what a caller may rely on: rounds go forward, a new attempt
starts with its first turn, and one answer comes in the end.

### PlanExecution and the form

`form` holds, for each field, nothing, what was asked for it, what was asked for
*another* field, something that merely passes for it, or anything else. The
match of the code looks for a token in a text and takes airports of one city for
each other (`core_functions.py:69-100`, `google_flights.py:420-444`): `alike`
passes everywhere, and `case.alike` says which of the asked values pass for each
other, as a return on "Mar 10" does for a departure on "Mar 1". `focus` is the
field with the cursor. `PlanHygiene` binds a stored plan to the trip (dropped
steps, order, the late return step; a fill of an unknown field with a value of
the trip is kept, and `Scatters` lets it land anywhere), `DatePicker` is
`gf_set_date_impl` with its budget and the fall-back on typing, `RouteFill` the
combobox of an airport, its verification and the start of the search,
`SkyscannerForm` the other site, and `PlanExecution` the loop over the steps
with what is let pass and what ends the plan. `SearchedAsAsked` and
`DepartBeforeSearch` speak of plans that set the departure before they search
(`DepartFirst`): the handlers check the form only once a date was tried, so a
plan whose search stands in front of its departure starts it unchecked. An
unchecked search is a plain click (`SearchUnchecked`).

### BrowserSession

`BrowserPages` has the pages of a context and who closes which (`PageOpened`,
the guard, rebinding, recovery); `ManualWindow` is
`allow_manual_verification_intervention` heartbeat by heartbeat, with its lock,
signal handlers, capture and extension; `ChallengeGrace` the session's own tries
before a challenge; `BrowserSession` composes them from `__enter__` to
`__exit__`. A heartbeat may be slow (`Slow`) and a wait may be broken off by its
page closing; the code charges neither to the window (`session.py` 2099-2149,
2358-2361), so `TimeIsCharged` says how much stays uncharged instead of denying
it. A Ctrl-C between the handlers and the `try`, and a second one in the
`finally` (`InterruptFinally`), keep the lock or the handlers: `NothingHeldBack`
is about every other way out. `Outside` is what people and pages do between any
two steps. A page event is assumed to be delivered before the close of its page
is noticed, and nothing happens on other pages during the call that makes a new
one. Pages are numbered in the order in which they open (`OpensNext`), which is
the order in which a context lists them and the one
`_recover_page_after_target_close` looks through; a number is never used again.

### ScenarioHandover and Salvage

`Handovers(service)` is the set of route-state files a run can leave: written by
a turn (`OfTurn`), by a return alone (`OfReturn`), or by a return over what an
earlier scenario of the run left (`OverEarlier`). `Refused` is
`_scenario_preextract_gate_result`, `Lifted` and `Proven` are the fast path.
`Salvage` starts from any such file: the gate, the first extraction with its
cap, the salvage attempts with their three ways to stop, and `_prefer_result`.
`overrun` is by how much the last attempt passed its limit.

### ExtractLadder

`pc` is the rung that comes next; each rung either hands a candidate to `_emit`
(`Offer`, then `Emit`), lets something out unguarded (`Give`), or moves on.
`RouteBinding` is the fusion of evidence and the route gate, `ScopeGuard` the
guard against prices of pages that sell no flights, `VisionCall` the vision call
with variants, token-cap retries, the second round, and time-outs. `looks` counts
the calls in which each rung puts the screenshot to a model for a price, the call
after a `TypeError` and the multimodal question included; variants and rounds
belong to a call. What a model answers is free.

### LlmClient, PriceWatch, AdaptivePolicy, Retention

`LlmClient`: `BeginCall` fixes the list of requests (endpoints times formats);
each is answered, answered unusably, stalls or times out; `ReadLimit` is its
share of the budget; `FailCall` opens the circuit. `PriceWatch`: one route over
many runs, `ReadPrevious`, `SaveRow`, `Evaluate`, `Dispatch`, any of which may be
the last step of its run (`CutShort`). `AdaptivePolicy`: one site's record,
`RecommendedProfile` on a window of calls, `CrashInSave` in the middle of the
rewrite of the store. `Retention`: a table is the number of its first row and the
days of all rows ever inserted; `PruneByAge`, `CutChunk`, `EndCuts` and `Vacuum`
are `enforce_db_limits` up to each of its commits, `Abort` ends a sweep after any
of them; SQLite is external: a deleted row leaves its room in the file until
VACUUM.

## The runs

| Run | Shows | States | Bounds and why they are enough |
|---|---|---|---|
| `service_run` | reports and table agree whatever raises; nothing set for a run outlives it; it implements RunLedger | 369,464 | two trips on two services, one price and none: a job before, at and after the failing one, on the same service and on the other |
| `candidate_loop` | retries bounded, a costly retry not repeated, root cause kept, no URL lost | 2,177,897 | up to three URLs: first, middle and last; durations below, between and above the two limits (45 and 120), hard timeout off, on, and on but swallowed |
| `scenario_loop` | ready pages are those that were judged; recoveries bounded over attempts; at most the turn at hand works on a spent budget; it implements ScenarioContract, its liveness included | 903,130 | two attempts of two turns, so that every counter of an attempt is reset and every counter of the scenario is not; eight settings of site, mode of intervention, control model and fast path; one call of each collaborative kind, one window, two shell recoveries |
| `plan_execution` | a search is started for what passes for the trip; a departure precedes it; a return spares the departure; every plan ends | 3,401,337 | ten plans over both sites, with a return that passes for the departure and the reverse, and fills of unknown fields; a date budget of nine actions, two openers and two months ahead; two turns of the box and two attempts of a fill: every fall-back and the exhaustion of every bound |
| `browser_session` | the driven page is spared, cleared means clear, time charged but for a named rest, acts counted once, everything given back but by two interrupts, every call comes back | 932,141 | two pages (one driven, one popup or successor), three moves of the outside, two calls, a window of three intervals with an extension of two |
| `salvage` | best result published, the first price never lost, overruns of attempts do not add up | 5,577,513 | three attempts, one price: only its presence and rank are compared; extractions shorter and longer than the attempt limit and as long as the cap; four starting points around each budget check; every hand-over |
| `extract_ladder` | no price past its guards, late prices of the ladder dropped, no image paid for twice, every extraction ends | 93,729 | 39 settings of the rungs and guards; five forms (all match, one unread, one differing, destination uncommitted, empty), with and without the route's words; two image variants and one retry |
| `llm_client` | circuit kept, no endpoint starved, calls end | 179,869 | two models, so that calls of one prune the circuit of the other; all six request lists; budgets below and above the total; twelve time units, three open periods and more |
| `price_watch` | the right pair compared, alerts spaced, no qualifying change swallowed | 445,041 | three prices around the thresholds and the target, three rows, a clock of two cooldowns |
| `adaptive_policy` | pressure caps, a failure never shortens the next limit | 93,713 | six runs: every streak the code compares (2 and 3) is reached, broken and reached again; a window of four calls crosses both rates; the thresholds of `configs/thresholds.yaml` |
| `retention` | promised rows kept, whatever cuts a sweep short | 284,277 | four rows per table, limits and floors of 0 to 3, a file of three rows, a chunk of two: the age pass, the count pass, both tables in the size pass and the floors are all reached |
| `browser_session_spin` | the disagreement below | 39,339 to it | as `browser_session`, in demo mode alone |

Deadlock is checked except where the system stops (a run or a scenario that is
over) or a bound on rows, runs or time does stop the model (`MaxRuns`,
`RunBound`, `MaxTime`, `LastTime`).

### Where code and documents disagree

The run `browser_session_spin` shows one: a manual window is called bounded
(`docs/kb/10_runtime_contracts/scenario_runner.md:187`), but when the page is
closed under an overlay challenge a heartbeat takes it for cleared, the
stability probe finds it closed and goes on with the next heartbeat before the
wait that would notice, and only the whole milliseconds of the probe are charged
(`core/browser/session.py:2248-2262`): `WindowBounded` is violated. The document
speaks of demo mode, and so does the run. That the loop never ends is the model's
rounding, which charges a first look nothing; in the code it lasts as long as
probes take less than a millisecond, and no count of heartbeats bounds it.
`ComesBack` holds with exactly this case excepted (`Spinning`).

Met while modelling, and in the models as the code has it, without a run of
their own:

- With the hard timeout off, a wall-clock timeout of the scenario is swallowed
  and the service run reports another error (`main.py:615`). With it on, its
  exception may be swallowed by the broad handlers inside the scenario, and the
  alarm does not ring again (`main.py:572-578`). `RunsOut`.
- The parser of Skyscanner returns its price without looking at the clock again
  (`core/extractor.py:3205-3231`). `ServiceParser`, `BeforeLadder`.
- A date matches any text that contains it as a token, and an airport any of its
  city (`core_functions.py:69-100`): the check before the search can pass
  another date. `Passes`.
- A wait that is broken off, and the round trips of a heartbeat, are not taken
  off the manual window (`session.py` 2099-2149, 2358-2361). `Uncharged`.
- A second Ctrl-C in the `finally` of the window leaves the lock and the signal
  handlers as they were (`session.py:2703-2715`). `InterruptFinally`.
- The abort of a stalled answer is raised inside the `try` that swallows it, and
  the call goes on (`llm/llm_client.py:468`); the test at
  `tests/test_llm_client.py:335` says such calls "should fail closed".
  `AnswerStalled`.
- Alerts about missing prices are not spaced by the cooldown
  (`core/alerts.py:47`). `InCooldown`.
- A run without a price counts as a success, so that a site which only misses
  counts as recovered (`storage/adaptive_policy.py:230`).
- The size pass never sees the file shrink before VACUUM and cuts to the floors
  (`storage/runs.py:225-227`). `CutChunk`.
- The time-out of a vision call with a budget raises a `TypeError`
  (`llm/code_model.py:938` passes `until_sec`), upon which its caller asks again
  without the budget (`core/extractor.py:2479`). `CallTimesOut`.
- Counting a vision call reads an attribute the budget does not have
  (`llm/code_model.py:787`), so that what the vision model read off the form
  never reaches the "fused route-binding verdict (DOM + optional VLM
  verification)" of `core/extractor.py:478`. `Heard`. Only the gate behind the
  plugin router, which passes no budget, fuses anything.
- `results_candidates` is used at `google_flights/ui_actions.py:1483` before it
  is assigned at 1528, when the route is not known in full. No plan gets there:
  with such a route the search is a click (`scenario_runner.py:1801-1872`,
  `SearchUnchecked`).
- `form_state.get(role)` at `scenario_runner.py:1325` never matches; a combobox
  whose input handle is the string "focused" types into whatever input has the
  cursor. `BoxInput`.
- The route-state file outlives its scenario within a run, and a return merges
  into what it finds (`scenario_return.py:98-142`), though
  `write_route_state_debug` calls it one "for current scenario run": the reason
  or the final scope of an earlier address can refuse a later page.
  `OverEarlier`.
- The old and the new reading of that file in `main.py` disagree on 20 of the
  modelled files; the comparison only logs. Turning on the evidence dump changes
  what is refused (`ByEvidence` against `BySummary`).
- A Google page whose route the vision model doubts with low confidence stays
  ready for the scenario (`run_agentic_scenario.py:3639`) and is refused by the
  gate of `main.py` unless its reason is one of those listed there.
- Dead or without effect: the check of a search commit after a fill
  (`run_agentic_scenario.py:3758-3856`), `session.py:2406-2448`, the second DOM
  probe of the ladder, the irrelevant-page downgrade, the cool-down of the agent
  engine (`core/agent/engine.py:142` and 145).

## Fairness

Liveness is checked of an extraction (`Answers`), a plan (`PlanEnds`), a scenario
(in `KeepsContract`), a call of the session (`ComesBack`) and a call of the LLM
client (`CallsEnd`). Each assumes weak fairness of the program's own next step
(`Rungs`, `PlanStep`, `Steps`), which the code justifies: it is one thread, and
every call that waits has a limit of its own (a request its connect and read
timeout, a page operation its Playwright timeout, a window its budget). Nothing
is assumed of the environment: which way a call ends is free, `Interrupt`,
`Outside`, `Breaks` and `Abort` may happen always or never, and no strong
fairness is used. That time goes by (`Passes`) is not assumed either: the
scenario ends by its rounds and not by its clocks.

## The proofs

Each safety theorem follows the same argument: an inductive invariant `IInv`,
`Init => IInv`, one lemma per action, and `IInv` implies the property. Where
something is data (a set, a list, a table), the module of the proofs starts with
lemmas about the operators on it, and the lemmas about actions use only those.
Every invariant was checked by TLC on the runs' instances before it was proved.
Every safety property of a passing run has a theorem; three of them are stated
under a condition that the code does not enforce, and name it.

- **ScenarioProofs** (any settings, number of attempts and turns, limits of the
  recoveries): `ScenarioTypeCorrect`, `ReadyIsJudged`, `BudgetEndsWork`,
  `RecoveriesStayBounded`, and `ScenarioKeepsRounds`, the refinement of the
  safety part of ScenarioContract. The invariant is `TypeOK /\ Rounds /\
  Judgement /\ Counted /\ Late`. The properties speak of the end of a scenario;
  a verdict is reached several steps earlier, and the page is captured again in
  between. `Judgement` says, for each place between the verdict and the
  hand-over, whether the page at hand is the one that was judged: on Skyscanner
  it is not from the evidence to the second judgement. `Late` says which places
  a turn has left behind when it works on a spent budget, from which follows
  that there is no second such turn. `Rounds` says where another turn is
  promised, without which the step to the next turn would leave the contract.
- **BrowserProofs** (any number of pages, settings and limits):
  `SessionTypeCorrect`, `OwnPageSpared`, `ClearedIsStable`, `WindowTimeCharged`,
  `ActsCountedOnce`, `SessionHandsBack`, `GraceKeepsDeadline`. The invariant is
  `TypesInv /\ PagesInv /\ WindowInv /\ TimeLeft`, one part on top of the other.
  `PrimarySpared` needs that pages open in order and never again, and that the
  page a recovery has opened is the newest and is expected (`Opening`): that is
  why the guard does not take it for a popup before it is adopted. `ClearSince`
  is the probe as far as it has come, `Pending` what the capture holds beyond
  the last count, `Charging` the account of the time, which every heartbeat
  settles but for one probe of each grant, its own slowness and a wait that was
  broken off, and `Leaves` what is left of the deadline at each step of the
  grace period.
- **PlanExecutionProofs** (any stored plans, trips and pages, any budget, number
  of openers, months and goes): `RebindFitsTrip`, `PlanTypeCorrect`,
  `SearchesForTheTrip`, `SearchesAfterDeparture`, `ReturnLeavesDeparture`.
  `RebindFitsTrip` is about the operator: a plan that was bound fills fields of
  the trip, or unknown ones with a value of the trip, all of those the stored
  one filled, and the return of a round trip; `Picked` is written with
  positions, so that this needs no induction on the list. The invariant carries
  it to every place (`PlanInv`, with `PlaceFits` saying which steps of a plan
  each handler can be at). `Tried` says that a departure which lies behind has
  left an entry in the trace, a good one or one of the failures after which
  nothing is searched; `FormRight` says that the form which passed the check
  before the search is the one that is pressed, over the reloads and presses in
  between.
- **ExtractLadderProofs** (any settings, pages, opinions of the models, number
  of variants and retries): `StrongPrices`, `MisboundPages`, `DoubtedPages`,
  `LatePrices`, `PaidLooks`. The properties speak of the end of the ladder only;
  the invariant adds what holds on the way: the cached verdict is the one of
  this page (`OnTheWay`), nothing is doubted before it is guarded, and whatever
  is let out is `Sound`. The lemmas `FuseIs`, `GateIs`, `GuardIs` and
  `NormalizedIs` say what each guard does to any candidate; three lemmas
  (`MovesOn`, `Offers`, `Gives`) then cover most rungs. `PaidLooks` needs, at
  every place, how many calls of each rung lie behind it, and that the vision
  rung comes before the assist or not at all (`CallsSoFar`).
- **SalvageProofs** (any limits, prices, number of attempts and hand-overs):
  `SalvageTypeCorrect`, `PublishesBest`, `KeepsPricedPrimary`, and
  `OverrunsDoNotAdd`, which assumes the time limit of an attempt to be positive.
  `LiftedIsNotRefused` and `ReadyRefused` (which pages that were found ready the
  gate refuses, and that it refuses no others) are about the readings of the
  route-state file in `main.py`, for every file a run can leave.
- **LlmClientProofs** (any models, budgets, limits and open period):
  `ClientTypeCorrect`, `ModelsAreLeftAlone`, `NoEndpointStarved`. The history
  says when a model failed, the table until when its circuit is open; `Guarded`
  ties them together through every pruning. `NoEndpointStarved` is an action
  property and assumes `RoomForAll`, that a call is given three seconds or more:
  the code asks no less than one of the server, so that with two the requests
  with and without the format leave nothing for the other endpoint. `Shared`
  says how much time is left, request by request, as long as an endpoint is
  missing.
- **ServiceRunProofs**, of a run (any services, trips, prices, with or without
  debug mode): `RunTypeCorrect`, `JobsReportedOnce`, `ReportsMatchTable`,
  `NothingOutlivesTheRun`, and `RunImplementsLedger`, the refinement: what the
  table holds about the job at hand at every stage (`CurrentRow`) and how many
  payloads there are (`Progress`) map each step to a step of RunLedger or to a
  stutter. Of its candidate loop (any number of URLs, any limits and durations):
  `LoopTypeCorrect`, `RootCauseKept`, `CallsAreBounded`, with what is known of
  the last call at each place (`LastCall`), the order in which the flags are
  spent (`Flags`) and a count of calls per URL (`CallCount`); `NoCandidateLost`,
  from which URLs have been tried at each place (`Visited`); and
  `CostlyRetryPaidOnce`: after a retry without HTTP/2 that timed out, was cut
  off or was slow, the flag is spent or the loop has ended (`CostSpent`).
- **StorageProofs**, of PriceWatch (any prices, thresholds, cooldown, number of
  runs): `WatchTypeCorrect`, `AlertsCompareWithLast`, `AlertsAreSpaced`,
  `ChangesAreNoticed`. The invariant says of the row at hand that its previous
  price is the last priced row before it, which SaveRow keeps because a row that
  is appended is not before itself. Of AdaptivePolicy (any thresholds, any
  window): `PolicyTypeCorrect`, `CountersAgree`, `LimitsCappedUnderPressure`,
  `FailureKeepsTime`. The last is an action property: reasons and limits only
  grow after a failure, and the two clamps are monotone. It assumes `SomeLimit`,
  that one of the two LLM limits is positive: with both at zero the code returns
  the base limit, which the cap does not bound. Of Retention (any limits,
  floors, chunk sizes, tables of any length): `RetentionTypeCorrect`,
  `RecentRowsKept`: a chunk is never larger than what lies above the floor, and
  the age pass passes a promised row only when it is too old.

The assumptions are those named in the modules, which TLC evaluates on every
run, and the conditions named above. Most say that a limit is a number and that
a setting is one the code can read. Two say more: `PagesAssumption`, that the
pages are numbered from one, and `CasesAssumption`, that a stored plan is a list
of steps, of whatever actions and roles, known to the program or not.

Only model-checked: the liveness properties (`Answers`, `PlanEnds`, `ComesBack`,
`CallsEnd`) and the liveness of ScenarioContract in `KeepsContract`, because
liveness under fairness is out of the prover's reach.

## What is left out, and why

- What a page shows, what a model answers and how long either takes: free
  choices of the environment. Formatting, logging, HTML and prompts.
- A second process on the same database. The monitor runs alone. Clocks that run
  backwards.
- Scenario: which selectors a plan has, evidence files, the refill at the home
  surface (2419), the dead search-commit branch, the plugin readiness probe (off
  by default); the learned and configured numbers of attempts and turns are the
  setting `conf`.
- Plans: annotation and reconciliation of the roles of a plan (`plan_hygiene.py`
  326-345, 423-477), mismatches in meaning (538-575), pauses, a browser without
  a page, `KeywordFill` and type-ahead on other sites, the older picker in
  `calendar_driver.py`, the unused phases of `google_date_picker/`. The form is
  read back as it is, up to what the match cannot tell apart.
- Browser: viewport, user agent, stealth scripts, diagnostics; evidence
  thresholds are one bound (`ManyActs`); the recognition of a challenge.
- Ladder: actual prices, the numbers of the time limits, parsing, the return
  date (checked as the departure is), the observer of the coordination mode.
- LLM client: metric rows, the counter of vision validation failures, which
  nothing in the runtime asks.
- Agent engine: the scenario has its answer; within it the cool-down has no
  effect and no state is left to model. LLM attempt budget: its decider is
  called by tests only, and its two uses raise, which the ladder models.
- Stores of plans and knowledge, selector hints, policy statistics: JSON files
  read, changed and rewritten whole, as hints without a protocol; AdaptivePolicy
  models the one whose contents steer the next run.
- Prompts, adapters, plugin registry, coordination router, triage and
  knowledge-base tools: text work, lookups and offline tools.

## What would come next

1. A composition of ServiceRun with PriceWatch and Retention over several runs:
   the price compared with is the last one reported unless its row was swept.
2. The reconciliation of roles in `plan_hygiene.py`, so that plans start from
   what is stored and not from what is left of it; with it, a theorem that a
   bound plan keeps the order of the departure and the search.

----------------------------- MODULE ServiceRun -----------------------------
(***************************************************************************)
(* One run of the monitor, main.py: main, run_multi_service and the loop   *)
(* of _run_multi_service_impl over trips and services.  A job is one trip  *)
(* searched on one service.  What happens inside a job before a result is  *)
(* there is CandidateLoop (the page) and Salvage (the extraction); here    *)
(* those are one step each, which succeeds or raises.                      *)
(*                                                                         *)
(* The model keeps which exceptions the per-job handler sees, which ones   *)
(* pass it by and lose the run, and what has been written by then.  The    *)
(* Ctrl-C of an operator is an exception that no "except Exception" sees.  *)
(***************************************************************************)
EXTENDS Naturals, Sequences, FiniteSets

CONSTANTS
    Selected,     \* the services of the run, in order
    Trips,        \* how many trip plans the run covers
    Prices,       \* the prices an extraction can find
    NoPrice,      \* ... and the result without one
    DebugMode     \* whether a run episode wraps the run

ASSUME RunAssumption ==
    /\ Selected \in Seq(STRING) /\ Selected # <<>>
    /\ Trips \in Nat \ {0}
    /\ NoPrice \notin Prices
    /\ DebugMode \in BOOLEAN

VARIABLES
    stage,        \* where the run stands
    fate,         \* "running", "returned" from run_multi_service, or "lost"
    result,       \* what the current job's extraction found
    rows,         \* rows of the runs table written by this run
    outputs,      \* the payloads collected so far
    alerted,      \* jobs an alert was sent for
    learned,      \* outcomes recorded in the adaptive policy, per service
    evidence,     \* whether FLIGHT_WATCHER_EVIDENCE_RUN_ID is set
    profile       \* the active threshold profile

vars == <<stage, fate, result, rows, outputs, alerted, learned, evidence, profile>>

Services == {Selected[i] : i \in DOMAIN Selected}
JobCount == Trips * Len(Selected)
Results == Prices \cup {NoPrice}
ServiceOf(j) == Selected[((j - 1) % Len(Selected)) + 1]

\* The job at hand is the first one that has no payload yet.
Job == Len(outputs) + 1

InTry == {"scenario", "extraction", "save", "alert", "report", "handle", "learn"}
InRun == InTry \cup {"setup", "configure", "sweep"}
Ended == {"printed", "aborted"}

Init ==
    /\ stage = "start"
    /\ fate = "running"
    /\ result = NoPrice
    /\ rows = {}
    /\ outputs = <<>>
    /\ alerted = {}
    /\ learned = [s \in Services |-> [ok |-> 0, error |-> 0]]
    /\ evidence = FALSE
    /\ profile = "default"

-----------------------------------------------------------------------------
(* Ways out *)

\* The evidence variable is dropped at the end of the try, not in a finally.
EscapeWithEvidence ==
    /\ stage' = "closing"
    /\ fate' = "lost"
    /\ UNCHANGED <<result, rows, outputs, alerted, learned, evidence, profile>>

\* An exception that leaves the loop: finally drops the evidence variable, the
\* payloads go with the frame, and only the clean-up of the callers is left.
Escape ==
    /\ stage' = "closing"
    /\ fate' = "lost"
    /\ evidence' = FALSE
    /\ UNCHANGED <<result, rows, outputs, alerted, learned, profile>>

\* An exception of a job that its own handler will see.
Raise ==
    /\ stage' = "handle"
    /\ UNCHANGED <<fate, result, rows, outputs, alerted, learned, evidence, profile>>

Interrupt ==
    /\ stage \in InRun
    /\ Escape

-----------------------------------------------------------------------------
(* run_multi_service and what comes before the loop *)

\* The first enforce_storage_limits, the arguments, the threshold profile and
\* the episode: nothing closes an episode whose first event fails.
Prepare ==
    /\ stage = "start"
    /\ \/ /\ stage' = "setup"
          /\ profile' = "run"
          /\ UNCHANGED fate
       \/ /\ stage' = "release"
          /\ fate' = "lost"
          /\ profile' \in {"default", "run"}
    /\ UNCHANGED <<result, rows, outputs, alerted, learned, evidence>>

\* Services, alert configuration, trip plans and init_db.
Setup ==
    /\ stage = "setup"
    /\ \/ /\ stage' = "configure"
          /\ UNCHANGED <<fate, result, rows, outputs, alerted, learned, evidence, profile>>
       \/ Escape

-----------------------------------------------------------------------------
(* One job *)

\* The adaptive profile and the time limit are computed before the try.
Configure ==
    /\ stage = "configure"
    /\ Job <= JobCount
    /\ \/ /\ stage' = "scenario"
          /\ evidence' = TRUE
          /\ UNCHANGED <<fate, result, rows, outputs, alerted, learned, profile>>
       \/ Escape

Navigate ==
    /\ stage = "scenario"
    /\ \/ /\ stage' = "extraction"
          /\ UNCHANGED <<fate, result, rows, outputs, alerted, learned, evidence, profile>>
       \/ Raise

\* Extraction, salvage, the evidence checkpoint, the saved pages and the query
\* for the previous price.
Extract ==
    /\ stage = "extraction"
    /\ \/ /\ stage' = "save"
          /\ result' \in Results
          /\ UNCHANGED <<fate, rows, outputs, alerted, learned, evidence, profile>>
       \/ Raise

NewRow == [job |-> Job, price |-> result]

\* A failing save_run is logged and the job goes on.
SaveRunBestEffort ==
    /\ stage = "save"
    /\ rows' \in {rows, rows \cup {NewRow}}
    /\ stage' = "alert"
    /\ UNCHANGED <<fate, result, outputs, alerted, learned, evidence, profile>>

\* save_run commits the row, then prunes the database: both parts can raise.
SaveRun ==
    /\ stage = "save"
    /\ \/ /\ rows' = rows \cup {NewRow}
          /\ stage' \in {"alert", "handle"}
          /\ UNCHANGED <<fate, result, outputs, alerted, learned, evidence, profile>>
       \/ Raise

\* evaluate_alert, and dispatch_alert when it says so.
Alert ==
    /\ stage = "alert"
    /\ \/ /\ stage' = "report"
          /\ alerted' \in {alerted, alerted \cup {Job}}
          /\ UNCHANGED <<fate, result, rows, outputs, learned, evidence, profile>>
       \/ Raise

Payload(status, price) == [job |-> Job, status |-> status, price |-> price]

Report ==
    /\ stage = "report"
    /\ outputs' = Append(outputs, Payload("ok", result))
    /\ stage' = "learn"
    /\ UNCHANGED <<fate, result, rows, alerted, learned, evidence, profile>>

\* The handler writes debug pages and events before it appends the payload.
HandleError ==
    /\ stage = "handle"
    /\ \/ /\ outputs' = Append(outputs, Payload("error", NoPrice))
          /\ stage' = "learn"
          /\ UNCHANGED <<fate, result, rows, alerted, learned, evidence, profile>>
       \/ DebugMode /\ Escape

LastOutput == outputs[Len(outputs)]

\* record_service_outcome is best effort, and then finally.
Learn ==
    /\ stage = "learn"
    /\ \/ learned' = [learned EXCEPT ![ServiceOf(LastOutput.job)][LastOutput.status] = @ + 1]
       \/ UNCHANGED learned
    /\ evidence' = FALSE
    /\ result' = NoPrice
    /\ stage' = IF Job <= JobCount THEN "configure" ELSE "sweep"
    /\ UNCHANGED <<fate, rows, outputs, alerted, profile>>

-----------------------------------------------------------------------------
(* After the loop *)

\* enforce_storage_limits once more, the default profile, and the return.
Sweep ==
    /\ stage = "sweep"
    /\ \/ /\ stage' = "closing"
          /\ profile' = "default"
          /\ UNCHANGED <<fate, result, rows, outputs, alerted, learned, evidence>>
       \/ Escape

\* A return in the finally swallows the exception.
CloseAndReturn ==
    /\ stage = "closing"
    /\ stage' = "release"
    /\ fate' = "returned"
    /\ UNCHANGED <<result, rows, outputs, alerted, learned, evidence, profile>>

\* The finally of run_multi_service: with an episode it can raise itself.
Close ==
    /\ stage = "closing"
    /\ stage' = "release"
    /\ \/ fate' = IF fate = "running" THEN "returned" ELSE fate
       \/ DebugMode /\ fate' = "lost"
    /\ UNCHANGED <<result, rows, outputs, alerted, learned, evidence, profile>>

\* The finally of main, and the summary on stdout if there is one.
Release ==
    /\ stage = "release"
    /\ profile' = "default"
    /\ stage' = IF fate = "returned" THEN "printed" ELSE "aborted"
    /\ UNCHANGED <<fate, result, rows, outputs, alerted, learned, evidence>>

Work ==
    \/ Prepare
    \/ Setup
    \/ Configure
    \/ Navigate
    \/ Extract
    \/ SaveRun
    \/ Alert
    \/ Report
    \/ HandleError
    \/ Learn
    \/ Sweep
    \/ Close
    \/ Release

Next == Work \/ Interrupt

Spec == Init /\ [][Next]_vars /\ WF_vars(Work)

-----------------------------------------------------------------------------
(* Properties *)

TypeOK ==
    /\ stage \in InRun \cup Ended \cup {"start", "closing", "release"}
    /\ fate \in {"running", "returned", "lost"}
    /\ result \in Results
    /\ rows \in SUBSET [job : 1 .. JobCount, price : Results]
    /\ outputs \in Seq([job : 1 .. JobCount, status : {"ok", "error"}, price : Results])
    /\ alerted \in SUBSET (1 .. JobCount)
    /\ learned \in [Services -> [ok : Nat, error : Nat]]
    /\ evidence \in BOOLEAN
    /\ profile \in {"default", "run"}

RowsOf(j) == {row \in rows : row.job = j}
OneRow(j, price) == RowsOf(j) = {[job |-> j, price |-> price]}

\* Each job is reported exactly once and in order: the handler of a job never
\* adds a second payload to one that has been reported, and none is skipped.
ReportedOnce ==
    /\ \A i \in DOMAIN outputs : outputs[i].job = i
    /\ Len(outputs) <= JobCount
    /\ fate = "returned" => Len(outputs) = JobCount

\* A result that is reported is the one row of its job in the runs table, and a
\* failed job leaves at most one row: the table and the summary agree on what
\* was seen, whatever raised after the commit.
ReportsAreStored ==
    \A i \in DOMAIN outputs :
        IF outputs[i].status = "ok" THEN OneRow(i, outputs[i].price)
        ELSE RowsOf(i) = {} \/ \E p \in Results : OneRow(i, p)

\* Whichever way a run ends, the evidence variable and the threshold profile of
\* the run do not outlive it, nor does the variable outlive its job.
NothingLeftBehind ==
    /\ evidence => stage \in InTry
    /\ stage \in Ended => profile = "default"

-----------------------------------------------------------------------------
Ledger == INSTANCE RunLedger WITH ledger <- rows, reports <- outputs

\* A run does what RunLedger promises to its caller.
ImplementsLedger == Ledger!LedgerSpec
=============================================================================

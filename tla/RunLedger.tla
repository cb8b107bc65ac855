------------------------------ MODULE RunLedger ------------------------------
(***************************************************************************)
(* What a caller of run_multi_service (main.py) may rely on, said without  *)
(* its steps: the jobs of a run are dealt with one after the other, each   *)
(* is reported once, a result is only reported once it is in the runs      *)
(* table, and the caller gets the reports of all of the jobs or none.      *)
(***************************************************************************)
EXTENDS Naturals, Sequences

CONSTANTS
    JobCount,    \* how many (trip, service) pairs the run covers
    Results      \* what an extraction can find: prices, and "no price"

VARIABLES
    ledger,      \* the rows of the runs table written by this run
    reports,     \* the outputs of the run so far, in order
    fate         \* "running", "returned" to the caller, or "lost"

ledgerVars == <<ledger, reports, fate>>

Current == Len(reports) + 1
Rows(j) == {row \in ledger : row.job = j}

LedgerInit ==
    /\ ledger = {}
    /\ reports = <<>>
    /\ fate = "running"

Persist ==
    /\ fate = "running"
    /\ Current <= JobCount
    /\ Rows(Current) = {}
    /\ \E r \in Results : ledger' = ledger \cup {[job |-> Current, price |-> r]}
    /\ UNCHANGED <<reports, fate>>

ReportResult ==
    /\ fate = "running"
    /\ \E row \in Rows(Current) :
           reports' = Append(reports, [job    |-> Current,
                                       status |-> "ok",
                                       price  |-> row.price])
    /\ UNCHANGED <<ledger, fate>>

ReportError(noPrice) ==
    /\ fate = "running"
    /\ Current <= JobCount
    /\ reports' = Append(reports, [job    |-> Current,
                                   status |-> "error",
                                   price  |-> noPrice])
    /\ UNCHANGED <<ledger, fate>>

HandOver ==
    /\ fate = "running"
    /\ Len(reports) = JobCount
    /\ fate' = "returned"
    /\ UNCHANGED <<ledger, reports>>

Lose ==
    /\ fate = "running"
    /\ fate' = "lost"
    /\ UNCHANGED <<ledger, reports>>

LedgerNext ==
    \/ Persist
    \/ ReportResult
    \/ \E r \in Results : ReportError(r)
    \/ HandOver
    \/ Lose

LedgerSpec == LedgerInit /\ [][LedgerNext]_ledgerVars
=============================================================================

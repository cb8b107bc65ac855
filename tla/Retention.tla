----------------------------- MODULE Retention -----------------------------
(***************************************************************************)
(* How storage/runs.py keeps runs.db bounded: enforce_db_limits prunes the *)
(* tables of runs and of LLM metrics by age and by row count, then, while  *)
(* the file is too large, by chunks of their oldest rows, and at last      *)
(* rebuilds the file.  A run is swept after every row it saves, metrics    *)
(* only when a run begins or ends (main.py) or from the maintenance CLI.   *)
(*                                                                         *)
(* One process uses the database at a time.  A row is known by its number, *)
(* in the order of insertion, which is the order of created_at; only the   *)
(* oldest rows are ever deleted, so a table is its first remaining row.    *)
(* SQLite is external: a row takes one unit of the file, a deleted row     *)
(* leaves its unit to later rows, and only VACUUM makes the file smaller.  *)
(* A sweep takes no time on the scale of days.                             *)
(***************************************************************************)
EXTENDS Integers, Sequences, FiniteSets, FiniteSetsExt

CONSTANTS
    MaxAge,    \* days: runs_db_max_age_days, llm_metrics_db_max_age_days
    MaxRows,   \* runs_db_max_rows, llm_metrics_db_max_rows, 0 for no limit
    MinRows,   \* runs_db_min_rows_to_keep, llm_metrics_db_min_rows_to_keep
    MaxBytes,  \* runs_db_max_bytes, 0 for no limit
    MinChunk,  \* the literal 500 of the size pass
    Share,     \* the literal 20: a chunk is at least this share of a table
    MaxTime,   \* bound: how far the clock runs
    MaxInserts \* bound: rows ever inserted into a table

Tables == {"runs", "metrics"}

ASSUME RetentionAssumption ==
    /\ {MaxAge, MaxRows, MinRows, MaxInserts} \subseteq [Tables -> Nat]
    /\ {MaxBytes, MaxTime} \subseteq Nat
    /\ {MinChunk, Share} \subseteq Nat \ {0}

VARIABLES
    now,    \* the day
    born,   \* history: created_at of every row ever inserted, by table
    first,  \* the number of the oldest row still there, by table
    size,   \* DB_PATH.stat().st_size
    phase   \* where enforce_db_limits is; "swept" when it has just ended

vars == <<now, born, first, size, phase>>

-----------------------------------------------------------------------------
Bigger(a, b) == IF a > b THEN a ELSE b
Smaller(a, b) == IF a < b THEN a ELSE b

Rows(t) == first[t] .. Len(born[t])
Count(t) == Len(born[t]) - first[t] + 1
Live == Count("runs") + Count("metrics")

AtRest == phase \in {"idle", "swept"}

Old(t, i) == MaxAge[t] > 0 /\ now - born[t][i] > MaxAge[t]

(* The first row of t that is not too old and among the max_rows newest.     *)
FirstWithinLimits(t) ==
    LET young == Min({i \in Rows(t) : ~Old(t, i)} \cup {Len(born[t]) + 1})
        over  == Len(born[t]) + 1 - young - MaxRows[t]
    IN  IF MaxRows[t] > 0 /\ over > 0 THEN young + over ELSE young

FloorZero(t) == MinRows[t]

Floor(t) == Bigger(MinRows[t], 1)

CanPrune(t) == Count(t) > Floor(t)

TooLarge == MaxBytes > 0 /\ size > MaxBytes

(* The metrics go first while there are as many of them as of runs.          *)
CutTable ==
    IF CanPrune("metrics") /\ (~CanPrune("runs") \/ Count("metrics") >= Count("runs"))
      THEN "metrics" ELSE "runs"

Chunk(t) == Smaller(Bigger(MinChunk, Count(t) \div Share), Count(t) - Floor(t))

-----------------------------------------------------------------------------
Insert(t) ==
    /\ Len(born[t]) < MaxInserts[t]
    /\ born' = [born EXCEPT ![t] = Append(@, now)]
    /\ size' = Bigger(size, Live + 1)
    /\ UNCHANGED <<now, first>>

(* save_run commits the row and sweeps.                                      *)
SaveRun ==
    /\ AtRest
    /\ Insert("runs")
    /\ phase' = "age"

(* save_llm_metric only commits the row.                                     *)
SaveMetric ==
    /\ AtRest
    /\ Insert("metrics")
    /\ phase' = "idle"

(* enforce_storage_limits, when a run begins or ends or from the CLI.        *)
StartSweep ==
    /\ AtRest
    /\ phase' = "age"
    /\ UNCHANGED <<now, born, first, size>>

PruneByAge ==
    /\ phase = "age"
    /\ first' = [t \in Tables |-> FirstWithinLimits(t)]
    /\ phase' = "size"
    /\ UNCHANGED <<now, born, size>>

CutChunk ==
    /\ phase = "size"
    /\ TooLarge
    /\ \E t \in Tables : CanPrune(t)
    /\ first' = [first EXCEPT ![CutTable] = @ + Chunk(CutTable)]
    /\ UNCHANGED <<now, born, size, phase>>

EndCuts ==
    /\ phase = "size"
    /\ ~TooLarge \/ \A t \in Tables : ~CanPrune(t)
    /\ phase' = IF TooLarge THEN "vacuum" ELSE "swept"
    /\ UNCHANGED <<now, born, first, size>>

Vacuum ==
    /\ phase = "vacuum"
    /\ size' = Live
    /\ phase' = "swept"
    /\ UNCHANGED <<now, born, first>>

(* The process ends, or SQLite raises: what was committed stays, the rest of *)
(* the sweep is left to the next one.                                        *)
Abort ==
    /\ ~AtRest
    /\ phase' = "idle"
    /\ UNCHANGED <<now, born, first, size>>

NextDay ==
    /\ AtRest
    /\ now < MaxTime
    /\ now' = now + 1
    /\ phase' = "idle"
    /\ UNCHANGED <<born, first, size>>

Init ==
    /\ now = 0
    /\ born = [t \in Tables |-> <<>>]
    /\ first = [t \in Tables |-> 1]
    /\ size = 0
    /\ phase = "idle"

Sweep == PruneByAge \/ CutChunk \/ EndCuts \/ Vacuum

Next == SaveRun \/ SaveMetric \/ StartSweep \/ Sweep \/ Abort \/ NextDay

Spec == Init /\ [][Next]_vars

-----------------------------------------------------------------------------
(* Properties *)

TypeOK ==
    /\ now \in 0 .. MaxTime
    /\ born \in [Tables -> Seq(0 .. now)]
    /\ first \in [Tables -> Nat \ {0}]
    /\ \A t \in Tables : first[t] <= Len(born[t]) + 1
    /\ size \in Nat /\ size >= Live
    /\ phase \in {"idle", "age", "size", "vacuum", "swept"}

(* min_rows_to_keep is a promise: as many of the newest rows as it says, and *)
(* at least the newest one, outlive every sweep, cut short or not, until     *)
(* they are too old.  The last price of a route and the timeouts the         *)
(* adaptive policy counts are read from them.                                *)
RecentKept ==
    \A t \in Tables :
        LET promised == IF MinRows[t] = 0 THEN 1
                        ELSE IF MaxRows[t] > 0 /\ MaxRows[t] < MinRows[t] THEN MaxRows[t]
                        ELSE MinRows[t]
        IN  \A i \in DOMAIN born[t] :
                i > Len(born[t]) - promised /\ (MaxAge[t] = 0 \/ now - born[t][i] <= MaxAge[t])
                    => i \in Rows(t)
=============================================================================

---------------------------- MODULE MCRetention ----------------------------
(* Retention with a handful of rows: the runs may go down to their newest    *)
(* row, two metrics must be kept, and the file holds three rows.              *)
EXTENDS Retention

Limits(runs, metrics) == [t \in Tables |-> IF t = "runs" THEN runs ELSE metrics]

MCMaxAge == Limits(2, 1)
MCMaxRows == Limits(3, 0)
MCMinRows == Limits(0, 2)
MCMaxInserts == Limits(4, 4)
=============================================================================

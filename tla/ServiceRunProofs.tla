-------------------------- MODULE ServiceRunProofs --------------------------
(***************************************************************************)
(* Proofs about the two modules of main.py.                                *)
(*                                                                         *)
(* ServiceRun, for any services, trips and prices: a run does what         *)
(* RunLedger promises, reports each job once, and reports what it has      *)
(* stored.                                                                 *)
(*                                                                         *)
(* CandidateLoop, for every list length, every limit and every set of      *)
(* scenario durations.  RootCauseNotHidden and CallsBounded are not        *)
(* inductive: they rest on what is known of the last call at each place of *)
(* the loop (LastCall), on the order in which the two retry flags are      *)
(* spent (Flags), and on how many calls each URL may have cost so far      *)
(* (CallCount); CostlyRetryNotRepeated rests on what a costly retry leaves *)
(* behind (CostSpent).                                                     *)
(***************************************************************************)
EXTENDS ServiceRun, CandidateLoop, TLAPS

\* The stages of a job before save_run has committed its row.
BeforeCommit == {"start", "setup", "configure", "scenario", "extraction", "save"}

\* The part of the type invariant that concerns the reports and the table.
ReportTypes ==
    /\ stage \in InRun \cup Ended \cup {"start", "closing", "release"}
    /\ fate \in {"running", "returned", "lost"}
    /\ result \in Results
    /\ rows \in SUBSET [job : 1 .. JobCount, price : Results]
    /\ outputs \in Seq([job : 1 .. JobCount, status : {"ok", "error"}, price : Results])

\* How far a run has come at each stage.
Progress ==
    /\ Len(outputs) <= JobCount
    /\ stage \in InTry \ {"learn"} => Job <= JobCount
    /\ stage = "sweep" => Len(outputs) = JobCount
    /\ stage \in InRun \cup {"start"} => fate = "running"
    /\ stage \in {"closing", "release"} /\ fate # "lost" => Len(outputs) = JobCount
    /\ stage = "learn" => Len(outputs) >= 1
    /\ fate = "returned" => Len(outputs) = JobCount /\ stage \in {"release"} \cup Ended
    /\ stage \in {"release"} \cup Ended => fate # "running"

\* What the table holds about the job at hand.
CurrentRow ==
    /\ \A row \in rows : row.job <= Job
    /\ stage \in BeforeCommit \cup {"learn", "sweep"} => RowsOf(Job) = {}
    /\ stage \in {"alert", "report"} => OneRow(Job, result)
    /\ stage = "handle" => RowsOf(Job) = {} \/ \E p \in Results : OneRow(Job, p)

InOrder == \A i \in DOMAIN outputs : outputs[i].job = i

IInv == ReportTypes /\ Progress /\ CurrentRow /\ InOrder /\ ReportsAreStored

\* The number of jobs is a positive number.
LEMMA JobCountType == JobCount \in Nat /\ JobCount >= 1
<1>1. Len(Selected) \in Nat /\ Len(Selected) >= 1
  BY RunAssumption
<1>2. \A a, b \in Nat : a >= 1 /\ b >= 1 => a * b \in Nat /\ a * b >= 1
  OBVIOUS
<1>3. QED
  BY <1>1, <1>2, RunAssumption DEF JobCount

\* The invariant holds when the program starts.
LEMMA InvInit == Init => IInv
BY JobCountType DEF Init, IInv, ReportTypes, Progress, CurrentRow, InOrder,
   ReportsAreStored, Results, InRun, InTry, Ended, Job, RowsOf, BeforeCommit

\* What a step that writes neither rows nor payloads leaves as it is.
LEMMA SameTable ==
  ASSUME UNCHANGED <<rows, outputs>>
  PROVE  /\ Job' = Job
         /\ RowsOf(Job)' = RowsOf(Job)
         /\ \A p : OneRow(Job, p)' = OneRow(Job, p)
         /\ InOrder => InOrder'
         /\ ReportsAreStored => ReportsAreStored'
BY DEF Job, RowsOf, OneRow, InOrder, ReportsAreStored

\* An escape from the loop leaves what was written as it is.
LEMMA EscapeKeepsInv ==
  ASSUME IInv, stage \in InRun, Escape
  PROVE  IInv'
<1>1. UNCHANGED <<rows, outputs, result>> /\ stage' = "closing" /\ fate' = "lost"
  BY DEF Escape
<1>2. ReportTypes'
  BY <1>1 DEF IInv, ReportTypes
<1>3. Progress'
  BY <1>1 DEF IInv, Progress, InRun, InTry, Ended
<1>4. CurrentRow'
  BY <1>1, SameTable DEF IInv, CurrentRow, BeforeCommit
<1>5. QED
  BY <1>1, <1>2, <1>3, <1>4, SameTable DEF IInv

\* A step of a job up to the save that writes nothing, into the handler or on.
LEMMA UnwrittenStep ==
  ASSUME IInv, UNCHANGED <<rows, outputs, fate>>, result' \in Results,
         stage \in BeforeCommit \ {"start"},
         stage' \in (BeforeCommit \ {"start"}) \cup {"handle"},
         stage' \in {"setup", "configure"} \/ Job <= JobCount
  PROVE  IInv'
<1>1. ReportTypes'
  BY DEF IInv, ReportTypes, BeforeCommit, InRun, InTry
<1>2. Progress'
  BY SameTable DEF IInv, Progress, BeforeCommit, InRun, InTry, Ended
<1>3. CurrentRow'
  BY SameTable DEF IInv, CurrentRow, BeforeCommit
<1>4. QED
  BY <1>1, <1>2, <1>3, SameTable DEF IInv

\* A row that is committed is the one row of the job at hand.
LEMMA CommitKeepsInv ==
  ASSUME IInv, stage = "save", rows' = rows \cup {NewRow},
         stage' \in {"alert", "handle"}, UNCHANGED <<fate, result, outputs>>
  PROVE  IInv'
<1>1. Job \in 1 .. JobCount /\ result \in Results /\ Job' = Job
  BY JobCountType DEF IInv, ReportTypes, Progress, InTry, Job
<1>2. ReportTypes'
  BY <1>1 DEF IInv, ReportTypes, InRun, InTry, NewRow
<1>3. Progress'
  BY <1>1 DEF IInv, Progress, InRun, InTry, Ended
<1>4. \A j : j # Job => RowsOf(j)' = RowsOf(j)
  BY <1>1 DEF RowsOf, NewRow
<1>5. RowsOf(Job)' = {NewRow}
  BY <1>1 DEF IInv, CurrentRow, BeforeCommit, RowsOf, NewRow
<1>6. CurrentRow'
  <2>1. \A row \in rows' : row.job <= Job'
    BY <1>1 DEF IInv, CurrentRow, NewRow
  <2>2. OneRow(Job, result)'
    BY <1>1, <1>5 DEF OneRow, NewRow
  <2>3. QED
    BY <1>1, <2>1, <2>2 DEF CurrentRow, BeforeCommit
<1>7. InOrder'
  BY DEF IInv, InOrder
<1>8. ReportsAreStored'
  <2>1. \A i \in DOMAIN outputs : i # Job
    BY DEF IInv, ReportTypes, Job
  <2>2. QED
    BY <1>4, <2>1 DEF IInv, ReportsAreStored, OneRow
<1>9. QED
  BY <1>2, <1>3, <1>6, <1>7, <1>8 DEF IInv

\* A payload that is appended is the next one, and agrees with the table.
LEMMA AppendKeepsInv ==
  ASSUME IInv, NEW status \in {"ok", "error"}, NEW price \in Results,
         stage \in InTry \ {"learn"}, stage' = "learn",
         outputs' = Append(outputs, Payload(status, price)),
         UNCHANGED <<fate, result, rows>>,
         status = "ok" => OneRow(Job, price),
         status = "error" => RowsOf(Job) = {} \/ \E p \in Results : OneRow(Job, p)
  PROVE  IInv'
<1>1. /\ Job \in 1 .. JobCount /\ Len(outputs) \in Nat
      /\ Len(outputs') = Job /\ Job' = Job + 1
      /\ DOMAIN outputs' = 1 .. Job
      /\ DOMAIN outputs = 1 .. Len(outputs)
      /\ \A i \in DOMAIN outputs : outputs'[i] = outputs[i]
      /\ outputs'[Job] = Payload(status, price)
  BY JobCountType DEF IInv, ReportTypes, Progress, InTry, Job
<1>2. ReportTypes'
  <2>1. Payload(status, price) \in
          [job : 1 .. JobCount, status : {"ok", "error"}, price : Results]
    BY <1>1 DEF Payload
  <2>2. QED
    BY <2>1 DEF IInv, ReportTypes, InRun, InTry
<1>3. Progress'
  <2>1. Len(outputs') <= JobCount /\ Len(outputs') >= 1
    BY <1>1, JobCountType
  <2>2. fate = "running"
    BY DEF IInv, Progress, InRun
  <2>3. QED
    BY <2>1, <2>2 DEF Progress, InRun, InTry, Ended
<1>4. \A j : RowsOf(j)' = RowsOf(j)
  BY DEF RowsOf
<1>5. CurrentRow'
  <2>1. \A row \in rows : row.job \in 1 .. JobCount /\ row.job <= Job
    BY DEF IInv, ReportTypes, CurrentRow
  <2>2. \A row \in rows' : row.job <= Job'
    BY <1>1, <2>1
  <2>3. RowsOf(Job)' = {}
    BY <1>1, <2>1 DEF RowsOf
  <2>4. QED
    BY <2>2, <2>3 DEF CurrentRow, BeforeCommit
<1>6. InOrder'
  BY <1>1 DEF IInv, InOrder, Job, Payload
<1>7. ReportsAreStored'
  <2>1. ASSUME NEW i \in DOMAIN outputs'
        PROVE  IF outputs'[i].status = "ok" THEN OneRow(i, outputs'[i].price)
               ELSE RowsOf(i) = {} \/ \E p \in Results : OneRow(i, p)
    <3>1. CASE i = Job
      BY <1>1, <3>1 DEF Payload
    <3>2. CASE i # Job
      BY <1>1, <2>1, <3>2 DEF IInv, ReportsAreStored, Job
    <3>3. QED
      BY <3>1, <3>2
  <2>2. QED
    BY <1>4, <2>1 DEF ReportsAreStored, OneRow
<1>8. QED
  BY <1>2, <1>3, <1>5, <1>6, <1>7 DEF IInv

\* Every step keeps the invariant.
LEMMA InvNext == IInv /\ [Next]_vars => IInv'
<1>. SUFFICES ASSUME IInv, [Next]_vars PROVE IInv'
  OBVIOUS
<1>. result \in Results /\ NoPrice \in Results /\ JobCount \in Nat /\ JobCount >= 1
  BY JobCountType DEF IInv, ReportTypes, Results
<1>1. CASE Prepare
  <2>1. UNCHANGED <<rows, outputs, result>> /\ stage = "start"
    BY <1>1 DEF Prepare
  <2>2. ReportTypes'
    BY <1>1, <2>1 DEF Prepare, IInv, ReportTypes, InRun, InTry
  <2>3. Progress'
    BY <1>1, <2>1 DEF Prepare, IInv, Progress, InRun, InTry, Ended
  <2>4. CurrentRow'
    BY <1>1, <2>1, SameTable DEF Prepare, IInv, CurrentRow, BeforeCommit
  <2>5. QED
    BY <2>1, <2>2, <2>3, <2>4, SameTable DEF IInv
<1>2. CASE Setup
  <2>1. CASE Escape
    BY <1>2, <2>1, EscapeKeepsInv DEF Setup, InRun
  <2>2. CASE stage' = "configure" /\ UNCHANGED <<fate, result, rows, outputs>>
    BY <1>2, <2>2, UnwrittenStep DEF Setup, BeforeCommit
  <2>3. QED
    BY <1>2, <2>1, <2>2 DEF Setup
<1>3. CASE Configure
  <2>1. CASE Escape
    BY <1>3, <2>1, EscapeKeepsInv DEF Configure, InRun
  <2>2. CASE stage' = "scenario" /\ UNCHANGED <<fate, result, rows, outputs>>
    BY <1>3, <2>2, UnwrittenStep DEF Configure, BeforeCommit
  <2>3. QED
    BY <1>3, <2>1, <2>2 DEF Configure
<1>4. CASE Navigate
  <2>1. Job <= JobCount
    BY <1>4 DEF Navigate, IInv, Progress, InTry
  <2>2. QED
    BY <1>4, <2>1, UnwrittenStep DEF Navigate, Raise, BeforeCommit
<1>5. CASE Extract
  <2>1. Job <= JobCount
    BY <1>5 DEF Extract, IInv, Progress, InTry
  <2>2. QED
    BY <1>5, <2>1, UnwrittenStep DEF Extract, Raise, BeforeCommit
<1>6. CASE SaveRun
  <2>1. Job <= JobCount
    BY <1>6 DEF SaveRun, IInv, Progress, InTry
  <2>2. CASE Raise
    BY <1>6, <2>1, <2>2, UnwrittenStep DEF SaveRun, Raise, BeforeCommit
  <2>3. CASE ~Raise
    BY <1>6, <2>3, CommitKeepsInv DEF SaveRun
  <2>4. QED
    BY <2>2, <2>3
<1>7. CASE Alert
  <2>1. /\ UNCHANGED <<rows, outputs, result, fate>> /\ stage = "alert"
        /\ stage' \in {"report", "handle"}
    BY <1>7 DEF Alert, Raise
  <2>2. ReportTypes'
    BY <2>1 DEF IInv, ReportTypes, InRun, InTry
  <2>3. Progress'
    BY <2>1, SameTable DEF IInv, Progress, InRun, InTry, Ended
  <2>4. CurrentRow'
    BY <2>1, SameTable DEF IInv, CurrentRow, BeforeCommit
  <2>5. QED
    BY <2>1, <2>2, <2>3, <2>4, SameTable DEF IInv
<1>8. CASE Report
  <2>1. OneRow(Job, result)
    BY <1>8 DEF Report, IInv, CurrentRow
  <2>2. QED
    BY <1>8, <2>1, AppendKeepsInv DEF Report, InTry
<1>9. CASE HandleError
  <2>1. RowsOf(Job) = {} \/ \E p \in Results : OneRow(Job, p)
    BY <1>9 DEF HandleError, IInv, CurrentRow
  <2>2. CASE Escape
    BY <1>9, <2>2, EscapeKeepsInv DEF HandleError, InRun, InTry
  <2>3. CASE ~Escape
    BY <1>9, <2>1, <2>3, AppendKeepsInv DEF HandleError, InTry
  <2>4. QED
    BY <2>2, <2>3
<1>10. CASE Learn
  <2>1. /\ UNCHANGED <<rows, outputs, fate>> /\ stage = "learn" /\ result' = NoPrice
        /\ stage' = IF Job <= JobCount THEN "configure" ELSE "sweep"
    BY <1>10 DEF Learn
  <2>2. ReportTypes'
    BY <2>1 DEF IInv, ReportTypes, InRun, InTry
  <2>3. Len(outputs) \in Nat
    BY DEF IInv, ReportTypes
  <2>4. Progress'
    BY <2>1, <2>3 DEF IInv, Progress, InRun, InTry, Ended, Job
  <2>5. CurrentRow'
    BY <2>1, SameTable DEF IInv, CurrentRow, BeforeCommit
  <2>6. QED
    BY <2>1, <2>2, <2>4, <2>5, SameTable DEF IInv
<1>11. CASE Sweep
  <2>1. CASE Escape
    BY <1>11, <2>1, EscapeKeepsInv DEF Sweep, InRun
  <2>2. CASE ~Escape
    <3>1. /\ UNCHANGED <<rows, outputs, result, fate>> /\ stage = "sweep"
          /\ stage' = "closing"
      BY <1>11, <2>2 DEF Sweep
    <3>2. ReportTypes'
      BY <3>1 DEF IInv, ReportTypes
    <3>3. Progress'
      BY <3>1 DEF IInv, Progress, InRun, InTry, Ended
    <3>4. CurrentRow'
      BY <3>1, SameTable DEF IInv, CurrentRow, BeforeCommit
    <3>5. QED
      BY <3>1, <3>2, <3>3, <3>4, SameTable DEF IInv
  <2>3. QED
    BY <2>1, <2>2
<1>12. CASE Close \/ Release
  <2>1. /\ UNCHANGED <<rows, outputs, result>>
        /\ stage \in {"closing", "release"}
        /\ stage' \in {"release"} \cup Ended
    BY <1>12 DEF Close, Release, Ended
  <2>2. ReportTypes'
    BY <1>12, <2>1 DEF Close, Release, IInv, ReportTypes
  <2>3. Progress'
    BY <1>12, <2>1 DEF Close, Release, IInv, Progress, ReportTypes, InRun, InTry, Ended
  <2>4. CurrentRow'
    BY <2>1, SameTable DEF IInv, CurrentRow, BeforeCommit, Ended
  <2>5. QED
    BY <2>1, <2>2, <2>3, <2>4, SameTable DEF IInv
<1>13. CASE Interrupt
  BY <1>13, EscapeKeepsInv DEF Interrupt
<1>14. CASE UNCHANGED vars
  BY <1>14 DEF vars, IInv, ReportTypes, Progress, CurrentRow, InOrder,
     ReportsAreStored, Job, RowsOf, OneRow
<1>15. QED
  BY <1>1, <1>2, <1>3, <1>4, <1>5, <1>6, <1>7, <1>8, <1>9, <1>10, <1>11, <1>12,
     <1>13, <1>14 DEF Next, Work

\* Every reachable state satisfies the invariant.
LEMMA Reachable == Spec => []IInv
BY InvInit, InvNext, PTL DEF Spec

\* The part of the type invariant that concerns alerts, outcomes and settings.
SideTypes ==
    /\ alerted \in SUBSET (1 .. JobCount)
    /\ learned \in [Services -> [ok : Nat, error : Nat]]
    /\ evidence \in BOOLEAN
    /\ profile \in {"default", "run"}

\* An outcome that is recorded leaves a count for each status of each service.
LEMMA CountsStayCounts ==
  ASSUME NEW f \in [Services -> [ok : Nat, error : Nat]],
         NEW s, NEW status \in {"ok", "error"}
  PROVE  [f EXCEPT ![s][status] = @ + 1] \in [Services -> [ok : Nat, error : Nat]]
<1>1. CASE s \notin Services
  BY <1>1
<1>2. CASE s \in Services
  <2>1. CASE status = "ok"
    BY <1>2, <2>1
  <2>2. CASE status = "error"
    BY <1>2, <2>2
  <2>3. QED
    BY <2>1, <2>2
<1>3. QED
  BY <1>1, <1>2

\* Every variable keeps its type.
THEOREM RunTypeCorrect == Spec => []TypeOK
<1>1. Init => SideTypes
  <2>1. [ok |-> 0, error |-> 0] \in [ok : Nat, error : Nat]
    OBVIOUS
  <2>2. QED
    BY <2>1 DEF Init, SideTypes
<1>2. IInv /\ SideTypes /\ [Next]_vars => SideTypes'
  <2>. SUFFICES ASSUME IInv, SideTypes, [Next]_vars PROVE SideTypes'
    OBVIOUS
  <2>1. CASE Alert
    <3>1. Job \in 1 .. JobCount
      BY <2>1, JobCountType DEF Alert, IInv, ReportTypes, Progress, InTry, Job
    <3>2. QED
      BY <2>1, <3>1 DEF Alert, Raise, SideTypes
  <2>2. CASE Learn
    <3>1. LastOutput.status \in {"ok", "error"}
      <4>1. Len(outputs) >= 1
        BY <2>2 DEF Learn, IInv, Progress
      <4>2. outputs \in Seq([job : 1 .. JobCount, status : {"ok", "error"}, price : Results])
        BY DEF IInv, ReportTypes
      <4>3. \A T : \A q \in Seq(T) : Len(q) >= 1 => q[Len(q)] \in T
        OBVIOUS
      <4>4. outputs[Len(outputs)] \in
              [job : 1 .. JobCount, status : {"ok", "error"}, price : Results]
        BY <4>1, <4>2, <4>3
      <4>5. QED
        BY <4>4 DEF LastOutput
    <3>2. learned' \in [Services -> [ok : Nat, error : Nat]]
      BY <2>2, <3>1, CountsStayCounts DEF Learn, SideTypes
    <3>3. QED
      BY <2>2, <3>2 DEF Learn, SideTypes
  <2>3. CASE Prepare \/ Setup \/ Configure \/ Navigate \/ Extract \/ SaveRun
    BY <2>3 DEF Prepare, Setup, Configure, Navigate, Extract, SaveRun, Escape, Raise, SideTypes
  <2>4. CASE Report \/ HandleError \/ Sweep \/ Close \/ Release \/ Interrupt
    BY <2>4 DEF Report, HandleError, Sweep, Close, Release, Interrupt, Escape, SideTypes
  <2>5. CASE UNCHANGED vars
    BY <2>5 DEF vars, SideTypes
  <2>6. QED
    BY <2>1, <2>2, <2>3, <2>4, <2>5 DEF Next, Work
<1>3. IInv /\ SideTypes => TypeOK
  BY DEF IInv, ReportTypes, SideTypes, TypeOK
<1>4. QED
  BY <1>1, <1>2, <1>3, Reachable, PTL DEF Spec

\* Each job is reported exactly once and in order, and a run that returns has
\* reported all of them.
THEOREM JobsReportedOnce == Spec => []ReportedOnce
<1>1. IInv => ReportedOnce
  BY DEF IInv, Progress, InOrder, ReportedOnce
<1>2. QED
  BY Reachable, <1>1, PTL

\* What the summary says of a job is what the runs table holds of it.
THEOREM ReportsMatchTable == Spec => []ReportsAreStored
<1>1. IInv => ReportsAreStored
  BY DEF IInv
<1>2. QED
  BY Reachable, <1>1, PTL

\* Neither the evidence variable nor the threshold profile outlives the run, and
\* the variable does not outlive its job, whatever raised and wherever.
THEOREM NothingOutlivesTheRun == Spec => []NothingLeftBehind
<1>1. Init => NothingLeftBehind
  BY DEF Init, NothingLeftBehind, Ended
<1>2. NothingLeftBehind /\ [Next]_vars => NothingLeftBehind'
  <2>. SUFFICES ASSUME NothingLeftBehind, [Next]_vars PROVE NothingLeftBehind'
    OBVIOUS
  <2>. USE DEF NothingLeftBehind, InTry, InRun, Ended
  <2>1. CASE Prepare \/ Setup \/ Configure \/ Sweep \/ Interrupt
    BY <2>1 DEF Prepare, Setup, Configure, Sweep, Interrupt, Escape
  <2>2. CASE Navigate \/ Extract \/ SaveRun \/ Alert
    BY <2>2 DEF Navigate, Extract, SaveRun, Alert, Raise
  <2>3. CASE Report \/ HandleError \/ Learn \/ Close \/ Release
    BY <2>3 DEF Report, HandleError, Learn, Close, Release, Escape
  <2>4. CASE UNCHANGED vars
    BY <2>4 DEF vars
  <2>5. QED
    BY <2>1, <2>2, <2>3, <2>4 DEF Next, Work
<1>3. QED
  BY <1>1, <1>2, PTL DEF Spec

\* The first state of a run is one of RunLedger.
LEMMA LedgerStart == Init => Ledger!LedgerInit
BY DEF Init, Ledger!LedgerInit

\* Every step of a run is a step of RunLedger or leaves its variables alone.
LEMMA LedgerStep == IInv /\ [Next]_vars => [Ledger!LedgerNext]_(Ledger!ledgerVars)
<1>. SUFFICES ASSUME IInv, [Next]_vars
              PROVE  Ledger!LedgerNext \/ UNCHANGED <<rows, outputs, fate>>
  BY DEF Ledger!ledgerVars
<1>. DEFINE Vanishes == UNCHANGED <<rows, outputs>> /\ fate = "running" /\ fate' = "lost"
<1>1. Vanishes => Ledger!LedgerNext
  BY DEF Ledger!LedgerNext, Ledger!Lose
<1>2. stage \in InRun /\ Escape => Vanishes
  BY DEF Escape, IInv, Progress
<1>3. CASE SaveRun /\ ~Raise
  <2>1. fate = "running" /\ Job <= JobCount /\ RowsOf(Job) = {} /\ result \in Results
    BY <1>3 DEF SaveRun, IInv, ReportTypes, Progress, CurrentRow, InRun, InTry, BeforeCommit
  <2>2. rows' = rows \cup {[job |-> Job, price |-> result]} /\ UNCHANGED <<outputs, fate>>
    BY <1>3 DEF SaveRun, NewRow
  <2>3. Ledger!Persist
    BY <2>1, <2>2 DEF Ledger!Persist, Ledger!Rows, Ledger!Current, Job, RowsOf
  <2>4. QED
    BY <2>3 DEF Ledger!LedgerNext
<1>4. CASE Report
  <2>1. fate = "running" /\ OneRow(Job, result)
    BY <1>4 DEF Report, IInv, Progress, CurrentRow, InRun, InTry
  <2>2. [job |-> Job, price |-> result] \in Ledger!Rows(Ledger!Current)
    BY <2>1 DEF OneRow, RowsOf, Ledger!Rows, Ledger!Current, Job
  <2>3. /\ outputs' = Append(outputs, [job |-> Job, status |-> "ok", price |-> result])
        /\ UNCHANGED <<rows, fate>>
    BY <1>4 DEF Report, Payload
  <2>4. Ledger!ReportResult
    BY <2>1, <2>2, <2>3 DEF Ledger!ReportResult, Ledger!Current, Job
  <2>5. QED
    BY <2>4 DEF Ledger!LedgerNext
<1>5. CASE HandleError /\ ~Escape
  <2>1. fate = "running" /\ Job <= JobCount
    BY <1>5 DEF HandleError, IInv, Progress, InRun, InTry
  <2>2. /\ outputs' = Append(outputs, [job |-> Job, status |-> "error", price |-> NoPrice])
        /\ UNCHANGED <<rows, fate>>
    BY <1>5 DEF HandleError, Payload
  <2>3. Ledger!ReportError(NoPrice)
    BY <2>1, <2>2 DEF Ledger!ReportError, Ledger!Current, Job
  <2>4. NoPrice \in Results
    BY DEF Results
  <2>5. QED
    BY <2>3, <2>4 DEF Ledger!LedgerNext
<1>6. CASE Close
  <2>1. UNCHANGED <<rows, outputs>>
    BY <1>6 DEF Close
  <2>2. CASE fate = "running" /\ fate' = "returned"
    <3>1. Len(outputs) = JobCount
      BY <1>6, <2>2 DEF Close, IInv, Progress
    <3>2. Ledger!HandOver
      BY <2>1, <2>2, <3>1 DEF Ledger!HandOver
    <3>3. QED
      BY <3>2 DEF Ledger!LedgerNext
  <2>3. fate \in {"running", "lost"}
    BY <1>6 DEF Close, IInv, ReportTypes, Progress, Ended
  <2>4. Vanishes \/ (fate = "running" /\ fate' = "returned") \/ fate' = fate
    BY <1>6, <2>1, <2>3 DEF Close
  <2>5. QED
    BY <1>1, <2>1, <2>2, <2>4
<1>7. CASE Prepare
  <2>1. fate = "running" /\ UNCHANGED <<rows, outputs>> /\ fate' \in {fate, "lost"}
    BY <1>7 DEF Prepare, IInv, Progress
  <2>2. QED
    BY <1>1, <2>1
<1>8. CASE Interrupt \/ ((Setup \/ Configure \/ HandleError \/ Sweep) /\ Escape)
  BY <1>1, <1>2, <1>8 DEF Interrupt, Setup, Configure, HandleError, Sweep, InRun, InTry
<1>9. CASE \/ (Setup \/ Configure \/ Sweep) /\ ~Escape
           \/ Navigate \/ Extract \/ (SaveRun /\ Raise)
           \/ Alert \/ Learn \/ Release
  BY <1>9 DEF Setup, Configure, Sweep, Navigate, Extract, SaveRun, Raise, Alert,
     Learn, Release
<1>10. CASE UNCHANGED vars
  BY <1>10 DEF vars
<1>11. QED
  BY <1>3, <1>4, <1>5, <1>6, <1>7, <1>8, <1>9, <1>10 DEF Next, Work

\* A run implements RunLedger.
THEOREM RunImplementsLedger == Spec => ImplementsLedger
BY LedgerStart, LedgerStep, Reachable, PTL DEF Spec, Ledger!LedgerSpec, ImplementsLedger

-----------------------------------------------------------------------------
(* The candidate loop *)

Flags ==
    /\ engineRetry => http2Retry
    /\ pc = "webkit" => engineRetry
    /\ pc = "http2_off" => ~engineRetry

Places ==
    /\ pc \in {"webkit", "http2_off"} => idx <= Len(cands)
    /\ pc \in {"page", "failed"} => error \in Errors \cup {NoError, "no_html"}

LastCall ==
    LET last == calls[Len(calls)]
    IN  /\ pc = "candidate" =>
              calls = <<>> \/ last.cause \in NavErrors \cup {NoError}
        /\ pc = "webkit" => calls # <<>> /\ last.cause \in NavErrors /\ last.cand = idx
        /\ pc = "http2_off" =>
              /\ calls # <<>> /\ last.cand = idx
              /\ last.cause \in NavErrors \/ last.mode = "webkit"

CallCount ==
    LET spent == IF engineRetry THEN 0 ELSE 1
    IN  /\ pc = "candidate" => Len(calls) <= 2 * (idx - 1) + spent
        /\ pc \in {"webkit", "http2_off"} => Len(calls) <= 2 * (idx - 1) + 1 + spent
        /\ Len(calls) <= 2 * Len(cands) + 1

(* The inductive invariant. *)
LoopInv == LoopTypeOK /\ Flags /\ Places /\ LastCall /\ CallCount /\ RootCauseNotHidden

-----------------------------------------------------------------------------
Modes == {"chromium", "webkit", "http2_off"}
Causes == Errors \cup {NoError, "wall_clock"}
CallRecord == [cand : 1..Len(cands), mode : Modes, cause : Causes, took : Nat]

(* What a scenario call can come to, by case: no error with a page or with   *)
(* None, or an error whose cause is the error itself or the wall clock.      *)
LEMMA EndsType ==
    ASSUME NEW limit, NEW d, NEW end \in Ends(limit, d)
    PROVE  /\ end.page \in Pages \cup {NoPage}
           /\ end.err \in Errors \cup {NoError}
           /\ end.cause \in Causes
           /\ end.err \in NavErrors => end.cause = end.err
           /\ end.err = NoError => end.cause \in {NoError, "wall_clock"}
           /\ end.err = NoError /\ end.page # NoPage => end.cause = NoError
           /\ limit \in Nat /\ d \in Nat => end.took \in Nat
BY DEF Ends, RunsOut, CutOff, WallClockError, Errors, ScenarioErrors, NavErrors, NoError, Pages,
   NoPage, Causes

LEMMA RetryLimitType == RetryLimit \in Nat
BY CandidateLoopAssumption DEF RetryLimit, Smaller

LEMMA CandsType ==
    ASSUME cands \in CandidateLists
    PROVE  cands \in Seq(BOOLEAN) /\ Len(cands) \in Nat
BY DEF CandidateLists

(* A call may be appended when the one before it was no failure to hide, or  *)
(* was the WebKit retry of the same URL.                                     *)
LEMMA AppendCall ==
    ASSUME calls \in Seq(CallRecord), RootCauseNotHidden,
           NEW c \in CallRecord, calls' = Append(calls, c),
           calls # <<>> =>
               \/ calls[Len(calls)].cause \in NavErrors \cup {NoError}
               \/ calls[Len(calls)].mode = "webkit" /\ c.cand = calls[Len(calls)].cand
    PROVE  /\ RootCauseNotHidden'
           /\ calls' \in Seq(CallRecord)
           /\ calls' # <<>> /\ Len(calls') = Len(calls) + 1
           /\ calls'[Len(calls')] = c
<1>1. /\ calls' \in Seq(CallRecord)
      /\ Len(calls') = Len(calls) + 1 /\ Len(calls) \in Nat
      /\ calls' # <<>>
      /\ calls'[Len(calls')] = c
      /\ \A i \in 1..Len(calls) : calls'[i] = calls[i]
    OBVIOUS
<1>2. ASSUME NEW i \in Failures', calls'[i].cause \notin NavErrors, i < Len(calls')
      PROVE  calls'[i].mode = "webkit" /\ calls'[i + 1].cand = calls'[i].cand
  <2>1. i \in 1..Len(calls) /\ calls'[i] = calls[i] /\ i \in Failures
        /\ calls[i].cause \notin NavErrors \cup {NoError}
      BY <1>1, <1>2 DEF Failures
  <2>2. CASE i = Len(calls)
      BY <1>1, <2>1, <2>2
  <2>3. CASE i < Len(calls)
    <3>1. calls[i].mode = "webkit" /\ calls[i + 1].cand = calls[i].cand
        BY <2>1, <2>3 DEF RootCauseNotHidden
    <3> QED BY <1>1, <2>1, <2>3, <3>1
  <2> QED BY <1>1, <2>1, <2>2, <2>3
<1> QED BY <1>1, <1>2 DEF RootCauseNotHidden

-----------------------------------------------------------------------------
LEMMA LoopStart == LoopInit => LoopInv
BY CandidateLoopAssumption
   DEF LoopInit, LoopInv, LoopTypeOK, Flags, Places, LastCall, CallCount, RootCauseNotHidden, Failures,
       CandidateLists, NoPage, NoError, Pages, Errors

(* A call made from one of the three places of the loop: what it leaves.     *)
LEMMA CallStep ==
    ASSUME LoopInv, NEW mode \in Modes, NEW limit \in Nat, NEW d \in Durations,
           NEW end \in Ends(limit, d), Call(mode, end), UNCHANGED cands,
           pc \in {"candidate", "webkit", "http2_off"}, idx <= Len(cands)
    PROVE  /\ RootCauseNotHidden'
           /\ calls' \in Seq(CallRecord)'
           /\ calls' # <<>> /\ Len(calls') = Len(calls) + 1
           /\ calls'[Len(calls')].cand = idx
           /\ calls'[Len(calls')].mode = mode
           /\ calls'[Len(calls')].cause = end.cause
<1> DEFINE c == [cand |-> idx, mode |-> mode, cause |-> end.cause, took |-> end.took]
<1>1. cands \in Seq(BOOLEAN) /\ Len(cands) \in Nat
    BY CandsType DEF LoopInv, LoopTypeOK
<1>2. end.took \in Nat
    BY EndsType, CandidateLoopAssumption
<1>3. c \in CallRecord
    BY <1>1, <1>2, EndsType DEF LoopInv, LoopTypeOK, CallRecord
<1>4. calls \in Seq(CallRecord) /\ RootCauseNotHidden /\ calls' = Append(calls, c)
    BY DEF LoopInv, LoopTypeOK, CallRecord, Modes, Causes, Call
<1>5. calls # <<>> =>
          \/ calls[Len(calls)].cause \in NavErrors \cup {NoError}
          \/ calls[Len(calls)].mode = "webkit" /\ c.cand = calls[Len(calls)].cand
    BY DEF LoopInv, LastCall
<1> HIDE DEF c
<1>7. /\ RootCauseNotHidden'
      /\ calls' \in Seq(CallRecord)
      /\ calls' # <<>> /\ Len(calls') = Len(calls) + 1
      /\ calls'[Len(calls')] = c
    BY <1>3, <1>4, <1>5, AppendCall
<1>8. Seq(CallRecord)' = Seq(CallRecord)
    BY DEF CallRecord
<1> QED BY <1>7, <1>8 DEF c

LEMMA SkipForeignInv == LoopInv /\ SkipForeign => LoopInv'
<1> SUFFICES ASSUME LoopInv, SkipForeign PROVE LoopInv'
    OBVIOUS
<1>1. Len(cands) \in Nat /\ cands \in Seq(BOOLEAN)
    BY CandsType DEF LoopInv, LoopTypeOK
<1>2. idx' = idx + 1 /\ pc' = "candidate" /\ UNCHANGED <<hardTimeout, cands, calls, engineRetry>>
      /\ idx <= Len(cands) /\ pc = "candidate"
    BY DEF SkipForeign, NextCandidate
<1>3. LoopTypeOK'
    BY <1>1, <1>2 DEF LoopInv, LoopTypeOK, SkipForeign, NextCandidate
<1>4. Flags' /\ Places' /\ LastCall' /\ RootCauseNotHidden'
    BY <1>2 DEF LoopInv, Flags, Places, LastCall, RootCauseNotHidden, Failures, SkipForeign
<1>5. CallCount'
    BY <1>1, <1>2 DEF LoopInv, LoopTypeOK, CallCount
<1> QED BY <1>3, <1>4, <1>5 DEF LoopInv

LEMMA OutOfCandidatesInv == LoopInv /\ OutOfCandidates => LoopInv'
<1> SUFFICES ASSUME LoopInv, OutOfCandidates PROVE LoopInv'
    OBVIOUS
<1>1. /\ pc' = "failed" /\ UNCHANGED <<idx, hardTimeout, cands, html, navError, engineRetry,
                                       http2Retry, calls>>
      /\ error' \in Errors \cup {NoError, "no_html"}
    BY DEF OutOfCandidates, NoHtml, GiveUp, LoopInv, LoopTypeOK
<1>2. LoopTypeOK'
    BY <1>1 DEF LoopInv, LoopTypeOK
<1>3. Flags' /\ Places' /\ LastCall' /\ RootCauseNotHidden' /\ CallCount'
    BY <1>1 DEF LoopInv, Flags, Places, LastCall, RootCauseNotHidden, Failures, CallCount
<1> QED BY <1>2, <1>3 DEF LoopInv

LEMMA TryCandidateInv == LoopInv /\ TryCandidate => LoopInv'
<1> SUFFICES ASSUME LoopInv, TryCandidate PROVE LoopInv'
    OBVIOUS
<1>0. PICK d \in Durations : \E end \in Ends(CandidateTimeout, d) :
        /\ Call("chromium", end)
        /\ IF end.err # NoError
             THEN navError' = end.err /\ AfterNavError(end.err) /\ UNCHANGED html
             ELSE /\ UNCHANGED navError
                  /\ IF PassesOver(end.page)
                       THEN NextCandidate /\ html' = NoPage
                       ELSE Accept(end.page)
    BY DEF TryCandidate
<1>1. PICK end \in Ends(CandidateTimeout, d) :
        /\ Call("chromium", end)
        /\ IF end.err # NoError
             THEN navError' = end.err /\ AfterNavError(end.err) /\ UNCHANGED html
             ELSE /\ UNCHANGED navError
                  /\ IF PassesOver(end.page)
                       THEN NextCandidate /\ html' = NoPage
                       ELSE Accept(end.page)
    BY <1>0
<1>2. /\ pc = "candidate" /\ idx <= Len(cands)
      /\ UNCHANGED <<hardTimeout, cands, engineRetry, http2Retry>>
      /\ Len(cands) \in Nat /\ cands \in Seq(BOOLEAN)
    BY CandsType DEF TryCandidate, LoopInv, LoopTypeOK
<1>3. /\ RootCauseNotHidden'
      /\ calls' \in Seq(CallRecord)'
      /\ calls' # <<>> /\ Len(calls') = Len(calls) + 1
      /\ calls'[Len(calls')].cand = idx
      /\ calls'[Len(calls')].mode = "chromium"
      /\ calls'[Len(calls')].cause = end.cause
    BY <1>1, <1>2, CallStep, CandidateLoopAssumption DEF Modes
<1>4. /\ end.page \in Pages \cup {NoPage}
      /\ end.err \in Errors \cup {NoError}
      /\ end.err \in NavErrors => end.cause = end.err
      /\ end.err = NoError => end.cause \in {NoError, "wall_clock"}
      /\ end.err = NoError /\ end.page # NoPage => end.cause = NoError
    BY EndsType
<1>5. /\ idx' \in {idx, idx + 1}
      /\ error' \in Errors \cup {NoError, "no_html"}
      /\ html' \in Pages \cup {NoPage}
      /\ navError' \in Errors \cup {NoError}
      /\ pc' \in {"candidate", "webkit", "http2_off", "page", "failed"}
      /\ pc' = "candidate" => idx' = idx + 1 /\ end.cause \in NavErrors \cup {NoError}
      /\ pc' # "candidate" => idx' = idx
      /\ pc' = "webkit" => engineRetry /\ end.cause \in NavErrors
      /\ pc' = "http2_off" => ~engineRetry /\ end.cause \in NavErrors
    BY <1>1, <1>2, <1>4 DEF AfterNavError, FallBack, GiveUp, NextCandidate, Accept, NoHtml,
       PassesOver, LoopInv, LoopTypeOK, NavErrors, Errors, NoError, Pages, NoPage
<1>6. LoopTypeOK'
    BY <1>2, <1>3, <1>5 DEF LoopInv, LoopTypeOK, CallRecord, Modes, Causes
<1>7. Flags' /\ Places' /\ LastCall'
    BY <1>2, <1>3, <1>5 DEF LoopInv, Flags, Places, LastCall
<1>8. CallCount'
  <2>1. Len(calls) \in Nat /\ idx \in Nat /\ Len(cands) \in Nat
      BY <1>2 DEF LoopInv, LoopTypeOK
  <2>2. Len(calls) <= 2 * (idx - 1) + (IF engineRetry THEN 0 ELSE 1)
      BY <1>2 DEF LoopInv, CallCount
  <2>3. engineRetry' = engineRetry /\ Len(cands') = Len(cands) /\ Len(calls') = Len(calls) + 1
      BY <1>2, <1>3
  <2>4. CASE pc' = "candidate"
    <3>1. idx' = idx + 1
        BY <1>5, <2>4
    <3> QED BY <1>2, <2>1, <2>2, <2>3, <2>4, <3>1 DEF CallCount
  <2>5. CASE pc' # "candidate"
    <3>1. idx' = idx
        BY <1>5, <2>5
    <3> QED BY <1>2, <1>5, <2>1, <2>2, <2>3, <2>5, <3>1 DEF CallCount
  <2> QED BY <2>4, <2>5
<1> QED BY <1>3, <1>6, <1>7, <1>8 DEF LoopInv

LEMMA WebkitRetryInv == LoopInv /\ WebkitRetry => LoopInv'
<1> SUFFICES ASSUME LoopInv, WebkitRetry PROVE LoopInv'
    OBVIOUS
<1>0. PICK d \in Durations : \E end \in Ends(RetryLimit, d) :
        /\ Call("webkit", end)
        /\ IF end.err = NoError
             THEN Accept(end.page) /\ UNCHANGED <<navError, engineRetry>>
             ELSE navError' = end.err /\ WebkitFailed(end.err) /\ UNCHANGED html
    BY DEF WebkitRetry
<1>1. PICK end \in Ends(RetryLimit, d) :
        /\ Call("webkit", end)
        /\ IF end.err = NoError
             THEN Accept(end.page) /\ UNCHANGED <<navError, engineRetry>>
             ELSE navError' = end.err /\ WebkitFailed(end.err) /\ UNCHANGED html
    BY <1>0
<1>2. /\ pc = "webkit" /\ idx <= Len(cands) /\ engineRetry /\ http2Retry
      /\ UNCHANGED <<hardTimeout, cands, http2Retry>>
      /\ Len(cands) \in Nat /\ cands \in Seq(BOOLEAN)
    BY CandsType DEF WebkitRetry, LoopInv, LoopTypeOK, Places, Flags
<1>3. /\ RootCauseNotHidden'
      /\ calls' \in Seq(CallRecord)'
      /\ calls' # <<>> /\ Len(calls') = Len(calls) + 1
      /\ calls'[Len(calls')].cand = idx
      /\ calls'[Len(calls')].mode = "webkit"
      /\ calls'[Len(calls')].cause = end.cause
    BY <1>1, <1>2, CallStep, RetryLimitType DEF Modes
<1>4. /\ end.page \in Pages \cup {NoPage}
      /\ end.err \in Errors \cup {NoError}
    BY EndsType
<1>5. /\ idx' = idx
      /\ error' \in Errors \cup {NoError, "no_html"}
      /\ html' \in Pages \cup {NoPage}
      /\ navError' \in Errors \cup {NoError}
      /\ engineRetry' \in BOOLEAN
      /\ pc' \in {"http2_off", "page", "failed"}
      /\ pc' = "http2_off" => ~engineRetry'
    BY <1>1, <1>2, <1>4 DEF WebkitFailed, GiveUp, NextCandidate, Accept, NoHtml, LoopInv, LoopTypeOK
<1>6. LoopTypeOK'
    BY <1>2, <1>3, <1>5 DEF LoopInv, LoopTypeOK, CallRecord, Modes, Causes
<1>7. Flags' /\ Places' /\ LastCall'
    BY <1>2, <1>3, <1>5 DEF LoopInv, Flags, Places, LastCall
<1>8. CallCount'
    BY <1>2, <1>3, <1>5 DEF LoopInv, LoopTypeOK, CallCount
<1> QED BY <1>3, <1>6, <1>7, <1>8 DEF LoopInv

LEMMA Http2OffRetryInv == LoopInv /\ Http2OffRetry => LoopInv'
<1> SUFFICES ASSUME LoopInv, Http2OffRetry PROVE LoopInv'
    OBVIOUS
<1>0. PICK d \in Durations : \E end \in Ends(RetryLimit, d) :
        /\ Call("http2_off", end)
        /\ IF end.err = NoError
             THEN Accept(end.page) /\ UNCHANGED <<navError, http2Retry>>
             ELSE /\ navError' = end.err
                  /\ http2Retry' = (http2Retry /\ ~TooSlow(end.err, end.took))
                  /\ FallBack(end.err)
                  /\ UNCHANGED html
    BY DEF Http2OffRetry
<1>1. PICK end \in Ends(RetryLimit, d) :
        /\ Call("http2_off", end)
        /\ IF end.err = NoError
             THEN Accept(end.page) /\ UNCHANGED <<navError, http2Retry>>
             ELSE /\ navError' = end.err
                  /\ http2Retry' = (http2Retry /\ ~TooSlow(end.err, end.took))
                  /\ FallBack(end.err)
                  /\ UNCHANGED html
    BY <1>0
<1>2. /\ pc = "http2_off" /\ idx <= Len(cands) /\ ~engineRetry
      /\ UNCHANGED <<hardTimeout, cands, engineRetry>>
      /\ Len(cands) \in Nat /\ cands \in Seq(BOOLEAN)
    BY CandsType DEF Http2OffRetry, LoopInv, LoopTypeOK, Places, Flags
<1>3. /\ RootCauseNotHidden'
      /\ calls' \in Seq(CallRecord)'
      /\ calls' # <<>> /\ Len(calls') = Len(calls) + 1
      /\ calls'[Len(calls')].cand = idx
      /\ calls'[Len(calls')].mode = "http2_off"
      /\ calls'[Len(calls')].cause = end.cause
    BY <1>1, <1>2, CallStep, RetryLimitType DEF Modes
<1>4. /\ end.page \in Pages \cup {NoPage}
      /\ end.err \in Errors \cup {NoError}
      /\ end.err \in NavErrors => end.cause = end.err
    BY EndsType
<1>5. /\ idx' \in {idx, idx + 1}
      /\ error' \in Errors \cup {NoError, "no_html"}
      /\ html' \in Pages \cup {NoPage}
      /\ navError' \in Errors \cup {NoError}
      /\ http2Retry' \in BOOLEAN
      /\ pc' \in {"candidate", "page", "failed"}
      /\ pc' = "candidate" => idx' = idx + 1 /\ end.cause \in NavErrors
      /\ pc' # "candidate" => idx' = idx
    BY <1>1, <1>2, <1>4 DEF FallBack, GiveUp, NextCandidate, Accept, NoHtml, LoopInv, LoopTypeOK
<1>6. LoopTypeOK'
    BY <1>2, <1>3, <1>5 DEF LoopInv, LoopTypeOK, CallRecord, Modes, Causes
<1>7. Flags' /\ Places' /\ LastCall'
    BY <1>2, <1>3, <1>5 DEF LoopInv, Flags, Places, LastCall
<1>8. CallCount'
  <2>1. Len(calls) \in Nat /\ idx \in Nat /\ Len(cands) \in Nat
      BY <1>2 DEF LoopInv, LoopTypeOK
  <2>2. Len(calls) <= 2 * (idx - 1) + 2
      BY <1>2, <2>1 DEF LoopInv, CallCount, Http2OffRetry
  <2>3. engineRetry' = engineRetry /\ Len(cands') = Len(cands) /\ Len(calls') = Len(calls) + 1
      BY <1>2, <1>3
  <2>4. CASE pc' = "candidate"
    <3>1. idx' = idx + 1
        BY <1>5, <2>4
    <3> QED BY <1>2, <2>1, <2>2, <2>3, <2>4, <3>1 DEF CallCount
  <2>5. CASE pc' # "candidate"
    <3>1. idx' = idx
        BY <1>5, <2>5
    <3> QED BY <1>2, <1>5, <2>1, <2>2, <2>3, <2>5, <3>1 DEF CallCount
  <2> QED BY <2>4, <2>5
<1> QED BY <1>3, <1>6, <1>7, <1>8 DEF LoopInv

LEMMA LoopStutter == LoopInv /\ UNCHANGED loopVars => LoopInv'
BY DEF LoopInv, LoopTypeOK, Flags, Places, LastCall, CallCount, RootCauseNotHidden, Failures, loopVars

LEMMA LoopStep == LoopInv /\ [LoopNext]_loopVars => LoopInv'
BY SkipForeignInv, OutOfCandidatesInv, TryCandidateInv, WebkitRetryInv, Http2OffRetryInv,
   LoopStutter DEF LoopNext, Settled

(* The invariant holds of every behaviour of the loop. *)
THEOREM LoopInvariance == LoopSpec => []LoopInv
BY LoopStart, LoopStep, PTL DEF LoopSpec

(* The state of the candidate loop of main.py always has its type.           *)
THEOREM LoopTypeCorrect == LoopSpec => []LoopTypeOK
<1>1. LoopInv => LoopTypeOK
    BY DEF LoopInv
<1> QED BY <1>1, LoopInvariance, PTL

(* For every list of URLs: no call follows a failure that is not a           *)
(* navigation failure, except the HTTP/2-off retry after a failed WebKit     *)
(* retry of the same URL (main.py: "do not hide the root cause").            *)
THEOREM RootCauseKept == LoopSpec => []RootCauseNotHidden
<1>1. LoopInv => RootCauseNotHidden
    BY DEF LoopInv
<1> QED BY <1>1, LoopInvariance, PTL

(* For every list of URLs: at most two scenario calls per URL and one more,  *)
(* the single WebKit retry of the service run.                               *)
THEOREM CallsAreBounded == LoopSpec => []CallsBounded
<1>1. LoopInv => CallsBounded
    BY DEF LoopInv, CallCount, CallsBounded
<1> QED BY <1>1, LoopInvariance, PTL

(***************************************************************************)
(* What the loop has tried: every own URL before the current one, and the  *)
(* current one as well once it is being retried; a loop that gave up did   *)
(* so on a failure it must not hide or had nothing left.                   *)
(***************************************************************************)
TriedUpTo(n) == \A i \in 1..n : cands[i] => i \in Tried

Visited ==
    /\ pc = "candidate" => TriedUpTo(idx - 1)
    /\ pc \in {"webkit", "http2_off"} => TriedUpTo(idx)
    /\ GivesUpOnlyWhenExhausted

(* Once every position has been visited, every own URL has been tried.       *)
LEMMA AllTried ==
    ASSUME LoopTypeOK, TriedUpTo(Len(cands))
    PROVE  OwnCandidates \subseteq Tried
<1>1. cands \in Seq(BOOLEAN) /\ DOMAIN cands = 1..Len(cands)
    BY CandsType DEF LoopTypeOK
<1> QED BY <1>1 DEF OwnCandidates, TriedUpTo

(* A call adds its URL to those that have been tried.                        *)
LEMMA CallTries ==
    ASSUME LoopTypeOK, LoopTypeOK', UNCHANGED cands,
           NEW mode, NEW end, Call(mode, end)
    PROVE  /\ Tried' = Tried \cup {idx}
           /\ calls' # <<>> /\ calls'[Len(calls')].cause = end.cause
<1> DEFINE c == [cand |-> idx, mode |-> mode, cause |-> end.cause, took |-> end.took]
<1>1. \E T : calls \in Seq(T)
    BY DEF LoopTypeOK
<1>2. calls' = Append(calls, c) /\ c.cand = idx /\ c.cause = end.cause
    BY DEF Call
<1> HIDE DEF c
<1>3. /\ Len(calls) \in Nat /\ DOMAIN calls = 1..Len(calls)
      /\ DOMAIN calls' = 1..(Len(calls) + 1) /\ Len(calls') = Len(calls) + 1
      /\ \A i \in 1..Len(calls) : calls'[i] = calls[i]
      /\ calls'[Len(calls) + 1] = c
    BY <1>1, <1>2
<1>4. Tried \cup {idx} \subseteq Tried'
  <2>1. ASSUME NEW i \in DOMAIN calls PROVE calls[i].cand \in Tried'
      BY <1>3, <2>1 DEF Tried
  <2>2. idx \in Tried'
    <3>1. Len(calls) + 1 \in DOMAIN calls' /\ calls'[Len(calls) + 1].cand = idx
        BY <1>2, <1>3
    <3> QED BY <3>1 DEF Tried
  <2> QED BY <2>1, <2>2 DEF Tried
<1>5. Tried' \subseteq Tried \cup {idx}
  <2>1. ASSUME NEW i \in DOMAIN calls' PROVE calls'[i].cand \in Tried \cup {idx}
    <3>1. CASE i = Len(calls) + 1
        BY <1>2, <1>3, <3>1
    <3>2. CASE i # Len(calls) + 1
      <4>1. i \in DOMAIN calls /\ calls'[i] = calls[i]
          BY <1>3, <2>1, <3>2
      <4> QED BY <4>1 DEF Tried
    <3> QED BY <3>1, <3>2
  <2> QED BY <2>1 DEF Tried
<1>6. calls' # <<>>
    BY <1>3
<1> QED BY <1>2, <1>3, <1>4, <1>5, <1>6

(* A failure the loop gives up on is one it must not hide.                   *)
LEMMA FinalCause ==
    ASSUME NEW limit, NEW d, NEW end \in Ends(limit, d),
           \/ end.err \notin NavErrors \cup {NoError}
           \/ end.err = NoError /\ end.page = NoPage
    PROVE  end.cause \notin NavErrors \cup {NoError}
BY DEF Ends, RunsOut, CutOff, WallClockError, Errors, ScenarioErrors, NavErrors, NoError,
   Pages, NoPage

(* Where a call that visits the current URL leads: on to the next URL, to a  *)
(* retry of this one, to a page, or to the end with a cause Visited allows.  *)
LeadsOn(cause) ==
    \/ pc' = "candidate" /\ idx' = idx + 1
    \/ pc' \in {"webkit", "http2_off"} /\ idx' = idx
    \/ pc' = "page"
    \/ pc' = "failed" /\ (idx = Len(cands) \/ cause \notin NavErrors \cup {NoError})

Calling ==
    \E mode, limit, d, end :
        /\ end \in Ends(limit, d) /\ LeadsOn(end.cause)
        /\ Call(mode, end)

LEMMA VisitStep ==
    ASSUME LoopInv, LoopTypeOK', UNCHANGED cands, Visited,
           pc \in {"candidate", "webkit", "http2_off"}, idx <= Len(cands), Calling
    PROVE  Visited'
<1>0. PICK mode, limit, d, end :
        /\ end \in Ends(limit, d) /\ LeadsOn(end.cause)
        /\ Call(mode, end)
    BY DEF Calling
<1>1. Len(cands) \in Nat /\ cands \in Seq(BOOLEAN) /\ DOMAIN cands = 1..Len(cands)
      /\ idx \in 1..Len(cands) /\ LoopTypeOK
    BY CandsType DEF LoopInv, LoopTypeOK
<1>2. Tried' = Tried \cup {idx} /\ calls' # <<>> /\ calls'[Len(calls')].cause = end.cause
    BY <1>0, <1>1, CallTries
<1>3. \A i \in 1..idx : cands'[i] => i \in Tried'
    BY <1>1, <1>2 DEF Visited, TriedUpTo
<1>4. pc' = "candidate" /\ idx' = idx + 1 => TriedUpTo(idx - 1)'
    BY <1>1, <1>3 DEF TriedUpTo
<1>5. idx' = idx => TriedUpTo(idx)'
    BY <1>1, <1>3 DEF TriedUpTo
<1>6. pc' = "failed" => GivesUpOnlyWhenExhausted'
  <2>1. CASE end.cause \notin NavErrors \cup {NoError}
      BY <1>2, <2>1 DEF GivesUpOnlyWhenExhausted
  <2>2. CASE idx = Len(cands)
      BY <1>1, <1>3, <2>2 DEF GivesUpOnlyWhenExhausted, OwnCandidates
  <2> QED BY <1>0, <2>1, <2>2 DEF LeadsOn
<1> QED BY <1>0, <1>4, <1>5, <1>6 DEF Visited, LeadsOn, GivesUpOnlyWhenExhausted

LEMMA TryCandidateCalls == LoopInv /\ TryCandidate => Calling
<1> SUFFICES ASSUME LoopInv, TryCandidate PROVE Calling
    OBVIOUS
<1>0. PICK d, end :
        /\ end \in Ends(CandidateTimeout, d)
        /\ Call("chromium", end)
        /\ IF end.err # NoError
             THEN navError' = end.err /\ AfterNavError(end.err) /\ UNCHANGED html
             ELSE /\ UNCHANGED navError
                  /\ IF PassesOver(end.page)
                       THEN NextCandidate /\ html' = NoPage
                       ELSE Accept(end.page)
    BY DEF TryCandidate
<1>1. LeadsOn(end.cause)
  <2>1. CASE end.err = NoError
      BY <1>0, <2>1, FinalCause
         DEF LeadsOn, PassesOver, NextCandidate, Accept, NoHtml, GiveUp, NoPage
  <2>2. CASE end.err # NoError
      BY <1>0, <2>2, FinalCause
         DEF LeadsOn, AfterNavError, FallBack, NextCandidate, GiveUp, IsLast, NavErrors
  <2> QED BY <2>1, <2>2
<1> QED BY <1>0, <1>1 DEF Calling

LEMMA WebkitRetryCalls == LoopInv /\ WebkitRetry => Calling
<1> SUFFICES ASSUME LoopInv, WebkitRetry PROVE Calling
    OBVIOUS
<1>0. PICK d, end :
        /\ end \in Ends(RetryLimit, d)
        /\ Call("webkit", end)
        /\ IF end.err = NoError
             THEN Accept(end.page) /\ UNCHANGED <<navError, engineRetry>>
             ELSE navError' = end.err /\ WebkitFailed(end.err) /\ UNCHANGED html
    BY DEF WebkitRetry
<1>1. LeadsOn(end.cause)
  <2>1. CASE end.err = NoError
      BY <1>0, <2>1, FinalCause DEF LeadsOn, Accept, NoHtml, GiveUp
  <2>2. CASE end.err # NoError
      BY <1>0, <2>2 DEF LeadsOn, WebkitFailed, NextCandidate, GiveUp, IsLast
  <2> QED BY <2>1, <2>2
<1> QED BY <1>0, <1>1 DEF Calling

LEMMA Http2OffRetryCalls == LoopInv /\ Http2OffRetry => Calling
<1> SUFFICES ASSUME LoopInv, Http2OffRetry PROVE Calling
    OBVIOUS
<1>0. PICK d, end :
        /\ end \in Ends(RetryLimit, d)
        /\ Call("http2_off", end)
        /\ IF end.err = NoError
             THEN Accept(end.page) /\ UNCHANGED <<navError, http2Retry>>
             ELSE FallBack(end.err)
    BY DEF Http2OffRetry
<1>1. LeadsOn(end.cause)
  <2>1. CASE end.err = NoError
      BY <1>0, <2>1, FinalCause DEF LeadsOn, Accept, NoHtml, GiveUp
  <2>2. CASE end.err # NoError
      BY <1>0, <2>2, FinalCause DEF LeadsOn, FallBack, NextCandidate, GiveUp, IsLast
  <2> QED BY <2>1, <2>2
<1> QED BY <1>0, <1>1 DEF Calling

LEMMA VisitedKept == LoopInv /\ Visited /\ [LoopNext]_loopVars => Visited'
<1> SUFFICES ASSUME LoopInv, Visited, [LoopNext]_loopVars PROVE Visited'
    OBVIOUS
<1>0. LoopTypeOK' /\ LoopTypeOK
    BY LoopStep DEF LoopInv
<1>1. CASE SkipForeign
  <2>1. Len(cands) \in Nat /\ idx \in 1..Len(cands) /\ ~cands[idx]
      BY <1>0, <1>1, CandsType DEF SkipForeign, LoopTypeOK
  <2> QED BY <1>1, <2>1
        DEF SkipForeign, NextCandidate, Visited, TriedUpTo, Tried, GivesUpOnlyWhenExhausted
<1>2. CASE OutOfCandidates
  <2>1. Len(cands) \in Nat /\ idx = Len(cands) + 1 /\ TriedUpTo(idx - 1)
      BY <1>0, <1>2, CandsType DEF OutOfCandidates, LoopTypeOK, Visited
  <2>2. OwnCandidates \subseteq Tried
      BY <1>0, <2>1, AllTried
  <2>3. UNCHANGED <<cands, calls>> /\ pc' = "failed"
      BY <1>2 DEF OutOfCandidates, NoHtml, GiveUp
  <2> QED BY <2>2, <2>3 DEF Visited, GivesUpOnlyWhenExhausted, OwnCandidates, Tried
<1>3. CASE TryCandidate
    BY <1>0, <1>3, TryCandidateCalls, VisitStep DEF TryCandidate
<1>4. CASE WebkitRetry
    BY <1>0, <1>4, WebkitRetryCalls, VisitStep DEF WebkitRetry, LoopInv, Places
<1>5. CASE Http2OffRetry
    BY <1>0, <1>5, Http2OffRetryCalls, VisitStep DEF Http2OffRetry, LoopInv, Places
<1>6. CASE UNCHANGED loopVars
    BY <1>6 DEF loopVars, Visited, TriedUpTo, Tried, GivesUpOnlyWhenExhausted, OwnCandidates
<1> QED BY <1>1, <1>2, <1>3, <1>4, <1>5, <1>6 DEF LoopNext, Settled

(* No fallback URL is lost to the retry bookkeeping: the loop gives up only  *)
(* on a failure it must not hide, or when every own URL has been tried.      *)
THEOREM NoCandidateLost == LoopSpec => []GivesUpOnlyWhenExhausted
<1>1. LoopInit => Visited
  <2> SUFFICES ASSUME LoopInit PROVE Visited
      OBVIOUS
  <2>1. pc = "candidate" /\ idx = 1
      BY DEF LoopInit
  <2> QED BY <2>1 DEF Visited, TriedUpTo, GivesUpOnlyWhenExhausted
<1>2. Visited => GivesUpOnlyWhenExhausted
    BY DEF Visited
<1> QED BY <1>1, <1>2, VisitedKept, LoopInvariance, PTL DEF LoopSpec

(***************************************************************************)
(* A retry without HTTP/2 that was costly leaves the flag spent or the     *)
(* loop ended, and the next such retry needs the flag.                     *)
(***************************************************************************)
CostSpent ==
    /\ pc = "http2_off" => http2Retry
    /\ (\E i \in DOMAIN calls : Costly(calls[i])) => ~http2Retry \/ pc \in {"page", "failed"}
    /\ CostlyRetryNotRepeated

(* A call that is appended keeps the order of the costly retries when it is  *)
(* no retry without HTTP/2, or when no such retry was costly before.         *)
LEMMA AppendKeepsCost ==
    ASSUME calls \in Seq(CallRecord), CostlyRetryNotRepeated,
           NEW c, calls' = Append(calls, c),
           c.mode = "http2_off" => ~(\E i \in DOMAIN calls : Costly(calls[i]))
    PROVE  /\ CostlyRetryNotRepeated'
           /\ (\E i \in DOMAIN calls' : Costly(calls'[i]))
                  => (\E i \in DOMAIN calls : Costly(calls[i])) \/ Costly(c)
<1>1. /\ Len(calls) \in Nat /\ DOMAIN calls = 1..Len(calls)
      /\ DOMAIN calls' = 1..(Len(calls) + 1)
      /\ \A i \in 1..Len(calls) : calls'[i] = calls[i]
      /\ calls'[Len(calls) + 1] = c
    OBVIOUS
<1>2. ASSUME NEW i \in DOMAIN calls', NEW j \in DOMAIN calls', Costly(calls'[i]), i < j
      PROVE  calls'[j].mode # "http2_off"
  <2>1. i \in DOMAIN calls /\ Costly(calls[i])
      BY <1>1, <1>2
  <2>2. CASE j = Len(calls) + 1
      BY <1>1, <2>1, <2>2
  <2>3. CASE j # Len(calls) + 1
      BY <1>1, <1>2, <2>1, <2>3 DEF CostlyRetryNotRepeated
  <2> QED BY <2>2, <2>3
<1>3. ASSUME NEW i \in DOMAIN calls', Costly(calls'[i])
      PROVE  (\E k \in DOMAIN calls : Costly(calls[k])) \/ Costly(c)
    BY <1>1, <1>3
<1> QED BY <1>2, <1>3 DEF CostlyRetryNotRepeated

LEMMA CostKept == LoopInv /\ CostSpent /\ [LoopNext]_loopVars => CostSpent'
<1> SUFFICES ASSUME LoopInv, CostSpent, [LoopNext]_loopVars PROVE CostSpent'
    OBVIOUS
<1>0. calls \in Seq(CallRecord) /\ CostlyRetryNotRepeated
    BY DEF LoopInv, LoopTypeOK, CallRecord, Modes, Causes, CostSpent
<1>1. CASE SkipForeign \/ OutOfCandidates
    BY <1>1 DEF SkipForeign, OutOfCandidates, NextCandidate, NoHtml, GiveUp, CostSpent,
       CostlyRetryNotRepeated
<1>2. CASE TryCandidate
  <2>1. PICK d \in Durations : \E end \in Ends(CandidateTimeout, d) :
          /\ Call("chromium", end)
          /\ IF end.err # NoError THEN AfterNavError(end.err)
               ELSE IF PassesOver(end.page) THEN NextCandidate ELSE Accept(end.page)
      BY <1>2 DEF TryCandidate
  <2>2. PICK end :
          /\ Call("chromium", end)
          /\ IF end.err # NoError THEN AfterNavError(end.err)
               ELSE IF PassesOver(end.page) THEN NextCandidate ELSE Accept(end.page)
      BY <2>1
  <2> DEFINE c == [cand |-> idx, mode |-> "chromium", cause |-> end.cause, took |-> end.took]
  <2>3. calls' = Append(calls, c) /\ c.mode = "chromium"
      BY <2>2 DEF Call
  <2>4. ~Costly(c)
      BY DEF Costly
  <2>5. http2Retry' = http2Retry /\ (pc' = "http2_off" => http2Retry) /\ pc = "candidate"
      BY <1>2, <2>2 DEF TryCandidate, AfterNavError, FallBack, GiveUp, NextCandidate, Accept, NoHtml
  <2> HIDE DEF c
  <2>6. /\ CostlyRetryNotRepeated'
        /\ (\E i \in DOMAIN calls' : Costly(calls'[i]))
               => (\E i \in DOMAIN calls : Costly(calls[i])) \/ Costly(c)
      BY <1>0, <2>3, AppendKeepsCost
  <2> QED BY <2>4, <2>5, <2>6 DEF CostSpent
<1>3. CASE WebkitRetry
  <2>1. PICK d \in Durations : \E end \in Ends(RetryLimit, d) :
          /\ Call("webkit", end)
          /\ IF end.err = NoError THEN Accept(end.page) ELSE WebkitFailed(end.err)
      BY <1>3 DEF WebkitRetry
  <2>2. PICK end :
          /\ Call("webkit", end)
          /\ IF end.err = NoError THEN Accept(end.page) ELSE WebkitFailed(end.err)
      BY <2>1
  <2> DEFINE c == [cand |-> idx, mode |-> "webkit", cause |-> end.cause, took |-> end.took]
  <2>3. calls' = Append(calls, c) /\ c.mode = "webkit"
      BY <2>2 DEF Call
  <2>4. ~Costly(c)
      BY DEF Costly
  <2>5. http2Retry' = http2Retry /\ (pc' = "http2_off" => http2Retry) /\ pc = "webkit"
      BY <1>3, <2>2 DEF WebkitRetry, WebkitFailed, GiveUp, NextCandidate, Accept, NoHtml
  <2> HIDE DEF c
  <2>6. /\ CostlyRetryNotRepeated'
        /\ (\E i \in DOMAIN calls' : Costly(calls'[i]))
               => (\E i \in DOMAIN calls : Costly(calls[i])) \/ Costly(c)
      BY <1>0, <2>3, AppendKeepsCost
  <2> QED BY <2>4, <2>5, <2>6 DEF CostSpent
<1>4. CASE Http2OffRetry
  <2>1. PICK d \in Durations : \E end \in Ends(RetryLimit, d) :
          /\ Call("http2_off", end)
          /\ IF end.err = NoError
               THEN Accept(end.page) /\ UNCHANGED http2Retry
               ELSE /\ http2Retry' = (http2Retry /\ ~TooSlow(end.err, end.took))
                    /\ FallBack(end.err)
      BY <1>4 DEF Http2OffRetry
  <2>2. PICK end \in Ends(RetryLimit, d) :
          /\ Call("http2_off", end)
          /\ IF end.err = NoError
               THEN Accept(end.page) /\ UNCHANGED http2Retry
               ELSE /\ http2Retry' = (http2Retry /\ ~TooSlow(end.err, end.took))
                    /\ FallBack(end.err)
      BY <2>1
  <2> DEFINE c == [cand |-> idx, mode |-> "http2_off", cause |-> end.cause, took |-> end.took]
  <2>3. calls' = Append(calls, c) /\ c.cause = end.cause /\ c.took = end.took
      BY <2>2 DEF Call
  <2>4. pc = "http2_off" /\ http2Retry /\ ~(\E i \in DOMAIN calls : Costly(calls[i]))
      BY <1>4 DEF Http2OffRetry, CostSpent
  <2>5. pc' # "http2_off"
      BY <2>2 DEF FallBack, GiveUp, NextCandidate, Accept, NoHtml
  <2>6. end.err # NoError /\ end.cause \in TimedOut =>
            IsTimeoutText(end.err) \/ end.err \notin NavErrors
      BY DEF Ends, RunsOut, CutOff, WallClockError, TimedOut, IsTimeoutText, NavErrors,
         ScenarioErrors, NoError
  <2>7. Costly(c) => ~http2Retry' \/ pc' \in {"page", "failed"}
    <3>1. CASE end.err = NoError
        BY <2>2, <3>1 DEF Accept, NoHtml, GiveUp
    <3>2. CASE end.err # NoError
        BY <2>2, <2>3, <2>6, <3>2 DEF Costly, TooSlow, FallBack, GiveUp
    <3> QED BY <3>1, <3>2
  <2> HIDE DEF c
  <2>8. /\ CostlyRetryNotRepeated'
        /\ (\E i \in DOMAIN calls' : Costly(calls'[i]))
               => (\E i \in DOMAIN calls : Costly(calls[i])) \/ Costly(c)
      BY <1>0, <2>3, <2>4, AppendKeepsCost
  <2> QED BY <2>4, <2>5, <2>7, <2>8 DEF CostSpent
<1>5. CASE UNCHANGED loopVars
    BY <1>5 DEF loopVars, CostSpent, CostlyRetryNotRepeated
<1> QED BY <1>1, <1>2, <1>3, <1>4, <1>5 DEF LoopNext, Settled

(* For every list of URLs, every limit and duration, with and without the    *)
(* hard timeout: a retry without HTTP/2 that timed out or took too long is   *)
(* the last one of the service run.                                          *)
THEOREM CostlyRetryPaidOnce == LoopSpec => []CostlyRetryNotRepeated
<1>1. LoopInit => CostSpent
    BY DEF LoopInit, CostSpent, CostlyRetryNotRepeated
<1>2. CostSpent => CostlyRetryNotRepeated
    BY DEF CostSpent
<1> QED BY <1>1, <1>2, CostKept, LoopInvariance, PTL DEF LoopSpec
=============================================================================

---------------------------- MODULE StorageProofs ----------------------------
(***************************************************************************)
(* Proofs about the three stores that outlive a run.                       *)
(*                                                                         *)
(* Retention, for every limit, floor and chunk size and for tables of any  *)
(* length.  TypeOK and RecentKept are inductive together: a size pass      *)
(* stays above the floor because a chunk is never larger than what is      *)
(* above it, and the age pass can pass a promised row only when the row is *)
(* too old.  The one fact about data is that a set of row numbers has a    *)
(* least member.                                                           *)
(*                                                                         *)
(* AdaptivePolicy, for any thresholds, window and number of runs: a failed *)
(* run never shrinks the limit of the next one, the limits of a call stay  *)
(* capped under pressure, and the counters agree.                          *)
(***************************************************************************)
EXTENDS Retention, AdaptivePolicy, PriceWatch, FiniteSetTheorems, WellFoundedInduction, TLAPS

IInv == TypeOK /\ RecentKept

(* What RecentKept promises of a table.                                      *)
Promised(t) ==
    IF MinRows[t] = 0 THEN 1
    ELSE IF MaxRows[t] > 0 /\ MaxRows[t] < MinRows[t] THEN MaxRows[t]
    ELSE MinRows[t]

LEMMA MinIsLeast ==
    ASSUME NEW S, S \subseteq Nat, S # {}
    PROVE  Min(S) \in S /\ \A y \in S : Min(S) <= y
<1> DEFINE R == {ss \in Nat \X Nat : ss[1] < ss[2]}
<1>1. IsWellFoundedOn(R, Nat)
    BY NatLessThanWellFounded DEF OpToRel
<1>2. \A x, y \in Nat : y < x => <<y, x>> \in R
    OBVIOUS
<1> HIDE DEF R
<1>3. PICK x \in S : \A y \in S : ~ (<<y, x>> \in R)
    BY <1>1, WFMin
<1>4. ASSUME NEW y \in S PROVE x <= y
  <2>1. x \in Nat /\ y \in Nat
      BY <1>3
  <2>2. ~ (y < x)
      BY <1>2, <1>3, <2>1, Zenon
  <2> QED BY <2>1, <2>2
<1> QED BY <1>4 DEF Min

LEMMA SeqMembers ==
    ASSUME NEW S, NEW q \in Seq(S)
    PROVE  Len(q) \in Nat /\ \A i \in 1 .. Len(q) : q[i] \in S
OBVIOUS

(* A sequence grows at its end and keeps its members.                        *)
LEMMA AppendKeeps ==
    ASSUME NEW S, NEW q \in Seq(S), NEW e \in S
    PROVE  /\ Append(q, e) \in Seq(S)
           /\ Len(Append(q, e)) = Len(q) + 1
           /\ \A i \in 1 .. Len(q) : Append(q, e)[i] = q[i]
OBVIOUS

LEMMA LimitTypes ==
    ASSUME NEW t \in Tables
    PROVE  /\ MaxAge[t] \in Nat /\ MaxRows[t] \in Nat /\ MinRows[t] \in Nat
           /\ Floor(t) \in Nat /\ Floor(t) >= 1 /\ Floor(t) >= MinRows[t]
           /\ Promised(t) \in Nat /\ Promised(t) <= Floor(t)
           /\ MaxRows[t] > 0 => Promised(t) <= MaxRows[t]
           /\ MaxBytes \in Nat
<1>1. MaxAge[t] \in Nat /\ MaxRows[t] \in Nat /\ MinRows[t] \in Nat /\ MaxBytes \in Nat
    BY RetentionAssumption
<1> QED BY <1>1 DEF Floor, Bigger, Promised

LEMMA TableTypes ==
    ASSUME TypeOK, NEW t \in Tables
    PROVE  /\ Len(born[t]) \in Nat /\ first[t] \in 1 .. (Len(born[t]) + 1)
           /\ Count(t) \in Nat
           /\ now \in Nat
           /\ \A i \in 1 .. Len(born[t]) : born[t][i] \in Nat
<1>1. now \in Nat
    BY RetentionAssumption DEF TypeOK
<1>2. born[t] \in Seq(0 .. now)
    BY DEF TypeOK
<1>3. Len(born[t]) \in Nat /\ \A i \in 1 .. Len(born[t]) : born[t][i] \in 0 .. now
    BY <1>2, SeqMembers
<1>4. first[t] \in Nat \ {0} /\ first[t] <= Len(born[t]) + 1
    BY DEF TypeOK
<1>5. Count(t) \in Nat
    BY <1>3, <1>4 DEF Count
<1> QED BY <1>1, <1>3, <1>4, <1>5

LEMMA LiveType == ASSUME TypeOK PROVE Live \in Nat
<1>1. Count("runs") \in Nat /\ Count("metrics") \in Nat
    BY TableTypes DEF Tables
<1> QED BY <1>1 DEF Live

(* RecentKept, row by row.                                                   *)
LEMMA KeptRow ==
    RecentKept <=>
        \A t \in Tables : \A i \in DOMAIN born[t] :
            i > Len(born[t]) - Promised(t) /\ (MaxAge[t] = 0 \/ now - born[t][i] <= MaxAge[t])
                => i \in Rows(t)
BY DEF RecentKept, Promised

-----------------------------------------------------------------------------
(* The steps, one lemma each *)

LEMMA InitInv == Init => IInv
<1> SUFFICES ASSUME Init PROVE IInv
    OBVIOUS
<1>1. TypeOK
    BY RetentionAssumption DEF Init, TypeOK, Live, Count, Tables
<1>2. RecentKept
    BY <1>1 DEF Init, RecentKept
<1> QED BY <1>1, <1>2 DEF IInv

(* A row is added at the end of a table and none is lost.                    *)
LEMMA InsertInv ==
    ASSUME IInv, NEW t \in Tables, Insert(t),
           phase' \in {"idle", "age"}
    PROVE  IInv'
<1>1. /\ born' = [born EXCEPT ![t] = Append(@, now)]
      /\ UNCHANGED <<now, first>>
      /\ size' = Bigger(size, Live + 1)
      /\ TypeOK
    BY DEF Insert, IInv
<1>2. \A u \in Tables : born[u] \in Seq(0 .. now) /\ Len(born[u]) \in Nat
    BY <1>1 DEF TypeOK
<1>3. \A u \in Tables : born'[u] = IF u = t THEN Append(born[t], now) ELSE born[u]
    BY <1>1 DEF TypeOK, Insert
<1>4. now \in Nat /\ now \in 0 .. now
    BY <1>1, RetentionAssumption DEF TypeOK
<1>5. \A u \in Tables :
          /\ born'[u] \in Seq(0 .. now)
          /\ Len(born'[u]) = IF u = t THEN Len(born[u]) + 1 ELSE Len(born[u])
          /\ \A i \in 1 .. Len(born[u]) : born'[u][i] = born[u][i]
  <2> SUFFICES ASSUME NEW u \in Tables
               PROVE  /\ born'[u] \in Seq(0 .. now)
                      /\ Len(born'[u]) = IF u = t THEN Len(born[u]) + 1 ELSE Len(born[u])
                      /\ \A i \in 1 .. Len(born[u]) : born'[u][i] = born[u][i]
      OBVIOUS
  <2>1. CASE u = t
    <3>1. /\ Append(born[t], now) \in Seq(0 .. now)
          /\ Len(Append(born[t], now)) = Len(born[t]) + 1
          /\ \A i \in 1 .. Len(born[t]) : Append(born[t], now)[i] = born[t][i]
        BY <1>2, <1>4, AppendKeeps
    <3> QED BY <1>3, <2>1, <3>1
  <2>2. CASE u # t
      BY <1>2, <1>3, <2>2
  <2> QED BY <2>1, <2>2
<1>6. Live' = Live + 1
  <2>1. \A u \in Tables : first[u] \in Nat
      BY <1>1 DEF TypeOK
  <2>2. ASSUME NEW u \in Tables
        PROVE  Count(u) \in Int /\ Count(u)' = IF u = t THEN Count(u) + 1 ELSE Count(u)
    <3>1. /\ first[u] \in Nat /\ Len(born[u]) \in Nat /\ first'[u] = first[u]
          /\ Len(born'[u]) = IF u = t THEN Len(born[u]) + 1 ELSE Len(born[u])
        BY <1>1, <1>2, <1>5, <2>1
    <3> QED BY <3>1 DEF Count
  <2>3. "runs" \in Tables /\ "metrics" \in Tables /\ (t = "runs" \/ t = "metrics")
      BY DEF Tables
  <2> QED BY <2>2, <2>3 DEF Live
<1>7. TypeOK'
  <2>1. size' \in Nat /\ size' >= Live'
      BY <1>1, <1>6, LiveType DEF Bigger, TypeOK
  <2>2. \A u \in Tables : first'[u] \in 1 .. (Len(born'[u]) + 1)
      BY <1>1, <1>2, <1>5 DEF TypeOK
  <2> QED BY <1>1, <1>5, <2>1, <2>2 DEF TypeOK
<1>8. RecentKept'
  <2> SUFFICES ASSUME NEW u \in Tables, NEW i \in DOMAIN born'[u],
                      i > Len(born'[u]) - Promised(u),
                      MaxAge[u] = 0 \/ now' - born'[u][i] <= MaxAge[u]
               PROVE  i \in Rows(u)'
      BY DEF RecentKept, Promised
  <2>1. Len(born[u]) \in Nat /\ first[u] \in 1 .. (Len(born[u]) + 1) /\ Promised(u) \in Nat
      BY <1>1, TableTypes, LimitTypes
  <2>2. i \in 1 .. Len(born'[u])
      BY <1>5
  <2>3. CASE i = Len(born[u]) + 1
      BY <1>1, <1>5, <2>1, <2>2, <2>3 DEF Rows
  <2>4. CASE i <= Len(born[u])
    <3>1. i \in DOMAIN born[u] /\ born'[u][i] = born[u][i] /\ now' = now
        BY <1>1, <1>2, <1>5, <2>1, <2>2, <2>4
    <3>2. i > Len(born[u]) - Promised(u)
        BY <1>5, <2>1, <2>2
    <3>3. i \in Rows(u)
        BY <3>1, <3>2, KeptRow DEF IInv
    <3> QED BY <1>1, <1>5, <2>1, <2>2, <3>3 DEF Rows
  <2> QED BY <1>5, <2>1, <2>2, <2>3, <2>4
<1> QED BY <1>7, <1>8 DEF IInv

(* Rows are lost, and none that is promised: enough for both prunings.       *)
LEMMA DropInv ==
    ASSUME IInv, UNCHANGED <<now, born, size>>,
           phase' \in {"idle", "age", "size", "vacuum", "swept"},
           first' \in [Tables -> Nat],
           \A t \in Tables : /\ first[t] <= first'[t]
                             /\ first'[t] <= Len(born[t]) + 1,
           \A t \in Tables : \A i \in Rows(t) :
               i > Len(born[t]) - Promised(t) /\ (MaxAge[t] = 0 \/ now - born[t][i] <= MaxAge[t])
                   => first'[t] <= i
    PROVE  IInv'
<1>1. TypeOK
    BY DEF IInv
<1>2. \A t \in Tables : /\ first[t] \in Nat /\ first[t] >= 1
                        /\ Len(born[t]) \in Nat /\ first'[t] \in Nat
    BY <1>1 DEF TypeOK
<1>3. TypeOK'
  <2>0. \A t \in Tables : Count(t) \in Int /\ Count(t)' \in Int /\ Count(t)' <= Count(t)
      BY <1>2 DEF Count
  <2>1. Live' <= Live /\ Live' \in Int /\ Live \in Int
    <3>1. "runs" \in Tables /\ "metrics" \in Tables
        BY DEF Tables
    <3> QED BY <2>0, <3>1 DEF Live
  <2>3. size' \in Nat /\ size' >= Live'
      BY <1>1, <2>1 DEF TypeOK
  <2>4. \A t \in Tables : first'[t] \in 1 .. (Len(born'[t]) + 1)
      BY <1>2
  <2> QED BY <1>1, <2>3, <2>4 DEF TypeOK
<1>4. RecentKept'
  <2> SUFFICES ASSUME NEW t \in Tables, NEW i \in DOMAIN born[t],
                      i > Len(born[t]) - Promised(t),
                      MaxAge[t] = 0 \/ now - born[t][i] <= MaxAge[t]
               PROVE  i \in Rows(t)'
      BY DEF RecentKept, Promised
  <2>1. i \in Rows(t)
      BY KeptRow DEF IInv
  <2>2. first'[t] <= i
      BY <2>1
  <2> QED BY <1>2, <2>1, <2>2 DEF Rows
<1> QED BY <1>3, <1>4 DEF IInv

LEMMA PruneByAgeInv == IInv /\ PruneByAge => IInv'
<1> SUFFICES ASSUME IInv, PruneByAge PROVE IInv'
    OBVIOUS
<1>1. TypeOK
    BY DEF IInv
<1>2. ASSUME NEW t \in Tables
      PROVE  /\ FirstWithinLimits(t) \in Nat
             /\ first[t] <= FirstWithinLimits(t)
             /\ FirstWithinLimits(t) <= Len(born[t]) + 1
             /\ \A i \in Rows(t) :
                   i > Len(born[t]) - Promised(t)
                   /\ (MaxAge[t] = 0 \/ now - born[t][i] <= MaxAge[t])
                       => FirstWithinLimits(t) <= i
  <2> DEFINE S == {i \in Rows(t) : ~Old(t, i)} \cup {Len(born[t]) + 1}
             young == Min(S)
             over == Len(born[t]) + 1 - young - MaxRows[t]
  <2>1. /\ Len(born[t]) \in Nat /\ first[t] \in 1 .. (Len(born[t]) + 1)
        /\ now \in Nat /\ \A i \in 1 .. Len(born[t]) : born[t][i] \in Nat
      BY <1>1, TableTypes
  <2>2. S \subseteq Nat /\ S # {}
      BY <2>1 DEF Rows
  <2>3. young \in S /\ \A y \in S : young <= y
      BY <2>2, MinIsLeast
  <2>4. /\ young \in Nat /\ first[t] <= young /\ young <= Len(born[t]) + 1
        /\ \A i \in Rows(t) : ~Old(t, i) => young <= i
      BY <2>1, <2>3 DEF Rows
  <2>5. FirstWithinLimits(t) = IF MaxRows[t] > 0 /\ over > 0 THEN young + over ELSE young
      BY DEF FirstWithinLimits
  <2>6. \A i \in Rows(t) : (MaxAge[t] = 0 \/ now - born[t][i] <= MaxAge[t]) => ~Old(t, i)
      BY <2>1, LimitTypes DEF Old, Rows
  <2>10. young + over = Len(born[t]) + 1 - MaxRows[t] /\ over \in Int
      BY <2>1, <2>4, LimitTypes
  <2> HIDE DEF young, S, over
  <2>7. /\ MaxRows[t] \in Nat /\ Promised(t) \in Nat
        /\ MaxRows[t] > 0 => Promised(t) <= MaxRows[t]
      BY LimitTypes
  <2>8. CASE MaxRows[t] > 0 /\ over > 0
    <3>1. FirstWithinLimits(t) = Len(born[t]) + 1 - MaxRows[t]
        BY <2>5, <2>8, <2>10
    <3>2. over > 0 /\ MaxRows[t] > 0 /\ Promised(t) <= MaxRows[t]
        BY <2>7, <2>8
    <3>3. young < FirstWithinLimits(t) /\ FirstWithinLimits(t) \in Int
        BY <2>1, <2>4, <2>7, <2>10, <3>1, <3>2
    <3>4. FirstWithinLimits(t) <= Len(born[t]) + 1 /\ first[t] <= FirstWithinLimits(t)
        BY <2>1, <2>4, <2>7, <3>1, <3>3
    <3>5. ASSUME NEW i \in Rows(t), i > Len(born[t]) - Promised(t)
          PROVE  FirstWithinLimits(t) <= i
        BY <2>1, <2>7, <3>1, <3>2, <3>5 DEF Rows
    <3>6. FirstWithinLimits(t) \in Nat
        BY <2>1, <2>4, <3>3
    <3> QED BY <3>4, <3>5, <3>6
  <2>9. CASE ~(MaxRows[t] > 0 /\ over > 0)
    <3>1. FirstWithinLimits(t) = young
        BY <2>5, <2>9
    <3> QED BY <2>4, <2>6, <3>1
  <2> QED BY <2>8, <2>9
<1>3. /\ first' = [t \in Tables |-> FirstWithinLimits(t)]
      /\ UNCHANGED <<now, born, size>> /\ phase' = "size"
    BY DEF PruneByAge
<1>4. first' \in [Tables -> Nat] /\ \A t \in Tables : first'[t] = FirstWithinLimits(t)
    BY <1>2, <1>3
<1> QED BY <1>2, <1>3, <1>4, DropInv

LEMMA CutChunkInv == IInv /\ CutChunk => IInv'
<1> SUFFICES ASSUME IInv, CutChunk PROVE IInv'
    OBVIOUS
<1> DEFINE c == CutTable
<1>1. TypeOK
    BY DEF IInv
<1>2. c \in Tables /\ CanPrune(c)
    BY DEF CutChunk, CutTable, Tables
<1>3. /\ first' = [first EXCEPT ![c] = @ + Chunk(c)]
      /\ UNCHANGED <<now, born, size, phase>>
    BY DEF CutChunk
<1> HIDE DEF c
<1>4. /\ Len(born[c]) \in Nat /\ first[c] \in 1 .. (Len(born[c]) + 1)
      /\ Count(c) \in Nat
    BY <1>1, <1>2, TableTypes
<1>5. /\ Floor(c) \in Nat /\ Floor(c) >= 1
      /\ Promised(c) \in Nat /\ Promised(c) <= Floor(c)
    BY <1>2, LimitTypes
<1>6. Chunk(c) \in Nat /\ Chunk(c) <= Count(c) - Floor(c)
  <2>1. Count(c) > Floor(c)
      BY <1>2 DEF CanPrune
  <2>2. Share \in Nat \ {0} /\ MinChunk \in Nat
      BY RetentionAssumption
  <2>3. Count(c) \div Share \in Int
      BY <1>4, <2>2
  <2>4. Bigger(MinChunk, Count(c) \div Share) \in Nat
      BY <2>2, <2>3 DEF Bigger
  <2> QED BY <1>4, <1>5, <2>1, <2>4 DEF Chunk, Smaller
<1>7. /\ first[c] <= first[c] + Chunk(c)
      /\ first[c] + Chunk(c) <= Len(born[c]) + 1 - Floor(c)
    BY <1>4, <1>5, <1>6 DEF Count
<1>8. \A t \in Tables : first[t] \in Nat /\ first[t] <= Len(born[t]) + 1 /\ Len(born[t]) \in Nat
    BY <1>1 DEF TypeOK
<1>9. /\ first' \in [Tables -> Nat]
      /\ \A t \in Tables : first'[t] = IF t = c THEN first[c] + Chunk(c) ELSE first[t]
    BY <1>1, <1>2, <1>3, <1>4, <1>6 DEF TypeOK
<1>10. ASSUME NEW t \in Tables
       PROVE  first[t] <= first'[t] /\ first'[t] <= Len(born[t]) + 1
  <2>1. CASE t = c
      BY <1>4, <1>5, <1>7, <1>9, <2>1
  <2>2. CASE t # c
      BY <1>8, <1>9, <2>2
  <2> QED BY <2>1, <2>2
<1>11. ASSUME NEW t \in Tables, NEW i \in Rows(t), i > Len(born[t]) - Promised(t)
       PROVE  first'[t] <= i
  <2>1. i \in Nat /\ first[t] <= i
      BY <1>8 DEF Rows
  <2>2. CASE t = c
      BY <1>4, <1>5, <1>6, <1>7, <1>9, <1>11, <2>1, <2>2
  <2>3. CASE t # c
      BY <1>9, <2>1, <2>3
  <2> QED BY <2>2, <2>3
<1>12. phase' \in {"idle", "age", "size", "vacuum", "swept"}
    BY <1>1, <1>3, LiveType DEF TypeOK
<1> QED BY <1>3, <1>9, <1>10, <1>11, <1>12, DropInv

(* The rows stay as they are: what RecentKept says of them can only get      *)
(* weaker as they grow older.                                                *)
LEMMA SameRowsInv ==
    ASSUME IInv, UNCHANGED <<born, first>>,
           now' = now \/ now' = now + 1, now' <= MaxTime,
           size' = size \/ size' = Live,
           phase' \in {"idle", "age", "size", "vacuum", "swept"}
    PROVE  IInv'
<1>1. TypeOK
    BY DEF IInv
<1>2. now \in Nat /\ now' \in 0 .. MaxTime /\ now <= now' /\ 0 .. now \subseteq 0 .. now'
    BY <1>1, RetentionAssumption DEF TypeOK
<1>3. TypeOK'
  <2>1. born' \in [Tables -> Seq(0 .. now')]
      BY <1>1, <1>2 DEF TypeOK
  <2>2. Live' = Live /\ Live \in Nat
      BY <1>1, LiveType DEF Live, Count
  <2> QED BY <1>1, <1>2, <2>1, <2>2 DEF TypeOK
<1>4. RecentKept'
  <2> SUFFICES ASSUME NEW t \in Tables, NEW i \in DOMAIN born[t],
                      i > Len(born[t]) - Promised(t),
                      MaxAge[t] = 0 \/ now' - born[t][i] <= MaxAge[t]
               PROVE  i \in Rows(t)
      BY DEF RecentKept, Promised, Rows
  <2>1. born[t][i] \in Nat /\ MaxAge[t] \in Nat
      BY <1>1, TableTypes, LimitTypes DEF TypeOK
  <2>2. MaxAge[t] = 0 \/ now - born[t][i] <= MaxAge[t]
      BY <1>2, <2>1
  <2> QED BY <2>2, KeptRow DEF IInv
<1> QED BY <1>3, <1>4 DEF IInv

LEMMA NextInv == IInv /\ [Next]_vars => IInv'
<1> SUFFICES ASSUME IInv, [Next]_vars PROVE IInv'
    OBVIOUS
<1>1. TypeOK /\ now \in Nat /\ now <= MaxTime
    BY RetentionAssumption DEF IInv, TypeOK
<1>2. CASE SaveRun
    BY <1>2, InsertInv DEF SaveRun, Tables
<1>3. CASE SaveMetric
    BY <1>3, InsertInv DEF SaveMetric, Tables
<1>4. CASE PruneByAge
    BY <1>4, PruneByAgeInv
<1>5. CASE CutChunk
    BY <1>5, CutChunkInv
<1>6. CASE StartSweep
    BY <1>1, <1>6, SameRowsInv DEF StartSweep
<1>7. CASE EndCuts
    BY <1>1, <1>7, SameRowsInv DEF EndCuts
<1>8. CASE Vacuum
    BY <1>1, <1>8, SameRowsInv DEF Vacuum
<1>9. CASE Abort
    BY <1>1, <1>9, SameRowsInv DEF Abort
<1>10. CASE NextDay
  <2>1. now' <= MaxTime
      BY <1>1, <1>10, RetentionAssumption DEF NextDay
  <2> QED BY <1>10, <2>1, SameRowsInv DEF NextDay
<1>11. CASE UNCHANGED vars
  <2>1. phase \in {"idle", "age", "size", "vacuum", "swept"}
      BY <1>1 DEF TypeOK
  <2> QED BY <1>1, <1>11, <2>1, SameRowsInv DEF vars
<1> QED BY <1>2, <1>3, <1>4, <1>5, <1>6, <1>7, <1>8, <1>9, <1>10, <1>11 DEF Next, Sweep

-----------------------------------------------------------------------------
(* The invariant holds of every sequence of runs, sweeps and crashes.        *)
THEOREM Invariance == Spec => []IInv
BY InitInv, NextInv, PTL DEF Spec

(* The tables, the file and the sweep of storage/runs.py keep their types,   *)
(* and the file always has room for the rows.                                *)
THEOREM RetentionTypeCorrect == Spec => []TypeOK
<1>1. IInv => TypeOK
    BY DEF IInv
<1> QED BY <1>1, Invariance, PTL

(* For every limit and floor: the newest rows that min_rows_to_keep promises *)
(* survive every sequence of sweeps until they are too old, the row that was *)
(* saved last always.                                                        *)
THEOREM RecentRowsKept == Spec => []RecentKept
<1>1. IInv => RecentKept
    BY DEF IInv
<1> QED BY <1>1, Invariance, PTL

-----------------------------------------------------------------------------
(* The adaptive policy *)

\* A window of calls keeps its type and its size when a call is added.
LEMMA WindowKept ==
  ASSUME NEW calls \in Seq(BOOLEAN), Len(calls) <= Window, NEW b \in BOOLEAN
  PROVE  /\ LastCalls(Append(calls, b)) \in Seq(BOOLEAN)
         /\ Len(LastCalls(Append(calls, b))) <= Window
<1>1. /\ Append(calls, b) \in Seq(BOOLEAN)
      /\ Len(Append(calls, b)) = Len(calls) + 1
      /\ Len(calls) \in Nat /\ Window \in Nat
  BY PolicyAssumption
<1>2. Append(calls, b) # <<>>
  BY <1>1
<1>3. /\ Tail(Append(calls, b)) \in Seq(BOOLEAN)
      /\ Len(Tail(Append(calls, b))) = Len(calls)
  BY <1>1, <1>2
<1>4. CASE Len(Append(calls, b)) > Window
  <2>1. LastCalls(Append(calls, b)) = Tail(Append(calls, b))
    BY <1>4 DEF LastCalls
  <2>2. QED
    BY <1>3, <2>1
<1>5. CASE ~(Len(Append(calls, b)) > Window)
  <2>1. LastCalls(Append(calls, b)) = Append(calls, b)
    BY <1>5 DEF LastCalls
  <2>2. QED
    BY <1>1, <1>5, <2>1
<1>6. QED
  BY <1>4, <1>5

\* What recording a success does to the counters.
LEMMA AfterSuccess ==
  ASSUME policy \in SiteState, NEW a \in BOOLEAN, NEW b \in BOOLEAN, RecordOk(a, b)
  PROVE  policy' = [success    |-> policy.success + 1,
                    failure    |-> policy.failure,
                    okStreak   |-> policy.okStreak + 1,
                    failStreak |-> 0,
                    priced     |-> policy.priced + AsCount(a),
                    misses     |-> policy.misses + AsCount(b),
                    timeouts   |-> policy.timeouts]
BY DEF RecordOk, SiteState

\* What recording a failure does to them.
LEMMA AfterFailure ==
  ASSUME policy \in SiteState, NEW t \in BOOLEAN, RecordError(t)
  PROVE  policy' = [success    |-> policy.success,
                    failure    |-> policy.failure + 1,
                    okStreak   |-> 0,
                    failStreak |-> policy.failStreak + 1,
                    priced     |-> policy.priced,
                    misses     |-> policy.misses,
                    timeouts   |-> policy.timeouts + AsCount(t)]
BY DEF RecordError, SiteState

\* The counters of a site are numbers, and a flag counts for at most one.
LEMMA Numbers ==
  /\ \A st \in SiteState :
         {st.success, st.failure, st.okStreak, st.failStreak,
          st.priced, st.misses, st.timeouts} \subseteq Nat
  /\ \A b \in BOOLEAN : AsCount(b) \in {0, 1}
BY DEF SiteState, AsCount

\* Every variable keeps its type.
THEOREM PolicyTypeCorrect == PolicySpec => []PolicyTypeOK
<1>1. PolicyInit => PolicyTypeOK
  BY PolicyAssumption DEF PolicyInit, PolicyTypeOK, NewSite, SiteState
<1>2. PolicyTypeOK /\ [PolicyNext]_policyVars => PolicyTypeOK'
  <2>. SUFFICES ASSUME PolicyTypeOK, [PolicyNext]_policyVars PROVE PolicyTypeOK'
    OBVIOUS
  <2>1. CASE LlmCall
    BY <2>1, WindowKept DEF LlmCall, PolicyTypeOK
  <2>2. CASE RunEnds
    <3>1. policy' \in SiteState
      <4>1. ASSUME NEW a \in BOOLEAN, NEW b \in BOOLEAN, RecordOk(a, b)
            PROVE  policy' \in SiteState
        BY <4>1, AfterSuccess, Numbers DEF PolicyTypeOK, SiteState
      <4>2. ASSUME NEW t \in BOOLEAN, RecordError(t)
            PROVE  policy' \in SiteState
        BY <4>2, AfterFailure, Numbers DEF PolicyTypeOK, SiteState
      <4>3. QED
        BY <2>2, <4>1, <4>2 DEF RunEnds
    <3>2. QED
      BY <2>2, <3>1 DEF RunEnds, PolicyTypeOK
  <2>3. CASE CrashInSave
    BY <2>3 DEF CrashInSave, PolicyTypeOK, NewSite, SiteState
  <2>4. CASE UNCHANGED policyVars
    BY <2>4 DEF policyVars, PolicyTypeOK
  <2>5. QED
    BY <2>1, <2>2, <2>3, <2>4 DEF PolicyNext
<1>3. QED
  BY <1>1, <1>2, PTL DEF PolicySpec

\* The counters of a site tell one story, whatever the order of its runs.
THEOREM CountersAgree == PolicySpec => []CountsAgree
<1>1. PolicyInit => CountsAgree
  BY DEF PolicyInit, CountsAgree, NewSite
<1>2. PolicyTypeOK /\ CountsAgree /\ [PolicyNext]_policyVars => CountsAgree'
  <2>. SUFFICES ASSUME PolicyTypeOK, CountsAgree, [PolicyNext]_policyVars PROVE CountsAgree'
    OBVIOUS
  <2>1. CASE RunEnds
    <3>1. ASSUME NEW a \in BOOLEAN, NEW b \in BOOLEAN, RecordOk(a, b)
          PROVE  CountsAgree'
      BY <3>1, AfterSuccess, Numbers DEF PolicyTypeOK, CountsAgree
    <3>2. ASSUME NEW t \in BOOLEAN, RecordError(t)
          PROVE  CountsAgree'
      BY <3>2, AfterFailure, Numbers DEF PolicyTypeOK, CountsAgree
    <3>3. QED
      BY <2>1, <3>1, <3>2 DEF RunEnds
  <2>2. CASE CrashInSave
    BY <2>2 DEF CrashInSave, CountsAgree, NewSite
  <2>3. CASE LlmCall \/ UNCHANGED policyVars
    BY <2>3 DEF LlmCall, policyVars, CountsAgree
  <2>4. QED
    BY <2>1, <2>2, <2>3 DEF PolicyNext
<1>3. QED
  BY <1>1, <1>2, PolicyTypeCorrect, PTL DEF PolicySpec

\* The limits that pressure imposes are below their caps.
LEMMA PressuredLimits ==
  /\ PressuredProfile.planner <= PlannerCap
  /\ PressuredProfile.extract <= ExtractCap
  /\ ~PressuredProfile.plans
BY PolicyAssumption DEF PressuredProfile, Lesser

\* How many calls of a window timed out is a number.
LEMMA TimeoutCallsType ==
  ASSUME NEW calls \in Seq(BOOLEAN)
  PROVE  TimeoutCalls(calls) \in Nat
<1>. DEFINE Timeouts == {i \in DOMAIN calls : calls[i]}
<1>1. DOMAIN calls = 1 .. Len(calls) /\ Len(calls) \in Nat
  OBVIOUS
<1>2. IsFiniteSet(DOMAIN calls)
  BY <1>1, FS_Interval
<1>3. IsFiniteSet(Timeouts)
  BY <1>2, FS_Subset
<1>4. QED
  BY <1>3, FS_CardinalityType DEF TimeoutCalls

\* Seventy per cent is at least forty.
LEMMA PressureIsNoRecovery ==
  ASSUME NEW calls \in Seq(BOOLEAN), UnderPressure(calls)
  PROVE  AtLeast(40, calls)
<1>1. TimeoutCalls(calls) \in Nat /\ Len(calls) \in Nat
  BY TimeoutCallsType
<1>2. QED
  BY <1>1 DEF UnderPressure, AtLeast

\* Under pressure the limits of a call stay capped, for any window, caps and streaks.
THEOREM LimitsCappedUnderPressure == PolicySpec => []PressureCaps
<1>1. PolicyTypeOK => PressureCaps
  BY PressuredLimits, PressureIsNoRecovery
     DEF PolicyTypeOK, PressureCaps, Profile, RecommendedProfile, Recovered
<1>2. QED
  BY <1>1, PolicyTypeCorrect, PTL

\* A profile that can follow a profile p after a failure: no limit shrinks and no
\* escalation is taken back.
Grows(p, q) ==
    /\ {p.planner, p.extract, q.planner, q.extract} \subseteq Nat
    /\ p.planner <= q.planner /\ p.extract <= q.extract
    /\ "timeout_pressure" \notin p.reasons /\ "timeout_pressure" \notin q.reasons
    /\ \A r \in {"planner_escalation", "extract_escalation"} :
           r \in p.reasons => r \in q.reasons

\* The time a profile requires grows with the profile.
LEMMA RequirementGrows ==
  ASSUME NEW p, NEW q, Grows(p, q)
  PROVE  /\ RequiredTimeout(p) \in Nat /\ RequiredTimeout(q) \in Nat
         /\ RequiredTimeout(p) <= RequiredTimeout(q)
BY DEF Grows, RequiredTimeout, Larger

\* The condition under which a limit only grows with its profile: a profile that asks
\* for no time at all gets the base limit, which may be above the cap.
SomeLimit == PlannerTimeout > 0 \/ ExtractTimeout > 0

\* So does the limit of the next scenario.
LEMMA LimitGrows ==
  ASSUME NEW p, NEW q, Grows(p, q), p.planner > 0 \/ p.extract > 0
  PROVE  CandidateTimeout(q) >= CandidateTimeout(p)
<1>1. q.planner > 0 \/ q.extract > 0
  BY DEF Grows
<1>2. /\ RequiredTimeout(p) \in Nat /\ RequiredTimeout(q) \in Nat
      /\ RequiredTimeout(p) <= RequiredTimeout(q)
  BY RequirementGrows
<1>3. BaseTimeout \in Nat /\ TimeoutCap \in Nat
  BY PolicyAssumption
<1>4. QED
  BY <1>1, <1>2, <1>3 DEF CandidateTimeout, Larger, Lesser, Grows

\* A failure takes the escalated profile of a site, or the default one, to one at
\* least as long.
LEMMA EscalationGrows ==
  ASSUME NEW st \in SiteState, NEW next \in SiteState,
         next.failStreak = st.failStreak + 1, next.misses = st.misses,
         NEW p \in {EscalatedProfile(st), DefaultProfile({"recovered"})}
  PROVE  Grows(p, EscalatedProfile(next))
<1>1. /\ PlannerTimeout \in Nat /\ ExtractTimeout \in Nat
      /\ st.failStreak \in Nat /\ st.misses \in Nat
  BY PolicyAssumption DEF SiteState
<1>2. /\ ExtractEscalated(st) => ExtractEscalated(next)
      /\ PlannerEscalated(st) => PlannerEscalated(next)
  BY <1>1 DEF ExtractEscalated, PlannerEscalated
<1>3. Grows(EscalatedProfile(st), EscalatedProfile(next))
  BY <1>1, <1>2 DEF Grows, EscalatedProfile, Escalations, Larger
<1>4. Grows(DefaultProfile({"recovered"}), EscalatedProfile(next))
  BY <1>1 DEF Grows, EscalatedProfile, DefaultProfile, Escalations, Larger
<1>5. QED
  BY <1>3, <1>4

\* A run that fails never shrinks the limit of the next scenario, whatever the
\* thresholds, as long as one of the two LLM limits is not zero.
THEOREM FailureKeepsTime ==
  ASSUME SomeLimit
  PROVE  PolicySpec => FailureNeverShrinks
<1>1. PolicyTypeOK /\ [PolicyNext]_policyVars => [policy'.failure > policy.failure => Budget' >= Budget]_policyVars
  <2>. SUFFICES ASSUME PolicyTypeOK, PolicyNext, policy'.failure > policy.failure
                PROVE  Budget' >= Budget
    BY DEF policyVars
  <2>1. PICK t \in BOOLEAN : RecordError(t) /\ UNCHANGED metrics
    <3>1. ~LlmCall /\ ~CrashInSave
      BY Numbers DEF LlmCall, CrashInSave, NewSite, PolicyTypeOK
    <3>2. ASSUME NEW a \in BOOLEAN, NEW b \in BOOLEAN, RecordOk(a, b)
          PROVE  FALSE
      BY <3>2, AfterSuccess, Numbers DEF PolicyTypeOK
    <3>3. QED
      BY <3>1, <3>2 DEF PolicyNext, RunEnds
  <2>2. /\ policy \in SiteState /\ policy' \in SiteState
        /\ policy'.failStreak = policy.failStreak + 1
        /\ policy'.misses = policy.misses /\ policy'.okStreak = 0
        /\ metrics' = metrics /\ metrics \in Seq(BOOLEAN)
    <3>1. policy \in SiteState /\ metrics \in Seq(BOOLEAN)
      BY DEF PolicyTypeOK
    <3>2. policy' \in SiteState
      BY <2>1, <3>1, AfterFailure, Numbers DEF SiteState
    <3>3. QED
      BY <2>1, <3>1, <3>2, AfterFailure
  <2>3. CASE ~LightMode
    BY <2>2, <2>3, PolicyAssumption DEF Budget, Profile, RecommendedProfile, CandidateTimeout, Larger
  <2>4. CASE LightMode /\ UnderPressure(metrics)
    <3>1. Profile = PressuredProfile /\ Profile' = PressuredProfile
      BY <2>2, <2>4, PressureIsNoRecovery DEF Profile, RecommendedProfile, Recovered
    <3>2. CandidateTimeout(PressuredProfile) \in Nat
      <4>1. PressuredProfile.planner \in Nat /\ PressuredProfile.extract \in Nat
        BY PolicyAssumption DEF PressuredProfile, Lesser
      <4>2. RequiredTimeout(PressuredProfile) \in Nat
        BY <4>1 DEF RequiredTimeout, Larger
      <4>3. QED
        BY <4>2, PolicyAssumption DEF CandidateTimeout, Larger, Lesser
    <3>3. QED
      BY <3>1, <3>2 DEF Budget
  <2>5. CASE LightMode /\ ~UnderPressure(metrics)
    <3>1. Profile' = EscalatedProfile(policy')
      BY <2>2, <2>5 DEF Profile, RecommendedProfile, Recovered
    <3>2. Profile \in {EscalatedProfile(policy), DefaultProfile({"recovered"})}
      BY <2>5 DEF Profile, RecommendedProfile
    <3>3. Grows(Profile, EscalatedProfile(policy'))
      BY <2>2, <3>2, EscalationGrows
    <3>4. Profile.planner > 0 \/ Profile.extract > 0
      BY <3>2, PolicyAssumption DEF SomeLimit, EscalatedProfile, DefaultProfile, Larger
    <3>5. CandidateTimeout(EscalatedProfile(policy')) >= CandidateTimeout(Profile)
      BY <3>3, <3>4, LimitGrows
    <3>6. QED
      BY <3>1, <3>5 DEF Budget
  <2>6. QED
    BY <2>3, <2>4, <2>5
<1>2. QED
  BY <1>1, PolicyTypeCorrect, PTL DEF PolicySpec, FailureNeverShrinks

-----------------------------------------------------------------------------
(***************************************************************************)
(* PriceWatch, for every alert policy, every cooldown and every history    *)
(* of runs.  What an alert compares with is the maximum of a set of row    *)
(* numbers; that there is one is kept as an invariant (Maxima), row by     *)
(* row, instead of being proved by induction on the set.                   *)
(***************************************************************************)
HasMax(S) == \E x \in S : \A y \in S : x >= y
Maxima(rows) == \A n \in 1 .. Len(rows) + 1 : HasMax(Before(rows, n))

Times ==
    /\ \A i \in DOMAIN history : history[i].at <= clock
    /\ \A i, j \in DOMAIN history : i <= j => history[i].at <= history[j].at

Places ==
    /\ step \in {"read", "save"} => Len(history) < RunBound
    /\ step = "save" => previous = LastBefore(Len(history) + 1)
    /\ step \in {"evaluate", "dispatch", "done"} =>
          Len(history) > 0 /\ previous = LastBefore(Len(history))
    /\ step \in {"evaluate", "dispatch"} =>
          /\ history[Len(history)].price = found
          /\ \A i \in DOMAIN alerts : alerts[i].row < Len(history)
    /\ step = "dispatch" => previous = 0 \/ clock - history[previous].at >= Cooldown

Order == \A i, j \in DOMAIN alerts : i < j => alerts[i].row < alerts[j].row

(* The inductive invariant. *)
WatchInv ==
    /\ WatchTypeOK /\ Maxima(history) /\ Times /\ Places /\ Order
    /\ ComparesWithLast /\ PriceAlertsSpaced /\ QualifyingChangeNoticed

-----------------------------------------------------------------------------
(* The last priced row                                                     *)

LEMMA MaxIs ==
    ASSUME NEW S \in SUBSET Nat, NEW x \in S, \A y \in S : x >= y
    PROVE  Max(S) = x
<1>1. Max(S) \in S /\ \A y \in S : Max(S) >= y
  BY DEF Max
<1>2. x \in Nat /\ Max(S) \in Nat
  BY <1>1
<1>3. x >= Max(S) /\ Max(S) >= x
  BY <1>1
<1>. HIDE DEF Max
<1>. QED  BY <1>2, <1>3

LEMMA BeforeType ==
    ASSUME NEW rows \in Seq(RouteRows), NEW n \in Nat
    PROVE  /\ Priced(rows) \subseteq 1 .. Len(rows)
           /\ Before(rows, n) \in SUBSET (0 .. Len(rows))
           /\ \A j \in Before(rows, n) : j = 0 \/ j < n
BY DEF Priced, Before

LEMMA RowType ==
    ASSUME history \in Seq(RouteRows), NEW i \in 1 .. Len(history)
    PROVE  history[i].at \in 0 .. LastTime /\ history[i].at \in Nat
<1>1. history[i] \in RouteRows
  OBVIOUS
<1>. QED  BY <1>1, WatchAssumption DEF RouteRows

LEMMA AlertType ==
    ASSUME WatchTypeOK, NEW i \in DOMAIN alerts
    PROVE  alerts[i].row \in 1 .. Len(history) /\ alerts[i].at \in Nat
<1>1. alerts[i] \in Alerts /\ Len(history) \in Nat /\ alerts[i].row <= Len(history)
  BY DEF WatchTypeOK
<1>. QED  BY <1>1, WatchAssumption DEF Alerts

LEMMA LastBeforeIs ==
    ASSUME history \in Seq(RouteRows), Maxima(history), NEW n \in 1 .. Len(history) + 1
    PROVE  /\ LastBefore(n) \in Before(history, n)
           /\ \A j \in Before(history, n) : LastBefore(n) >= j
<1>1. Before(history, n) \in SUBSET Nat
  BY BeforeType
<1>2. PICK x \in Before(history, n) : \A y \in Before(history, n) : x >= y
  BY DEF Maxima, HasMax
<1>3. LastBefore(n) = Max(Before(history, n))
  BY DEF LastBefore
<1>. QED  BY <1>1, <1>2, <1>3, MaxIs

\* get_last_price_record, at the end of the history.
LEMMA LastPricedIs ==
    ASSUME history \in Seq(RouteRows), Maxima(history)
    PROVE  LastPriced(history) = LastBefore(Len(history) + 1)
<1>. DEFINE n == Len(history) + 1
<1>1. n \in 1 .. Len(history) + 1 /\ n \in Nat
  OBVIOUS
<1>2. /\ LastBefore(n) \in Before(history, n)
      /\ \A j \in Before(history, n) : LastBefore(n) >= j
  BY <1>1, LastBeforeIs
<1>3. Priced(history) \subseteq 1 .. Len(history)
  BY BeforeType
<1>4. Before(history, n) = {0} \cup Priced(history)
  BY <1>3 DEF Before
<1>5. CASE Priced(history) = {}
  BY <1>2, <1>4, <1>5 DEF LastPriced
<1>6. CASE Priced(history) # {}
  <2>1. LastBefore(n) \in Priced(history)
    BY <1>2, <1>3, <1>4, <1>6
  <2>. QED  BY <1>2, <1>3, <1>4, <1>6, <2>1, MaxIs DEF LastPriced
<1>. QED  BY <1>5, <1>6

\* A new row changes nothing before it, and there is a last row before the next.
LEMMA RowAdded ==
    ASSUME NEW rows \in Seq(RouteRows), NEW r \in RouteRows, Maxima(rows)
    PROVE  /\ Len(Append(rows, r)) = Len(rows) + 1
           /\ \A i \in DOMAIN rows : i \in DOMAIN Append(rows, r) /\ Append(rows, r)[i] = rows[i]
           /\ Append(rows, r)[Len(rows) + 1] = r
           /\ \A n \in 1 .. Len(rows) + 1 : Before(Append(rows, r), n) = Before(rows, n)
           /\ Maxima(Append(rows, r))
<1>. DEFINE more == Append(rows, r)
<1>1. /\ Len(more) = Len(rows) + 1 /\ Len(rows) \in Nat /\ more \in Seq(RouteRows)
      /\ DOMAIN rows = 1 .. Len(rows) /\ DOMAIN more = 1 .. Len(rows) + 1
      /\ \A i \in DOMAIN rows : more[i] = rows[i]
      /\ more[Len(rows) + 1] = r
  OBVIOUS
<1>. HIDE DEF more
<1>2. ASSUME NEW n \in 1 .. Len(rows) + 1 PROVE Before(more, n) = Before(rows, n)
  BY <1>1 DEF Before, Priced
<1>3. ASSUME NEW n \in 1 .. Len(more) + 1 PROVE HasMax(Before(more, n))
  <2>1. CASE n <= Len(rows) + 1
    BY <1>1, <1>2, <2>1 DEF Maxima
  <2>2. CASE n = Len(rows) + 2 /\ r.price # NoPrice
    <3>1. Len(rows) + 1 \in Before(more, n)
      BY <1>1, <2>2 DEF Before, Priced
    <3>2. \A y \in Before(more, n) : Len(rows) + 1 >= y
      BY <1>1, <2>2 DEF Before, Priced
    <3>. QED  BY <3>1, <3>2 DEF HasMax
  <2>3. CASE n = Len(rows) + 2 /\ r.price = NoPrice
    <3>1. Before(more, n) = Before(rows, Len(rows) + 1)
      BY <1>1, <2>3 DEF Before, Priced
    <3>. QED  BY <1>1, <3>1 DEF Maxima
  <2>. QED  BY <1>1, <2>1, <2>2, <2>3
<1>. QED  BY <1>1, <1>2, <1>3 DEF Maxima, more

-----------------------------------------------------------------------------
(* The steps of a run                                                      *)

LEMMA WatchInitInv == WatchInit => WatchInv
<1>. SUFFICES ASSUME WatchInit PROVE WatchInv
  OBVIOUS
<1>1. Maxima(history)
  <2>1. Before(history, 1) = {0}
    BY DEF WatchInit, Before, Priced
  <2>. QED  BY <2>1 DEF WatchInit, Maxima, HasMax
<1>2. WatchTypeOK
  BY WatchAssumption DEF WatchInit, WatchTypeOK
<1>. QED
  BY <1>1, <1>2 DEF WatchInit, WatchInv, Times, Places, Order, ComparesWithLast, PriceAlertsSpaced,
                    QualifyingChangeNoticed, Priced

\* Where the history and what was decided stay as they are, only the place and the
\* clock are looked at.
LEMMA Unwritten ==
    ASSUME WatchInv, WatchTypeOK', UNCHANGED <<history, decisions, alerts>>, clock' >= clock
    PROVE  /\ Maxima(history)' /\ Times' /\ Order'
           /\ ComparesWithLast' /\ PriceAlertsSpaced' /\ QualifyingChangeNoticed'
<1>1. Maxima(history)' /\ Order'
  BY DEF WatchInv, Maxima, HasMax, Before, Priced, Order
<1>2. Times'
  <2>1. ASSUME NEW i \in DOMAIN history PROVE history[i].at <= clock'
    <3>1. history[i].at \in Nat /\ clock \in Nat /\ clock' \in Nat
      BY RowType, WatchAssumption DEF WatchInv, WatchTypeOK
    <3>2. history[i].at <= clock
      BY DEF WatchInv, Times
    <3>. QED  BY <3>1, <3>2
  <2>. QED  BY <2>1 DEF WatchInv, Times
<1>3. ComparesWithLast' /\ PriceAlertsSpaced' /\ QualifyingChangeNoticed'
  BY DEF WatchInv, ComparesWithLast, PriceAlertsSpaced, QualifyingChangeNoticed, LastBefore, Priced,
         Qualifies
<1>. QED  BY <1>1, <1>2, <1>3

\* The price is compared with the last one there was, whatever was lost before.
LEMMA ReadInv == WatchInv /\ ReadPrevious => WatchInv'
<1>. SUFFICES ASSUME WatchInv, ReadPrevious PROVE WatchInv'
  OBVIOUS
<1>0. history \in Seq(RouteRows) /\ Maxima(history) /\ clock \in Nat /\ Len(history) \in Nat
  BY DEF WatchInv, WatchTypeOK
<1>1. previous' = LastBefore(Len(history) + 1)
  BY <1>0, LastPricedIs DEF ReadPrevious
<1>2. previous' \in 0 .. Len(history)
  BY <1>0, <1>1, LastBeforeIs, BeforeType
<1>3. WatchTypeOK'
  BY <1>0, <1>2, WatchAssumption DEF WatchInv, WatchTypeOK, ReadPrevious
<1>4. Places'
  BY <1>1 DEF WatchInv, ReadPrevious, Places, LastBefore, Priced
<1>. QED  BY <1>0, <1>3, <1>4, Unwritten DEF ReadPrevious, WatchInv

LEMMA SaveInv ==
    ASSUME WatchInv, SaveRow
    PROVE  WatchInv'
<1>. DEFINE row == [price |-> found, at |-> clock]
            n == Len(history)
<1>0. /\ history \in Seq(RouteRows) /\ Maxima(history) /\ n \in Nat /\ row \in RouteRows
      /\ clock \in 0 .. LastTime /\ LastTime \in Nat /\ RunBound \in Nat
      /\ history' = Append(history, row) /\ step' = "evaluate"
      /\ UNCHANGED <<clock, found, previous, alerts>>
      /\ previous = LastBefore(n + 1)
  BY WatchAssumption DEF WatchInv, WatchTypeOK, SaveRow, RouteRows, Places
<1>1. /\ Len(history') = n + 1 /\ Maxima(history)'
      /\ \A i \in 1 .. n : history'[i] = history[i]
      /\ history'[n + 1] = row
      /\ DOMAIN history' = 1 .. n + 1 /\ DOMAIN history = 1 .. n
      /\ history' \in Seq(RouteRows)
  BY <1>0, RowAdded
<1>2. \A i \in 1 .. n + 1 : Before(history', i) = Before(history, i)
  BY <1>0, RowAdded
<1>3. WatchTypeOK'
  <2>1. /\ decisions \in Seq(Reasons \cup {"none"}) /\ Len(decisions) = n
        /\ decisions' = Append(decisions, "none") /\ n < RunBound
    BY DEF WatchInv, WatchTypeOK, SaveRow, Places
  <2>2. decisions' \in Seq(Reasons \cup {"none"}) /\ Len(decisions') = n + 1
    BY <2>1
  <2>3. /\ found \in Prices \cup {NoPrice} /\ previous \in 0 .. RunBound
        /\ alerts \in Seq(Alerts) /\ \A i \in DOMAIN alerts : alerts[i].row \in 1 .. n
    BY AlertType DEF WatchInv, WatchTypeOK
  <2>. QED  BY <1>0, <1>1, <2>1, <2>2, <2>3 DEF WatchTypeOK
<1>4. Times'
  <2>1. /\ \A i \in 1 .. n : history[i].at <= clock
        /\ \A i, j \in 1 .. n : i <= j => history[i].at <= history[j].at
    BY <1>1 DEF WatchInv, Times
  <2>. QED  BY <1>0, <1>1, <2>1 DEF Times
<1>5. Places' /\ Order'
  <2>1. \A i \in DOMAIN alerts : alerts[i].row \in 1 .. n
    BY AlertType DEF WatchInv
  <2>2. previous = LastBefore(Len(history))'
    BY <1>0, <1>1, <1>2 DEF LastBefore
  <2>. QED  BY <1>0, <1>1, <2>1, <2>2 DEF WatchInv, Places, Order
<1>6. ASSUME NEW i \in DOMAIN alerts
      PROVE  /\ alerts[i].row \in 1 .. n
             /\ alerts[i].row \in Priced(history)' <=> alerts[i].row \in Priced(history)
  <2>1. alerts[i].row \in 1 .. n
    BY AlertType DEF WatchInv
  <2>. QED  BY <1>0, <1>1, <2>1 DEF Priced
<1>7. ComparesWithLast'
  BY <1>0, <1>2, <1>6 DEF WatchInv, ComparesWithLast, LastBefore
<1>8. PriceAlertsSpaced'
  BY <1>0, <1>1, <1>6 DEF WatchInv, PriceAlertsSpaced
<1>9. QualifyingChangeNoticed'
  <2>. SUFFICES ASSUME NEW i \in Priced(history)', LastBefore(i)' # 0,
                       Qualifies(LastBefore(i), i)', decisions'[i] # "none"
                PROVE  decisions'[i] \in {"cooldown_active", "threshold_met",
                                          "target_price_reached"}
    BY DEF QualifyingChangeNoticed
  <2>1. /\ decisions' = Append(decisions, "none") /\ Len(decisions) = n
        /\ decisions \in Seq(Reasons \cup {"none"})
    BY DEF SaveRow, WatchInv, WatchTypeOK
  <2>2. i \in 1 .. n /\ i \in Priced(history) /\ decisions'[i] = decisions[i]
    BY <1>0, <1>1, <2>1 DEF Priced
  <2>3. LastBefore(i)' = LastBefore(i)
    BY <1>0, <1>2, <2>2 DEF LastBefore
  <2>5. LastBefore(i) \in 1 .. n
    BY <1>0, <2>2, <2>3, LastBeforeIs, BeforeType
  <2>4. Qualifies(LastBefore(i), i)
    BY <1>1, <2>2, <2>3, <2>5 DEF Qualifies
  <2>. QED  BY <2>2, <2>3, <2>4 DEF WatchInv, QualifyingChangeNoticed
<1>. QED  BY <1>1, <1>3, <1>4, <1>5, <1>7, <1>8, <1>9 DEF WatchInv

\* A change that qualifies is decided as one, and no alert is decided on within
\* the cooldown.
LEMMA EvaluateInv ==
    ASSUME WatchInv, Evaluate
    PROVE  WatchInv'
<1>. DEFINE n == Len(history)
            reason == Reason(found, previous)
<1>0. /\ history \in Seq(RouteRows) /\ Maxima(history) /\ n \in Nat \ {0} /\ DOMAIN history = 1 .. n
      /\ clock \in 0 .. LastTime /\ LastTime \in Nat /\ Cooldown \in Nat
      /\ previous = LastBefore(n) /\ history[n].price = found
      /\ decisions \in Seq(Reasons \cup {"none"}) /\ DOMAIN decisions = 1 .. n
      /\ UNCHANGED <<clock, found, previous, history, alerts>>
      /\ decisions' = [decisions EXCEPT ![n] = reason]
      /\ step' = IF ShouldAlert(reason) THEN "dispatch" ELSE "done"
  BY WatchAssumption DEF WatchInv, WatchTypeOK, Evaluate, Current, Places
<1>1. reason \in Reasons
  BY DEF Reason, Reasons
<1>2. previous \in 0 .. n - 1
  BY <1>0, LastBeforeIs, BeforeType
<1>. HIDE DEF reason
<1>3. WatchTypeOK'
  BY <1>0, <1>1 DEF WatchInv, WatchTypeOK
<1>4. Maxima(history)' /\ Times' /\ Order' /\ ComparesWithLast' /\ PriceAlertsSpaced'
  BY <1>0 DEF WatchInv, Maxima, HasMax, Before, Times, Order, ComparesWithLast, PriceAlertsSpaced,
              LastBefore, Priced
<1>5. Places'
  <2>1. ASSUME ShouldAlert(reason), previous # 0
        PROVE  clock - history[previous].at >= Cooldown
    <3>1. ~InCooldown(previous)
      BY <2>1 DEF ShouldAlert, Reason, reason
    <3>2. previous \in 1 .. n
      BY <1>0, <1>2, <2>1
    <3>3. history[previous].at \in Nat /\ history[previous].at <= clock
      BY <1>0, <3>2, RowType DEF WatchInv, Times
    <3>. QED  BY <1>0, <2>1, <3>1, <3>3 DEF InCooldown
  <2>2. previous = LastBefore(n)'
    BY <1>0 DEF LastBefore, Priced
  <2>3. \A i \in DOMAIN alerts : alerts[i].row < n
    BY DEF WatchInv, Places, Evaluate
  <2>. QED  BY <1>0, <2>1, <2>2, <2>3 DEF Places
<1>6. QualifyingChangeNoticed'
  <2>. SUFFICES ASSUME NEW i \in Priced(history), LastBefore(i) # 0,
                       Qualifies(LastBefore(i), i), decisions'[i] # "none"
                PROVE  decisions'[i] \in {"cooldown_active", "threshold_met",
                                          "target_price_reached"}
    BY <1>0 DEF QualifyingChangeNoticed, LastBefore, Priced, Qualifies
  <2>0. i \in 1 .. n
    BY <1>0 DEF Priced
  <2>1. CASE i # n
    <3>1. decisions'[i] = decisions[i]
      BY <1>0, <2>0, <2>1
    <3>. QED  BY <3>1 DEF WatchInv, QualifyingChangeNoticed
  <2>2. CASE i = n
    <3>1. decisions'[i] = reason /\ previous # 0 /\ found # NoPrice
      BY <1>0, <2>2 DEF Priced
    <3>2. /\ DirectionMatches(Drop(history, previous, found))
          /\ ThresholdMatches(history[previous].price, found)
      BY <1>0, <2>2 DEF Qualifies, Drop
    <3>3. reason \in {"cooldown_active", "threshold_met", "target_price_reached"}
      BY <3>1, <3>2 DEF reason, Reason
    <3>. QED  BY <3>1, <3>3
  <2>. QED  BY <2>1, <2>2
<1>. QED  BY <1>3, <1>4, <1>5, <1>6 DEF WatchInv

\* The alert before, if it was about a price, was about one at least as old as the
\* one compared with, and that one is older than the cooldown.
LEMMA DispatchInv ==
    ASSUME WatchInv, Dispatch
    PROVE  WatchInv'
<1>. DEFINE n == Len(history)
            k == Len(alerts)
<1>1. PICK delivered \in BOOLEAN :
        alerts' = Append(alerts, [row |-> n, previous |-> previous, at |-> clock,
                                  delivered |-> delivered])
  BY DEF Dispatch, Current
<1>2. /\ history \in Seq(RouteRows) /\ Maxima(history) /\ n \in 1 .. RunBound /\ DOMAIN history = 1 .. n
      /\ clock \in 0 .. LastTime /\ LastTime \in Nat /\ RunBound \in Nat /\ Cooldown \in Nat
      /\ previous = LastBefore(n) /\ previous \in 0 .. RunBound
      /\ alerts \in Seq(Alerts) /\ \A i \in DOMAIN alerts : alerts[i].row < n
      /\ previous = 0 \/ clock - history[previous].at >= Cooldown
      /\ step' = "done" /\ UNCHANGED <<clock, found, previous, history, decisions>>
  BY WatchAssumption DEF WatchInv, WatchTypeOK, Dispatch, Places
<1>3. /\ alerts' \in Seq(Alerts) /\ Len(alerts') = k + 1 /\ k \in Nat
      /\ DOMAIN alerts = 1 .. k /\ DOMAIN alerts' = 1 .. k + 1
      /\ \A i \in 1 .. k : alerts'[i] = alerts[i]
      /\ alerts'[k + 1].row = n /\ alerts'[k + 1].previous = previous
      /\ alerts'[k + 1].at = clock
  BY <1>1, <1>2 DEF Alerts
<1>. HIDE DEF k, n
<1>4. WatchTypeOK'
  BY <1>2, <1>3 DEF WatchInv, WatchTypeOK
<1>5. Maxima(history)' /\ Times' /\ QualifyingChangeNoticed'
  BY <1>2 DEF WatchInv, Maxima, HasMax, Times, QualifyingChangeNoticed, LastBefore, Priced, Qualifies
<1>9. Places'
  BY <1>2 DEF Places, LastBefore, n
<1>6. Order'
  BY <1>2, <1>3 DEF WatchInv, Order
<1>7. ComparesWithLast'
  BY <1>2, <1>3 DEF WatchInv, ComparesWithLast, LastBefore, Priced
<1>8. PriceAlertsSpaced'
  <2>. SUFFICES ASSUME NEW i \in 1 .. k + 1, NEW j \in 1 .. k + 1, i < j,
                       alerts'[i].row \in Priced(history), alerts'[j].row \in Priced(history)
                PROVE  alerts'[j].at - history[alerts'[i].row].at >= Cooldown
    BY <1>2, <1>3 DEF PriceAlertsSpaced, Priced
  <2>1. i \in 1 .. k /\ alerts'[i] = alerts[i]
    BY <1>3
  <2>2. CASE j # k + 1
    <3>1. j \in 1 .. k /\ alerts'[j] = alerts[j]
      BY <1>3, <2>2
    <3>. QED  BY <1>3, <2>1, <3>1 DEF WatchInv, PriceAlertsSpaced
  <2>3. CASE j = k + 1
    <3>. DEFINE older == alerts[i].row
    <3>0. i \in DOMAIN alerts /\ alerts[i].row \in 1 .. n
      BY <1>3, <2>1, AlertType DEF WatchInv, n
    <3>1. older \in 1 .. n - 1
      BY <1>2, <3>0
    <3>2. older \in Before(history, n)
      BY <1>2, <2>1, <3>1 DEF Before
    <3>5. previous \in Before(history, n) /\ previous >= older
      BY <1>2, <3>2, LastBeforeIs DEF n
    <3>3. previous \in 1 .. n - 1
      BY <1>2, <3>1, <3>5, BeforeType
    <3>4. /\ history[older].at <= history[previous].at
          /\ history[older].at \in Nat /\ history[previous].at \in Nat
      BY <1>2, <3>1, <3>3, <3>5, RowType DEF WatchInv, Times, n
    <3>. QED  BY <1>2, <1>3, <2>1, <2>3, <3>3, <3>4
  <2>. QED  BY <2>2, <2>3
<1>. QED  BY <1>4, <1>5, <1>6, <1>7, <1>8, <1>9 DEF WatchInv

LEMMA OtherInv ==
    ASSUME WatchInv, Tick \/ Extracted \/ NextRun \/ CutShort \/ UNCHANGED watchVars
    PROVE  WatchInv'
<1>1. /\ UNCHANGED <<history, decisions, alerts>>
      /\ clock \in 0 .. LastTime /\ LastTime \in Nat /\ clock' \in 0 .. LastTime /\ clock' >= clock
  BY WatchAssumption DEF WatchInv, WatchTypeOK, Tick, Extracted, NextRun, CutShort, watchVars
<1>2. WatchTypeOK'
  BY <1>1, WatchAssumption DEF WatchInv, WatchTypeOK, Tick, Extracted, NextRun, CutShort, watchVars
<1>3. Places'
  <2>1. CASE Tick \/ UNCHANGED watchVars
    <3>1. UNCHANGED <<step, found, previous, history, alerts>>
      BY <2>1 DEF Tick, watchVars
    <3>2. step = "dispatch" /\ previous # 0 => history[previous].at \in Nat
      <4>. SUFFICES ASSUME step = "dispatch", previous # 0 PROVE history[previous].at \in Nat
        OBVIOUS
      <4>1. /\ previous = LastBefore(Len(history)) /\ Len(history) \in Nat \ {0}
            /\ history \in Seq(RouteRows) /\ Maxima(history)
        BY DEF WatchInv, WatchTypeOK, Places
      <4>2. previous \in 1 .. Len(history)
        BY <4>1, LastBeforeIs, BeforeType
      <4>. QED  BY <4>1, <4>2, RowType
    <3>3. Cooldown \in Nat
      BY WatchAssumption
    <3>. QED  BY <1>1, <3>1, <3>2, <3>3 DEF WatchInv, Places, LastBefore, Priced
  <2>2. CASE Extracted \/ NextRun \/ CutShort
    BY <2>2 DEF Places, Extracted, NextRun, CutShort
  <2>. QED  BY <2>1, <2>2
<1>. QED  BY <1>1, <1>2, <1>3, Unwritten DEF WatchInv

LEMMA WatchInductive == WatchSpec => []WatchInv
<1>1. WatchInv /\ [WatchNext]_watchVars => WatchInv'
  BY ReadInv, SaveInv, EvaluateInv, DispatchInv, OtherInv DEF WatchNext
<1>. QED  BY WatchInitInv, <1>1, PTL DEF WatchSpec

-----------------------------------------------------------------------------
\* Every variable keeps its type; rows and decisions stay in step (main.py's
\* save, evaluation and dispatch).
THEOREM WatchTypeCorrect == WatchSpec => []WatchTypeOK
BY WatchInductive, PTL DEF WatchInv

\* An alert compares with the last price before it, whatever runs were lost or
\* found nothing in between (get_last_price_record).
THEOREM AlertsCompareWithLast == WatchSpec => []ComparesWithLast
BY WatchInductive, PTL DEF WatchInv

\* The cooldown keeps two alerts about prices apart, although it is counted from
\* the price compared with and not from the last alert (evaluate_alert).
THEOREM AlertsAreSpaced == WatchSpec => []PriceAlertsSpaced
BY WatchInductive, PTL DEF WatchInv

\* A change that qualifies is never decided against but for the cooldown.
THEOREM ChangesAreNoticed == WatchSpec => []QualifyingChangeNoticed
BY WatchInductive, PTL DEF WatchInv
=============================================================================

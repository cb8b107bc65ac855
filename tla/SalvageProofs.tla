---------------------------- MODULE SalvageProofs ----------------------------
(***************************************************************************)
(* Proofs about Salvage, for every set of prices, every budget and every   *)
(* handover.                                                               *)
(*                                                                         *)
(* BestPublished rests on Dominates: as long as the cap has not struck,    *)
(* the best result is one of those returned, and none of them beats it.    *)
(* What is published is the preferred one of the primary and the best.     *)
(***************************************************************************)
EXTENDS Salvage, TLAPS

Returned(s) == {s[i] : i \in DOMAIN s}

\* r is as good as every price in s.
Dominates(r, s) ==
    \A i \in DOMAIN s : Priced(s[i]) => Priced(r) /\ r.rank >= s[i].rank

Keeps(r, p) == Priced(p) => Priced(r) /\ r.rank >= p.rank

(* The inductive invariant. *)
NothingYet == pc = "extract" => primary = NoResult /\ seen = <<>>

Uncapped ==
    seen # <<>> /\ ~CapReached(spent) =>
        /\ pc \in {"salvage", "publish"} =>
              /\ primary \in Returned(seen) /\ best \in Returned(seen)
              /\ Dominates(best, seen)
        /\ pc = "publish" => result \in Returned(seen) /\ Dominates(result, seen)

IInv == TypeOK /\ NothingYet /\ Uncapped /\ PricedPrimaryKept

-----------------------------------------------------------------------------
LEMMA ResultTypes ==
    /\ Capped \in Results /\ Gated \in Results /\ NoResult \in Results
    /\ ~Priced(Capped) /\ ~Priced(NoResult)
    /\ \A d \in Durations : Extracted(d) \cup FastPath \subseteq Results
<1>1. Capped \in Results /\ Gated \in Results /\ NoResult \in Results
  BY DEF Capped, Gated, NoResult, Results, Reasons, Misses
<1>2. ~Priced(Capped) /\ ~Priced(NoResult)
  BY DEF Capped, NoResult, Priced
<1>3. ASSUME NEW d \in Durations PROVE Extracted(d) \subseteq Results
  BY <1>1 DEF Extracted, Results, Reasons, Misses
<1>4. FastPath \subseteq Results
  BY DEF FastPath, Results, Reasons, Misses
<1>. QED  BY <1>1, <1>2, <1>3, <1>4

LEMMA LimitType ==
    ASSUME NEW r PROVE AttemptLimit(r) \in Nat /\ AttemptLimit(r) >= 1
BY SalvageAssumption DEF AttemptLimit, Smaller, AtLeastOne

\* What is preferred is one of the two, and keeps the price of either.
LEMMA PreferredKeeps ==
    ASSUME NEW p \in Results, NEW c \in Results
    PROVE  /\ Preferred(p, c) \in {p, c}
           /\ Keeps(Preferred(p, c), p)
           /\ Keeps(Preferred(p, c), c)
BY DEF Preferred, Prefers, Keeps, Priced, Results

LEMMA OverrunType ==
    ASSUME NEW d \in Durations
    PROVE  Overrun(d) \in Nat /\ d <= SalvageTimeout + Overrun(d)
BY SalvageAssumption DEF Overrun

\* A price is only ever lost after the cap: time does not run backwards.
LEMMA CapStays ==
    ASSUME NEW s \in Nat, NEW d \in Nat, cap \in WallClockCaps, CapReached(s)
    PROVE  CapReached(s + d)
BY SalvageAssumption DEF CapReached

LEMMA Extended ==
    ASSUME NEW s \in Seq(Results), NEW r \in Results
    PROVE  /\ Append(s, r) # <<>>
           /\ Returned(Append(s, r)) = Returned(s) \cup {r}
           /\ \A b \in Results :
                 Dominates(b, s) /\ Keeps(b, r) => Dominates(b, Append(s, r))
<1>. DEFINE t == Append(s, r)
<1>1. /\ DOMAIN t = 1..Len(s) + 1 /\ DOMAIN s = 1..Len(s) /\ Len(s) \in Nat
      /\ t[Len(s) + 1] = r /\ \A i \in DOMAIN s : t[i] = s[i]
  OBVIOUS
<1>2. t # <<>>
  BY <1>1
<1>3. Returned(t) = Returned(s) \cup {r}
  <2>. HIDE DEF t
  <2>. QED  BY <1>1 DEF Returned
<1>4. ASSUME NEW b \in Results, Dominates(b, s), Keeps(b, r) PROVE Dominates(b, t)
  <2>. HIDE DEF t
  <2>. QED  BY <1>1, <1>4 DEF Dominates, Keeps
<1>. QED  BY <1>2, <1>3, <1>4

\* What keeps a price that dominates dominates too.
LEMMA KeepsDominance ==
    ASSUME NEW a \in Results, NEW b \in Results, NEW s \in Seq(Results),
           Dominates(a, s), Keeps(b, a)
    PROVE  Dominates(b, s)
<1>. SUFFICES ASSUME NEW i \in DOMAIN s, Priced(s[i])
              PROVE  Priced(b) /\ b.rank >= s[i].rank
  BY DEF Dominates
<1>1. s[i] \in Results
  OBVIOUS
<1>2. Priced(a) /\ a.rank >= s[i].rank
  BY DEF Dominates
<1>. QED  BY <1>1, <1>2 DEF Keeps, Results

-----------------------------------------------------------------------------
(* The steps of the salvage loop                                           *)

\* Publishing the preferred one of the primary and of b keeps all b keeps.
LEMMA PublishKeeps ==
    ASSUME NEW b \in Results, primary \in Results, Publish(b)
    PROVE  /\ pc' = "publish" /\ result' \in {primary, b}
           /\ Keeps(result', primary) /\ Keeps(result', b)
           /\ result' \in Results
BY PreferredKeeps DEF Publish

\* What SalvageAttempt leaves: the best of before and of r, and the result of both.
LEMMA AttemptKeeps ==
    ASSUME NEW d, NEW r \in Results,
           primary \in Results, best \in Results, result \in Results,
           IF SameMiss(r)
             THEN Publish(best) /\ UNCHANGED best
             ELSE /\ best' = Preferred(best, r)
                  /\ IF Prefers(r, best) /\ Priced(r) /\ r.rank >= StopRank
                       THEN Publish(r)
                       ELSE UNCHANGED <<pc, result>>
    PROVE  /\ best' \in {best, r} /\ Keeps(best', best) /\ Keeps(best', r)
           /\ \/ pc' = pc /\ result' = result
              \/ /\ pc' = "publish" /\ result' \in {primary, best'}
                 /\ Keeps(result', primary) /\ Keeps(result', best')
<1>1. CASE SameMiss(r)
  <2>1. Keeps(best, best) /\ Keeps(best, r)
    BY <1>1 DEF SameMiss, Keeps, Results
  <2>. QED  BY <1>1, <2>1, PublishKeeps
<1>2. CASE ~SameMiss(r)
  <2>1. best' \in {best, r} /\ Keeps(best', best) /\ Keeps(best', r)
    BY <1>2, PreferredKeeps
  <2>2. CASE Prefers(r, best) /\ Priced(r) /\ r.rank >= StopRank
    <3>1. best' = r
      BY <1>2, <2>2 DEF Preferred
    <3>. QED  BY <1>2, <2>1, <2>2, <3>1, PublishKeeps
  <2>. QED  BY <1>2, <2>1, <2>2
<1>. QED  BY <1>1, <1>2

LEMMA HandedType ==
    ASSUME NEW site PROVE HandedOver(site) \subseteq
                            [refused : BOOLEAN, lifted : BOOLEAN, proven : BOOLEAN]
<1>. SUFFICES ASSUME NEW file, NEW dump, NEW unwritten, NEW v2
              PROVE  /\ Refused(file, dump, unwritten, v2) \in BOOLEAN
                     /\ Lifted(file) \in BOOLEAN /\ Proven(file) \in BOOLEAN
  BY DEF HandedOver
<1>1. Refused(file, dump, unwritten, v2) \in BOOLEAN
  BY DEF Refused
<1>2. Lifted(file) \in BOOLEAN /\ Proven(file) \in BOOLEAN
  BY DEF Lifted, Proven
<1>. QED  BY <1>1, <1>2

-----------------------------------------------------------------------------
LEMMA InitInv == Init => IInv
<1>. SUFFICES ASSUME Init PROVE IInv
  OBVIOUS
<1>1. TypeOK
  BY ResultTypes, HandedType DEF Init, TypeOK
<1>. QED
  BY <1>1 DEF Init, IInv, NothingYet, Uncapped, PricedPrimaryKept

\* The first extraction is the primary result, the best and the published one.
LEMMA ExtractInv == IInv /\ Extract => IInv'
<1>. SUFFICES ASSUME IInv, Extract PROVE IInv'
  OBVIOUS
<1>1. PICK d, r :
        /\ d \in Durations /\ r \in Extracted(d) \cup FastPath
        /\ LET first == IF CapReached(d) THEN Capped ELSE r
           IN  /\ spent' = d
               /\ seen' = <<r>>
               /\ primary' = first /\ best' = first /\ result' = first
               /\ IF MaySalvage(first, d)
                    THEN pc' = "salvage" /\ limit' = AttemptLimit(first)
                    ELSE pc' = "publish" /\ UNCHANGED limit
  BY DEF Extract
<1>. DEFINE first == IF CapReached(d) THEN Capped ELSE r
<1>2. r \in Results /\ first \in Results /\ d \in Nat
  BY <1>1, ResultTypes, SalvageAssumption
<1>3. /\ spent' = d /\ seen' = <<r>>
      /\ primary' = first /\ best' = first /\ result' = first
      /\ limit' \in {AttemptLimit(first), limit} /\ pc' \in {"salvage", "publish"}
      /\ pc' = "salvage" => limit' = AttemptLimit(first)
      /\ UNCHANGED <<cap, start, handed, overrun>>
  BY <1>1 DEF Extract
<1>4. limit' \in Nat /\ (pc' = "salvage" => limit' >= 1)
  BY <1>3, LimitType DEF IInv, TypeOK
<1>. HIDE DEF first
<1>5. TypeOK'
  <2>1. seen' \in Seq(Results) /\ Len(seen') = 1 /\ seen' # <<>>
    BY <1>2, <1>3
  <2>2. /\ cap' \in WallClockCaps /\ start' \in StartTimes /\ overrun' \in Nat
        /\ handed' \in [refused : BOOLEAN, lifted : BOOLEAN, proven : BOOLEAN]
    BY <1>3 DEF IInv, TypeOK
  <2>3. Len(seen') <= limit' + 1
    <3>1. limit' \in Nat
      BY <1>4
    <3>2. \A n \in Nat : 1 <= n + 1
      OBVIOUS
    <3>. QED  BY <2>1, <3>1, <3>2
  <2>4. /\ spent' \in Nat /\ primary' \in Results /\ best' \in Results
        /\ result' \in Results /\ limit' \in Nat
    BY <1>2, <1>3, <1>4
  <2>. QED  BY <1>3, <2>1, <2>2, <2>3, <2>4 DEF TypeOK
<1>6. NothingYet'
  BY <1>3 DEF NothingYet
<1>7. ASSUME ~CapReached(d) PROVE Uncapped'
  <2>1. first = r
    BY <1>7 DEF first
  <2>2. Returned(<<r>>) = {r} /\ Dominates(r, <<r>>)
    BY <1>2 DEF Returned, Dominates, Results
  <2>. QED  BY <1>3, <2>1, <2>2 DEF Uncapped
<1>8. ASSUME CapReached(d) PROVE Uncapped'
  BY <1>3, <1>8 DEF Uncapped, CapReached
<1>9. PricedPrimaryKept'
  BY <1>2, <1>3 DEF PricedPrimaryKept, Results
<1>. QED  BY <1>5, <1>6, <1>7, <1>8, <1>9 DEF IInv

LEMMA EndsInv == IInv /\ (GateExtraction \/ SalvageEnds \/ SalvageCapped) => IInv'
<1>1. ASSUME IInv, GateExtraction PROVE IInv'
  <2>1. TypeOK' /\ NothingYet'
    BY <1>1, ResultTypes DEF IInv, TypeOK, NothingYet, GateExtraction
  <2>2. seen' = <<>> /\ ~Priced(primary)
    BY <1>1, ResultTypes DEF IInv, NothingYet, GateExtraction
  <2>3. Uncapped' /\ PricedPrimaryKept'
    BY <1>1, <2>2 DEF Uncapped, PricedPrimaryKept, GateExtraction, Priced
  <2>. QED  BY <2>1, <2>3 DEF IInv
<1>2. ASSUME IInv, SalvageEnds PROVE IInv'
  <2>0. primary \in Results /\ best \in Results /\ seen \in Seq(Results)
    BY <1>2 DEF IInv, TypeOK
  <2>1. /\ pc = "salvage" /\ pc' = "publish" /\ result' \in {primary, best}
        /\ Keeps(result', primary) /\ Keeps(result', best) /\ result' \in Results
        /\ UNCHANGED <<cap, start, handed, spent, primary, best, limit, seen, overrun>>
    BY <1>2, <2>0, PublishKeeps DEF SalvageEnds
  <2>2. TypeOK' /\ NothingYet' /\ PricedPrimaryKept'
    BY <1>2, <2>1 DEF IInv, TypeOK, NothingYet, PricedPrimaryKept, Keeps
  <2>3. Uncapped'
    <3>. SUFFICES ASSUME seen # <<>>, ~CapReached(spent)
                  PROVE  /\ primary \in Returned(seen) /\ best \in Returned(seen)
                         /\ Dominates(best, seen)
                         /\ result' \in Returned(seen) /\ Dominates(result', seen)
      BY <2>1 DEF Uncapped, CapReached
    <3>1. primary \in Returned(seen) /\ best \in Returned(seen) /\ Dominates(best, seen)
      BY <1>2, <2>1 DEF IInv, Uncapped
    <3>. QED  BY <2>0, <2>1, <3>1, KeepsDominance
  <2>. QED  BY <2>2, <2>3 DEF IInv
<1>3. ASSUME IInv, SalvageCapped PROVE IInv'
  <2>1. /\ pc = "salvage" /\ pc' = "publish" /\ result' \in Results
        /\ Keeps(result', primary) /\ CapReached(spent) /\ best' = Capped
        /\ UNCHANGED <<cap, start, handed, spent, primary, limit, seen, overrun>>
    BY <1>3, PublishKeeps, ResultTypes DEF SalvageCapped, IInv, TypeOK
  <2>2. TypeOK' /\ NothingYet' /\ PricedPrimaryKept'
    BY <1>3, <2>1, ResultTypes DEF IInv, TypeOK, NothingYet, PricedPrimaryKept, Keeps
  <2>3. Uncapped'
    BY <2>1 DEF Uncapped, CapReached
  <2>. QED  BY <2>2, <2>3 DEF IInv
<1>. QED  BY <1>1, <1>2, <1>3

LEMMA AttemptInv == IInv /\ SalvageAttempt => IInv'
<1>. SUFFICES ASSUME IInv, SalvageAttempt PROVE IInv'
  OBVIOUS
<1>0. /\ primary \in Results /\ best \in Results /\ result \in Results
      /\ seen \in Seq(Results) /\ seen # <<>> /\ spent \in Nat /\ limit \in Nat
      /\ pc = "salvage" /\ Len(seen) <= limit /\ cap \in WallClockCaps
      /\ UNCHANGED <<cap, start, handed, primary, limit>>
  BY DEF IInv, TypeOK, SalvageAttempt, Attempts
<1>1. PICK d, r :
        /\ d \in Durations /\ r \in Extracted(d)
        /\ spent' = spent + d /\ overrun' = Overrun(d)
        /\ seen' = Append(seen, r)
        /\ IF SameMiss(r)
             THEN Publish(best) /\ UNCHANGED best
             ELSE /\ best' = Preferred(best, r)
                  /\ IF Prefers(r, best) /\ Priced(r) /\ r.rank >= StopRank
                       THEN Publish(r)
                       ELSE UNCHANGED <<pc, result>>
  BY DEF SalvageAttempt
<1>2. r \in Results /\ d \in Nat /\ overrun' \in Nat
  BY <1>1, ResultTypes, OverrunType, SalvageAssumption
<1>3. /\ best' \in {best, r} /\ Keeps(best', best) /\ Keeps(best', r)
      /\ \/ pc' = pc /\ result' = result
         \/ /\ pc' = "publish" /\ result' \in {primary, best'}
            /\ Keeps(result', primary) /\ Keeps(result', best')
  BY <1>0, <1>1, <1>2, AttemptKeeps
<1>4. /\ seen' \in Seq(Results) /\ seen' # <<>>
      /\ Len(seen') = Len(seen) + 1 /\ Len(seen) \in Nat
  BY <1>0, <1>1, <1>2
<1>5. TypeOK' /\ NothingYet'
  BY <1>0, <1>1, <1>2, <1>3, <1>4 DEF IInv, TypeOK, NothingYet
<1>6. PricedPrimaryKept'
  BY <1>0, <1>3 DEF PricedPrimaryKept, Keeps
<1>7. Uncapped'
  <2>. SUFFICES ASSUME ~CapReached(spent')
                PROVE  /\ primary \in Returned(seen') /\ best' \in Returned(seen')
                       /\ Dominates(best', seen')
                       /\ pc' = "publish" => /\ result' \in Returned(seen')
                                             /\ Dominates(result', seen')
    BY <1>0 DEF Uncapped, CapReached
  <2>1. ~CapReached(spent)
    BY <1>0, <1>1, <1>2, CapStays
  <2>2. primary \in Returned(seen) /\ best \in Returned(seen) /\ Dominates(best, seen)
    BY <1>0, <2>1 DEF IInv, Uncapped
  <2>3. Returned(seen') = Returned(seen) \cup {r}
    BY <1>0, <1>1, <1>2, Extended
  <2>4. Dominates(best', seen')
    BY <1>0, <1>1, <1>2, <1>3, <2>2, Extended, KeepsDominance
  <2>5. ASSUME pc' = "publish"
        PROVE  result' \in Returned(seen') /\ Dominates(result', seen')
    <3>1. result' \in {primary, best'} /\ Keeps(result', best')
      BY <1>0, <1>3, <2>5
    <3>. QED  BY <1>0, <1>2, <1>3, <1>4, <2>2, <2>3, <2>4, <3>1, KeepsDominance
  <2>. QED  BY <1>3, <2>2, <2>3, <2>4, <2>5
<1>. QED  BY <1>5, <1>6, <1>7 DEF IInv

LEMMA RaiseInv == IInv /\ (ExtractRaises \/ UNCHANGED vars) => IInv'
<1>1. ASSUME IInv, ExtractRaises PROVE IInv'
  <2>1. PICK d \in Durations : spent' = spent + d /\ overrun' \in {overrun, Overrun(d)}
    BY <1>1 DEF ExtractRaises
  <2>2. d \in Nat /\ spent \in Nat /\ cap \in WallClockCaps /\ overrun' \in Nat
    BY <1>1, <2>1, OverrunType, SalvageAssumption DEF IInv, TypeOK
  <2>3. /\ pc' = "raised"
        /\ UNCHANGED <<cap, start, handed, primary, best, limit, result, seen>>
    BY <1>1 DEF ExtractRaises
  <2>4. TypeOK' /\ NothingYet' /\ PricedPrimaryKept' /\ Uncapped'
    BY <1>1, <2>1, <2>2, <2>3 DEF IInv, TypeOK, NothingYet, PricedPrimaryKept, Uncapped
  <2>. QED  BY <2>4 DEF IInv
<1>2. ASSUME IInv, UNCHANGED vars PROVE IInv'
  BY <1>2 DEF IInv, TypeOK, NothingYet, PricedPrimaryKept, Uncapped, vars, CapReached
<1>. QED  BY <1>1, <1>2

LEMMA Inductive == Spec => []IInv
<1>1. IInv /\ [Next]_vars => IInv'
  BY ExtractInv, EndsInv, AttemptInv, RaiseInv DEF Next, Finished
<1>. QED  BY InitInv, <1>1, PTL DEF Spec

-----------------------------------------------------------------------------
\* Every variable keeps its type, and salvage makes no more attempts than its
\* limit (the salvage loop of main.py).
THEOREM SalvageTypeCorrect == Spec => []TypeOK
BY Inductive, PTL DEF IInv

\* Below the cap the published result is the best of all that were returned, in
\* whatever order they came and however the loop was left.
THEOREM PublishesBest == Spec => []BestPublished
<1>1. IInv => BestPublished
  BY DEF IInv, Uncapped, BestPublished, Returned, Dominates
<1>. QED  BY Inductive, <1>1, PTL

\* The price of the first extraction is never lost to salvage, capped or not.
THEOREM KeepsPricedPrimary == Spec => []PricedPrimaryKept
BY Inductive, PTL DEF IInv

\* A run that salvages is past the candidate's timeout by at most what its last
\* attempt overran: an attempt starts only while the rest of the candidate's time
\* holds a whole one, provided the limit of an attempt is not zero.
THEOREM OverrunsDoNotAdd ==
    ASSUME SalvageTimeout > 0 PROVE Spec => []OneOverrun
<1>. DEFINE Bounded == OneOverrun /\ (pc = "extract" => limit = 0)
<1>1. Init => Bounded
  BY DEF Init, OneOverrun
<1>2. TypeOK /\ Bounded /\ [Next]_vars => Bounded'
  <2>. SUFFICES ASSUME TypeOK, Bounded, [Next]_vars PROVE Bounded'
    OBVIOUS
  <2>0. start[1] \in Nat /\ spent \in Nat /\ overrun \in Nat /\ limit \in Nat
    BY SalvageAssumption DEF TypeOK
  <2>1. CASE Extract
    <3>1. PICK d \in Durations : /\ spent' = d /\ UNCHANGED <<start, overrun>>
                                 /\ pc' \in {"salvage", "publish"}
                                 /\ \/ \E r : MaySalvage(r, d)
                                    \/ UNCHANGED limit
      BY <2>1 DEF Extract
    <3>2. CASE \E r : MaySalvage(r, d)
      <4>1. Remaining(d) >= 2 * SalvageTimeout
        BY <3>2 DEF MaySalvage
      <4>2. start[1] + d <= CandidateTimeout
        BY <2>0, <4>1, SalvageAssumption DEF Remaining
      <4>. QED  BY <2>0, <3>1, <4>2, SalvageAssumption DEF OneOverrun
    <3>3. CASE UNCHANGED limit
      BY <2>1, <3>1, <3>3 DEF OneOverrun, Extract
    <3>. QED  BY <3>1, <3>2, <3>3
  <2>2. ASSUME NEW d \in Durations, spent' = spent + d, overrun' = Overrun(d),
               UNCHANGED start, Remaining(spent) >= SalvageTimeout
        PROVE  OneOverrun'
    <3>1. start[1] + spent + SalvageTimeout <= CandidateTimeout
      BY <2>0, <2>2, SalvageAssumption DEF Remaining
    <3>2. d \in Nat /\ Overrun(d) \in Nat /\ d <= SalvageTimeout + Overrun(d)
      BY OverrunType, SalvageAssumption
    <3>. QED  BY <2>0, <2>2, <3>1, <3>2, SalvageAssumption DEF OneOverrun
  <2>3. CASE SalvageAttempt
    <3>1. PICK d \in Durations : spent' = spent + d /\ overrun' = Overrun(d)
      BY <2>3 DEF SalvageAttempt
    <3>2. pc = "salvage" /\ (pc' = "publish" \/ pc' = pc)
      BY <2>3 DEF SalvageAttempt, Publish
    <3>3. OneOverrun'
      BY <2>2, <2>3, <3>1 DEF SalvageAttempt
    <3>. QED  BY <3>2, <3>3
  <2>4. CASE ExtractRaises
    <3>1. PICK d \in Durations :
            /\ spent' = spent + d
            /\ \/ pc = "extract" /\ ~handed.refused /\ UNCHANGED overrun
               \/ /\ pc = "salvage"
                  /\ Attempts < limit /\ Remaining(spent) >= SalvageTimeout
                  /\ ~CapReached(spent)
                  /\ overrun' = Overrun(d)
      BY <2>4 DEF ExtractRaises
    <3>2. pc' = "raised" /\ UNCHANGED <<start, limit>>
      BY <2>4 DEF ExtractRaises
    <3>3. CASE pc = "extract"
      BY <3>2, <3>3 DEF OneOverrun
    <3>4. CASE overrun' = Overrun(d) /\ Remaining(spent) >= SalvageTimeout
      BY <2>2, <3>1, <3>2, <3>4
    <3>. QED  BY <3>1, <3>2, <3>3, <3>4
  <2>5. CASE GateExtraction \/ SalvageEnds \/ SalvageCapped
    BY <2>5 DEF OneOverrun, GateExtraction, SalvageEnds, SalvageCapped, Publish
  <2>6. CASE Finished \/ UNCHANGED vars
    BY <2>6 DEF OneOverrun, Finished, vars
  <2>. QED  BY <2>1, <2>3, <2>4, <2>5, <2>6 DEF Next
<1>3. Bounded => OneOverrun
  OBVIOUS
<1>. QED  BY SalvageTypeCorrect, <1>1, <1>2, <1>3, PTL DEF Spec

-----------------------------------------------------------------------------
(* What the scenario hands over                                            *)

\* A demonstration that was only watched proves no route, whatever file its return
\* was merged into.
LEMMA WatchedIsUnbound ==
    ASSUME NEW service, NEW file \in Handovers(service), file.reason = "demo_observation"
    PROVE  file.verdict.bound = FALSE
<1>1. \A found, r : r.bound = "no" => Left(service, found, r).verdict.bound = FALSE
  BY DEF Left, Merged
<1>2. \A found, r : Left(service, found, r).reason = r.reason
  BY DEF Left
<1>3. ASSUME NEW r \in PlainReturns, r.reason = "demo_observation" PROVE r.bound = "no"
  BY <1>3 DEF PlainReturns
<1>4. ASSUME NEW t \in Turns, NEW r \in TurnReturns(t) PROVE r.reason # "demo_observation"
  <2>1. PICK ready : r = [ready   |-> ready,
                          reason  |-> IF t.status # "none" THEN t.status
                                      ELSE IF ready THEN "ready" ELSE "unready",
                          scope   |-> t.scope, bound |-> t.bound,
                          support |-> WrittenBy(t).support]
    BY DEF TurnReturns
  <2>2. t.status \in TurnStatuses
    BY DEF Turns
  <2>. QED  BY <2>1, <2>2 DEF TurnStatuses
<1>5. CASE file \in OfTurn(service)
  <2>1. PICK t \in Turns : file \in {Left(service, {WrittenBy(t)}, r) : r \in TurnReturns(t)}
    BY <1>5 DEF OfTurn
  <2>2. PICK r \in TurnReturns(t) : file = Left(service, {WrittenBy(t)}, r)
    BY <2>1
  <2>. QED  BY <1>2, <1>4, <2>2
<1>6. CASE file \in OfReturn(service)
  BY <1>1, <1>2, <1>3, <1>6 DEF OfReturn
<1>7. CASE file \in OverEarlier(service)
  <2>1. PICK t \in Turns, r \in PlainReturns : file = Left(service, {WrittenBy(t)}, r)
    BY <1>7 DEF OverEarlier
  <2>. QED  BY <1>1, <1>2, <1>3, <2>1
<1>. QED  BY <1>5, <1>6, <1>7 DEF Handovers

\* A page on which the guards of the extraction are lifted is not refused by the
\* gate: the two readings of the file in main.py never contradict each other,
\* with or without the evidence dump, under the old verdict and the new one.
THEOREM LiftedIsNotRefused ==
    ASSUME NEW service, NEW file \in Handovers(service), Lifted(file),
           NEW dump, NEW unwritten, NEW v2
    PROVE  ~Refused(file, dump, unwritten, v2)
<1>1. file.service = "google_flights" /\ file.ready /\ file.verdict.bound
  BY DEF Lifted, Proven
<1>2. ~ByEvidence(file, dump) /\ ~ByLastError(file, unwritten) /\ ~ByRoute(file)
  BY <1>1 DEF ByEvidence, ByLastError, ByRoute
<1>3. ~BySummary(file)
  BY <1>1, WatchedIsUnbound DEF BySummary
<1>4. ~ByScenario(file, v2)
  BY <1>1 DEF ByScenario, ScenarioVerdict
<1>. QED  BY <1>2, <1>3, <1>4 DEF Refused

\* What the gate makes of a page the scenario found ready: it refuses one that
\* was only watched in a demonstration, and one of Google whose route was not bound
\* and was told apart as another's, or as another page's; it lets all others pass,
\* Google's unbound ones without such a word and Skyscanner's unbound ones with them.
THEOREM ReadyRefused ==
    ASSUME NEW file, file.ready, NEW dump, NEW unwritten, NEW v2
    PROVE  Refused(file, dump, unwritten, v2)
           <=> \/ file.reason = "demo_observation"
               \/ /\ file.service = "google_flights" /\ ~file.verdict.bound
                  /\ \/ file.verdict.reason \in {"explicit_mismatch", "scope_non_flight"}
                     \/ file.verdict.final = "irrelevant_page"
                     \/ v2 /\ file.scope = "irrelevant_page"
<1>. DEFINE Unbound == file.service = "google_flights" /\ ~file.verdict.bound
            Told == file.verdict.reason \in {"explicit_mismatch", "scope_non_flight"}
<1>1. ~ByEvidence(file, dump) /\ ~ByLastError(file, unwritten)
  BY DEF ByEvidence, ByLastError
<1>2. BySummary(file) <=> file.reason = "demo_observation"
  BY DEF BySummary, NonActionable, Stopped
<1>3. ByRoute(file) <=> Unbound /\ (Told \/ file.verdict.final = "irrelevant_page")
  BY DEF ByRoute
<1>4. ScenarioVerdict(file) = IF Unbound /\ (Told \/ file.scope = "irrelevant_page")
                              THEN "route_context_unbound" ELSE "none"
  BY DEF ScenarioVerdict
<1>5. ~NonActionable("route_context_unbound")
  BY DEF NonActionable, ByHand, Stopped
<1>6. ByScenario(file, v2) <=> Unbound /\ v2 /\ (Told \/ file.scope = "irrelevant_page")
  <2>1. CASE Unbound /\ (Told \/ file.scope = "irrelevant_page")
    BY <1>4, <1>5, <2>1 DEF ByScenario
  <2>2. CASE ~(Unbound /\ (Told \/ file.scope = "irrelevant_page"))
    BY <1>4, <2>2 DEF ByScenario
  <2>. QED  BY <2>1, <2>2
<1>. QED  BY <1>1, <1>2, <1>3, <1>6 DEF Refused
=============================================================================

------------------------- MODULE PlanExecutionProofs -------------------------
(***************************************************************************)
(* What a plan may be relied on for, for every stored plan, trip and page,  *)
(* any budget of the calendar and any number of openers, months and goes:   *)
(* the plan that is carried out is one of the trip, a search is started for *)
(* the trip that was asked for and after its departure, and a return that   *)
(* the calendar has set spared the departure.                               *)
(***************************************************************************)
EXTENDS PlanExecution, FiniteSetTheorems, SequenceTheorems, TLAPS

-----------------------------------------------------------------------------
(* The invariant                                                           *)

BoxPlaces == {"box_look", "box_press", "box_opened", "box_input", "box_commit", "box_verify"}
RoutePlaces ==
    BoxPlaces \cup {"route_check", "route_settle", "route_finalize", "route_alias", "route_itinerary"}
RecoveryPlaces == {"recover", "keywords"}
DatePlaces ==
    {"date_open", "date_root", "date_chip", "date_month", "date_buttons", "date_turn", "date_day",
     "date_close", "date_verify", "date_type"}
SkyPlaces == {"sky_route", "sky_open", "sky_month"}
SearchPlaces == {"search_look", "search_reload", "search_press", "search_enter"}
HandlerPlaces ==
    RoutePlaces \cup RecoveryPlaces \cup DatePlaces \cup SkyPlaces \cup SearchPlaces
      \cup {"judge", "failure"}
Places == HandlerPlaces \cup {"start", "head", "ended"}

FormType == [Fields -> Values]
Reasons ==
    {"", "budget_hit", "calendar_not_open", "month_nav_exhausted", "month_nav_buttons_not_found",
     "calendar_day_not_found", "date_picker_unverified", "combobox_fill_failed",
     "combobox_fill_unverified", "input_fill_failed", "suggestion_not_found",
     "suggestion_mismatch_expected_iata", "search_not_committed", "not_clicked", "step_error"}
Ways ==
    {"", "calendar", "typed", "alias", "combobox", "settled", "tab", "itinerary", "already_ready",
     "reload_then_verify", "click_button", "enter_then_verify", "click", "generic", "refill",
     "url_route_bind"}
CallType ==
    [left : Nat, tries : Nat, off : Int, seen : Int, aim : Fields \cup {"none"},
     tools : SUBSET {"next", "previous", "prefilled", "option", "keys", "pressed"},
     ok : BOOLEAN, reason : Reasons, via : Ways \cup Values]
Exits == {"", "rejected", "step_time", "timeout", "step_failed"}

Statuses ==
    Reasons \cup GoogleFailures
      \cup {"ok", "soft_skip", "url_date_bound", "route_fill_mismatch", "already_bound_soft_pass", "hard_fail"}
EntryType == [role : Fields \cup Acts \cup {"loose"}, status : Statuses, reason : Reasons]

TypesInv ==
    /\ case \in Cases /\ at \in Places /\ step \in Nat \ {0} /\ raised \in Exits
    /\ form \in FormType /\ pressed \in FormType /\ focus \in Fields \cup {"none"}
    /\ call \in CallType /\ trace \subseteq EntryType

\* Each place belongs to a kind of step.
PlaceFits(place) ==
    /\ place \in RoutePlaces \cup RecoveryPlaces => Google /\ Now.act = "fill" /\ Role \in Route
    /\ place \in DatePlaces => Google /\ Now.act = "fill" /\ Role \in Dates
    /\ place \in SkyPlaces => ~Google /\ Now.act = "fill"
    /\ place = "sky_route" => Role \in Route
    /\ place \in {"sky_open", "sky_month"} => Role \in Dates
    /\ place \in SearchPlaces => Google /\ Now.act = "search" /\ ~DateFailed

\* The plan that is carried out is the one bound to the trip.
PlanInv ==
    /\ at = "start" => plan = <<>> /\ step = 1 /\ pressed = NotPressed
    /\ at # "start" => plan = Rebind(case.raw, case.back)
    /\ at \notin {"start", "ended"} => Carriable(plan)
    /\ at \in HandlerPlaces => step <= Len(plan)
    /\ PlaceFits(at)

\* What the boxes of a form are read and typed with.
BoxInv ==
    /\ at \in RoutePlaces => call.via \in Values \cup {""}
    /\ at \in {"box_commit", "box_verify"} => call.aim \in Fields
    /\ at \in {"date_chip", "date_month", "date_buttons", "date_turn", "date_day", "date_close",
               "date_verify", "sky_month"} => call.aim \in Dates

\* A departure that lies behind has left its entry, a good one or a failure
\* that lets nothing be searched.
Good == {"ok", "url_date_bound", "soft_skip"}
Tried ==
    \A k \in 1 .. step - 1 :
        k <= Len(plan) /\ Departs(plan[k])
        => \E e \in trace : e.role = "depart" /\ e.status \in Good \cup GoogleFailures

\* While a search is under way, and at the last one, the form is what was asked.
FormRight ==
    Readable /\ HasRequiredRoles(case.raw, Google) /\ DepartFirst /\ at \in SearchPlaces
    => AsAsked(form)

IInv ==
    /\ TypesInv /\ PlanInv /\ BoxInv /\ Tried /\ FormRight
    /\ SearchedAsAsked /\ DepartBeforeSearch /\ ReturnSparesDepart

-----------------------------------------------------------------------------
(* The plan that is bound to a trip                                        *)

StepType ==
    [act : Acts \cup {"unknown"}, role : Fields \cup {"none", "loose", "unknown", "contact"},
     opt : BOOLEAN, need : BOOLEAN, force : BOOLEAN]

\* How many of some positions stand at or before one of them tells them apart.
LEMMA RanksDiffer ==
    ASSUME NEW kept \in SUBSET Nat, IsFiniteSet(kept), NEW k \in kept, NEW l \in kept, k < l
    PROVE  Cardinality({j \in kept : j <= k}) # Cardinality({j \in kept : j <= l})
<1> DEFINE K == {j \in kept : j <= k}
           L == {j \in kept : j <= l}
<1>1. K \in SUBSET L /\ l \in L /\ l \notin K /\ L \in SUBSET kept
  <2>1. k \in Nat /\ l \in Nat /\ \A j \in kept : j \in Nat
      OBVIOUS
  <2>2. (\A j \in kept : j <= k => j <= l) /\ l <= l /\ ~(l <= k)
      BY <2>1
  <2>3. K \in SUBSET L
      BY <2>2
  <2> QED BY <2>2, <2>3
<1> HIDE DEF K, L
<1>2. IsFiniteSet(L)
    BY <1>1, FS_Subset
<1> QED BY <1>1, <1>2, FS_Subset DEF K, L

\* The steps at some positions of a plan are those steps and no others.
LEMMA PickedAreKept ==
    ASSUME NEW S, NEW raw \in Seq(S), NEW kept \in SUBSET DOMAIN raw
    PROVE  /\ Picked(raw, kept) \in Seq(S)
           /\ \A i \in DOMAIN Picked(raw, kept) : \E k \in kept : Picked(raw, kept)[i] = raw[k]
           /\ \A k \in kept : \E i \in DOMAIN Picked(raw, kept) : Picked(raw, kept)[i] = raw[k]
<1> DEFINE n == Cardinality(kept)
           Rank(k) == Cardinality({j \in kept : j <= k})
           rank == [k \in kept |-> Rank(k)]
           At(i) == CHOOSE k \in kept : Rank(k) = i
<1>1. DOMAIN raw = 1 .. Len(raw) /\ Len(raw) \in Nat
    BY LenProperties
<1>2. IsFiniteSet(kept) /\ n \in Nat /\ kept \in SUBSET Nat
  <2>1. IsFiniteSet(1 .. Len(raw))
      BY <1>1, FS_Interval
  <2>2. IsFiniteSet(kept)
      BY <1>1, <2>1, FS_Subset
  <2> QED BY <1>1, <2>2, FS_CardinalityType
<1>3. \A k \in kept : Rank(k) \in 1 .. n
  <2> SUFFICES ASSUME NEW k \in kept PROVE Rank(k) \in 1 .. n
      OBVIOUS
  <2> DEFINE K == {j \in kept : j <= k}
  <2>1. IsFiniteSet(K) /\ Cardinality(K) <= n
      BY <1>2, FS_Subset, K \in SUBSET kept
  <2>2. Cardinality(K) \in Nat /\ Cardinality(K) # 0
      BY <1>2, <2>1, k \in K, FS_CardinalityType, FS_EmptySet
  <2> QED BY <1>2, <2>1, <2>2
<1>4. \A k, l \in kept : Rank(k) = Rank(l) => k = l
  <2> SUFFICES ASSUME NEW k \in kept, NEW l \in kept, k # l PROVE Rank(k) # Rank(l)
      OBVIOUS
  <2>1. k < l \/ l < k
      BY <1>2
  <2> QED BY <1>2, <2>1, RanksDiffer
<1> HIDE DEF Rank
<1>5. rank \in [kept -> 1 .. n] /\ \A k, l \in kept : rank[k] = rank[l] => k = l
    BY <1>3, <1>4
<1>6. IsFiniteSet(1 .. n) /\ Cardinality(1 .. n) = n
    BY <1>2, FS_Interval
<1>7. rank \in Surjection(kept, 1 .. n)
  <2> HIDE DEF rank, n
  <2>1. rank \in Injection(kept, 1 .. n)
      BY <1>5 DEF Injection, IsInjective
  <2> QED BY <1>6, <2>1, FS_Injection DEF n
<1>8. \A i \in 1 .. n : \E k \in kept : Rank(k) = i
    BY <1>7 DEF Surjection
<1>9. \A i \in 1 .. n : At(i) \in kept /\ Rank(At(i)) = i
    BY <1>8
<1>10. \A k \in kept : At(Rank(k)) = k
    BY <1>3, <1>4, <1>9
<1>11. Picked(raw, kept) = [i \in 1 .. n |-> raw[At(i)]]
    BY DEF Picked, Rank
<1> HIDE DEF At, n
<1>12. \A k \in kept : raw[k] \in S
    BY <1>1, ElementOfSeq
<1>13. Picked(raw, kept) \in Seq(S)
    BY <1>2, <1>9, <1>11, <1>12
<1> QED BY <1>3, <1>9, <1>10, <1>11, <1>13

\* A sequence with one element put in has that element and all of the sequence.
LEMMA PutBehindKeeps ==
    ASSUME NEW S, NEW s \in Seq(S), NEW x \in S, NEW p \in 0 .. Len(s)
    PROVE  /\ PutBehind(s, p, x) \in Seq(S)
           /\ \A i \in DOMAIN s : \E j \in DOMAIN PutBehind(s, p, x) : PutBehind(s, p, x)[j] = s[i]
           /\ \E j \in DOMAIN PutBehind(s, p, x) : PutBehind(s, p, x)[j] = x
           /\ \A j \in DOMAIN PutBehind(s, p, x) :
                  PutBehind(s, p, x)[j] = x \/ \E i \in DOMAIN s : PutBehind(s, p, x)[j] = s[i]
<1> DEFINE n == Len(s)
           front == SubSeq(s, 1, p)
           middle == front \o <<x>>
           rest == SubSeq(s, p + 1, n)
           t == middle \o rest
<1>1. n \in Nat /\ p \in Nat /\ p <= n /\ DOMAIN s = 1 .. n /\ \A i \in 1 .. n : s[i] \in S
    BY LenProperties, ElementOfSeq
<1>3. <<x>> \in Seq(S) /\ Len(<<x>>) = 1 /\ <<x>>[1] = x
    OBVIOUS
<1> HIDE DEF n
<1>4. front \in Seq(S) /\ Len(front) = p /\ \A i \in 1 .. p : front[i] = s[i]
    BY <1>1, SubSeqProperties
<1>5. rest \in Seq(S) /\ Len(rest) = n - p /\ \A i \in 1 .. n - p : rest[i] = s[p + i]
  <2>1. p + 1 \in Int /\ \A i \in p + 1 .. n : s[i] \in S
      BY <1>1
  <2>2. /\ rest \in Seq(S)
        /\ Len(rest) = IF p + 1 <= n THEN n - (p + 1) + 1 ELSE 0
        /\ \A i \in 1 .. n - (p + 1) + 1 : rest[i] = s[(p + 1) + i - 1]
      BY <1>1, <2>1, SubSeqProperties
  <2> HIDE DEF rest
  <2>3. n - (p + 1) + 1 = n - p /\ \A i \in 1 .. n - p : (p + 1) + i - 1 = p + i
      BY <1>1
  <2>4. (IF p + 1 <= n THEN n - p ELSE 0) = n - p
      BY <1>1
  <2> QED BY <2>2, <2>3, <2>4
<1> HIDE DEF front, rest
<1>6. /\ middle \in Seq(S) /\ Len(middle) = p + 1 /\ middle[p + 1] = x
      /\ \A i \in 1 .. p : middle[i] = s[i]
  <2>1. /\ middle \in Seq(S) /\ Len(middle) = p + 1
        /\ \A i \in 1 .. p + 1 : middle[i] = IF i <= p THEN front[i] ELSE <<x>>[i - p]
      BY <1>3, <1>4, ConcatProperties
  <2> HIDE DEF middle
  <2>2. p + 1 \in 1 .. p + 1 /\ ~(p + 1 <= p) /\ (p + 1) - p = 1
      BY <1>1
  <2>3. \A i \in 1 .. p : i \in 1 .. p + 1 /\ i <= p
      BY <1>1
  <2>4. middle[p + 1] = x
      BY <1>3, <2>1, <2>2
  <2> QED BY <1>4, <2>1, <2>3, <2>4
<1> HIDE DEF middle
<1>7. /\ t \in Seq(S) /\ Len(t) = n + 1 /\ DOMAIN t = 1 .. n + 1
      /\ \A i \in 1 .. n + 1 : t[i] = IF i <= p + 1 THEN middle[i] ELSE rest[i - (p + 1)]
  <2>1. (p + 1) + (n - p) = n + 1
      BY <1>1
  <2>2. /\ middle \o rest \in Seq(S) /\ Len(middle \o rest) = Len(middle) + Len(rest)
        /\ \A i \in 1 .. Len(middle) + Len(rest) : (middle \o rest)[i] =
              IF i <= Len(middle) THEN middle[i] ELSE rest[i - Len(middle)]
      BY <1>5, <1>6, ConcatProperties
  <2>3. t \in Seq(S) /\ Len(t) = n + 1
      BY <1>5, <1>6, <2>1, <2>2
  <2>4. \A i \in 1 .. n + 1 : t[i] = IF i <= p + 1 THEN middle[i] ELSE rest[i - (p + 1)]
      BY <1>5, <1>6, <2>1, <2>2
  <2> QED BY <2>3, <2>4, LenProperties
<1> HIDE DEF t
<1>8. t[p + 1] = x /\ p + 1 \in DOMAIN t
  <2>1. p + 1 \in 1 .. n + 1 /\ p + 1 <= p + 1
      BY <1>1
  <2> QED BY <1>6, <1>7, <2>1
<1>9. \A i \in 1 .. p : i \in DOMAIN t /\ t[i] = s[i]
  <2>1. \A i \in 1 .. p : i \in 1 .. n + 1 /\ i <= p + 1
      BY <1>1
  <2> QED BY <1>6, <1>7, <2>1
<1>10. \A i \in p + 1 .. n : i + 1 \in DOMAIN t /\ t[i + 1] = s[i]
  <2> SUFFICES ASSUME NEW i \in p + 1 .. n PROVE i + 1 \in DOMAIN t /\ t[i + 1] = s[i]
      OBVIOUS
  <2>1. i - p \in 1 .. n - p /\ i + 1 \in 1 .. n + 1 /\ ~(i + 1 <= p + 1)
        /\ (i + 1) - (p + 1) = i - p /\ p + (i - p) = i
      BY <1>1
  <2> QED BY <1>5, <1>7, <2>1
<1>11. ASSUME NEW i \in DOMAIN s PROVE \E j \in DOMAIN t : t[j] = s[i]
  <2>1. i \in 1 .. p \/ i \in p + 1 .. n
      BY <1>1
  <2> QED BY <1>9, <1>10, <2>1
<1>12. ASSUME NEW j \in DOMAIN t PROVE t[j] = x \/ \E i \in DOMAIN s : t[j] = s[i]
  <2>1. j \in 1 .. n + 1
      BY <1>7
  <2>2. CASE j <= p
    <3>1. j \in 1 .. p /\ j \in 1 .. n
        BY <1>1, <2>1, <2>2
    <3> QED BY <1>1, <1>9, <3>1
  <2>3. CASE j = p + 1
      BY <1>8, <2>3
  <2>4. CASE j > p + 1
    <3>1. j - 1 \in p + 1 .. n /\ j - 1 \in 1 .. n /\ (j - 1) + 1 = j
        BY <1>1, <2>1, <2>4
    <3> QED BY <1>1, <1>10, <3>1
  <2>5. j <= p \/ j = p + 1 \/ j > p + 1
      BY <1>1, <2>1
  <2> QED BY <2>2, <2>3, <2>4, <2>5
<1> QED BY <1>7, <1>8, <1>11, <1>12 DEF PutBehind, t, middle, front, rest, n

\* Whatever plan was stored: the one that is carried out fills the fields of the
\* trip, or unknown ones with a value of the trip, and nothing else; all such fills
\* of the stored one are in it, and the return of a round trip is.
THEOREM RebindFitsTrip ==
    ASSUME NEW raw \in Seq(StepType), NEW back \in BOOLEAN
    PROVE  LET roles == (IF back THEN Fields ELSE Fields \ {"return"}) \cup {"loose"}
           IN  /\ Rebind(raw, back) \in Seq(StepType)
               /\ FillRoles(Rebind(raw, back)) \subseteq roles
               /\ FillRoles(raw) \cap roles \subseteq FillRoles(Rebind(raw, back))
               /\ back => "return" \in FillRoles(Rebind(raw, back))
<1> DEFINE roles == (IF back THEN Fields ELSE Fields \ {"return"}) \cup {"loose"}
           kept == {k \in DOMAIN raw : raw[k].act = "fill" => OfTrip(raw[k].role, back)}
           short == Picked(raw, kept)
           place == ReturnPlace(raw, Len(short))
<1>1. /\ short \in Seq(StepType)
      /\ \A i \in DOMAIN short : \E k \in kept : short[i] = raw[k]
      /\ \A k \in kept : \E i \in DOMAIN short : short[i] = raw[k]
    BY kept \in SUBSET DOMAIN raw, PickedAreKept
<1>2. \A i \in DOMAIN short : short[i].act = "fill" => short[i].role \in roles
    BY <1>1 DEF OfTrip
<1>3. \A k \in DOMAIN raw : raw[k].act = "fill" /\ raw[k].role \in roles => k \in kept
    BY DEF OfTrip
<1>4. place \in 0 .. Len(short)
  <2> DEFINE departs == {k \in DOMAIN raw : raw[k].act = "fill" /\ raw[k].role = "depart"}
             upto == {k \in DOMAIN raw : \E d \in departs : k <= d}
  <2>1. IsFiniteSet(DOMAIN raw)
      BY LenProperties, FS_Interval
  <2>2. Cardinality(upto) \in Nat
      BY <2>1, FS_Subset, FS_CardinalityType, upto \in SUBSET DOMAIN raw
  <2>3. Len(short) \in Nat
      BY <1>1, LenProperties
  <2> QED BY <2>2, <2>3 DEF ReturnPlace
<1> HIDE DEF short, place, kept
<1>5. CASE ~(back /\ "return" \notin FillRoles(raw))
  <2>1. Rebind(raw, back) = short
      BY <1>5 DEF Rebind, short, kept
  <2>2. FillRoles(short) \subseteq roles
      BY <1>2 DEF FillRoles
  <2>3. FillRoles(raw) \cap roles \subseteq FillRoles(short)
      BY <1>1, <1>3 DEF FillRoles
  <2>4. back => "return" \in FillRoles(raw) \cap roles
      BY <1>5 DEF Fields, Dates
  <2> QED BY <1>1, <2>1, <2>2, <2>3, <2>4
<1>6. CASE back /\ "return" \notin FillRoles(raw)
  <2> DEFINE full == PutBehind(short, place, ReturnStep)
  <2>1. Rebind(raw, back) = full
      BY <1>6 DEF Rebind, short, kept, place
  <2>2. ReturnStep \in StepType /\ ReturnStep.act = "fill" /\ ReturnStep.role = "return"
      BY DEF ReturnStep, StepOf, StepType, Acts, Fields, Dates
  <2>3. /\ full \in Seq(StepType)
        /\ \A i \in DOMAIN short : \E j \in DOMAIN full : full[j] = short[i]
        /\ \E j \in DOMAIN full : full[j] = ReturnStep
        /\ \A j \in DOMAIN full : full[j] = ReturnStep \/ \E i \in DOMAIN short : full[j] = short[i]
    <3>1. short \in Seq(StepType) /\ ReturnStep \in StepType /\ place \in 0 .. Len(short)
        BY <1>1, <1>4, <2>2
    <3> QED BY <3>1, PutBehindKeeps
  <2> HIDE DEF full
  <2>4. "return" \in roles
      BY <1>6 DEF Fields, Dates
  <2>5. FillRoles(full) \subseteq roles
      BY <1>2, <2>2, <2>3, <2>4 DEF FillRoles
  <2>6. FillRoles(raw) \cap roles \subseteq FillRoles(full)
      BY <1>1, <1>3, <2>3 DEF FillRoles
  <2>7. "return" \in FillRoles(full)
      BY <2>2, <2>3 DEF FillRoles
  <2> QED BY <2>1, <2>3, <2>5, <2>6, <2>7
<1> QED BY <1>5, <1>6
-----------------------------------------------------------------------------
(* What the steps have in common                                           *)

LEMMA LandsOnValue == \A f \in Fields : \A role : Lands(f, role) \in Values
BY DEF Lands, Values, Fields, Dates, Route

LEMMA FormUpdated ==
    ASSUME NEW shown \in FormType, NEW f \in Fields, NEW value \in Values
    PROVE  [shown EXCEPT ![f] = value] \in FormType
BY DEF FormType

LEMMA NoCallTyped == NoCall \in CallType
<1> DEFINE Tools == {"next", "previous", "prefilled", "option", "keys", "pressed"}
           Aims == Fields \cup {"none"}
           Vias == Ways \cup Values
<1>1. {} \in SUBSET Tools /\ "none" \in Aims /\ "" \in Vias /\ "" \in Reasons
    BY DEF Ways, Reasons
<1>2. CallType = [left : Nat, tries : Nat, off : Int, seen : Int, aim : Aims, tools : SUBSET Tools,
                  ok : BOOLEAN, reason : Reasons, via : Vias]
    BY DEF CallType
<1> HIDE DEF Tools, Aims, Vias
<1>3. \A none \in SUBSET Tools, aim \in Aims, reason \in Reasons, via \in Vias :
         [left |-> 0, tries |-> 0, off |-> 0, seen |-> 0, aim |-> aim, tools |-> none, ok |-> FALSE,
          reason |-> reason, via |-> via] \in CallType
    BY <1>2
<1> QED BY <1>1, <1>3 DEF NoCall

\* An execution that has a step in hand.
Inside == (at = "head" /\ step <= Len(plan)) \/ at \in HandlerPlaces

\* What is bound to the trip and the step in hand.
LEMMA InsideFits ==
    ASSUME IInv, Inside
    PROVE  /\ case \in Cases /\ step \in Nat \ {0} /\ step <= Len(plan) /\ at \in Places
           /\ at \notin {"start", "ended"}
           /\ plan = Rebind(case.raw, case.back) /\ Carriable(plan) /\ PlaceFits(at)
           /\ Now \in StepType /\ Now.act \in Acts
           /\ Now.act = "fill" => Role \in Fields \cup {"loose"}
<1>1. /\ case \in Cases /\ step \in Nat \ {0} /\ step <= Len(plan) /\ at \in Places
      /\ at \notin {"start", "ended"}
      /\ plan = Rebind(case.raw, case.back) /\ Carriable(plan) /\ PlaceFits(at)
    BY DEF IInv, TypesInv, PlanInv, Inside, HandlerPlaces, RoutePlaces, BoxPlaces, RecoveryPlaces,
       DatePlaces, SkyPlaces, SearchPlaces
<1>2. case.raw \in Seq(StepType) /\ case.back \in BOOLEAN
    BY <1>1, CasesAssumption DEF StepType
<1>3. plan \in Seq(StepType) /\ FillRoles(plan) \subseteq Fields \cup {"loose"}
    BY <1>1, <1>2, RebindFitsTrip
<1>4. DOMAIN plan = 1 .. Len(plan) /\ Len(plan) \in Nat
    BY <1>3, LenProperties
<1>5. step \in DOMAIN plan /\ plan[step] \in StepType
    BY <1>1, <1>3, <1>4, ElementOfSeq
<1>6. plan[step].act \in Acts
    BY <1>1, <1>5 DEF Carriable
<1>7. plan[step].act = "fill" => plan[step].role \in Fields \cup {"loose"}
    BY <1>3, <1>5 DEF FillRoles
<1> QED BY <1>1, <1>5, <1>6, <1>7 DEF Now, Role

\* A handler that goes on, or is done, with the plan as it is.
LEMMA GoesOn ==
    ASSUME IInv, Inside, Keeps, at' \in HandlerPlaces \ SearchPlaces, PlaceFits(at'),
           form' \in FormType, focus' \in Fields \cup {"none"}, call' \in CallType,
           BoxInv', ReturnSparesDepart'
    PROVE  IInv'
<1>0. /\ case' = case /\ plan' = plan /\ step' = step /\ trace' = trace /\ raised' = raised
      /\ pressed' = pressed
    BY DEF Keeps
<1>1. at' \in Places /\ at' \notin {"start", "ended"} /\ at' \notin SearchPlaces /\ at' \in HandlerPlaces
    BY DEF Places, HandlerPlaces, RoutePlaces, BoxPlaces, RecoveryPlaces, DatePlaces, SkyPlaces, SearchPlaces
<1>2. TypesInv'
    BY <1>0, <1>1 DEF IInv, TypesInv, FormType, EntryType
<1>3. PlanInv'
    BY <1>0, <1>1, InsideFits DEF PlanInv, PlaceFits, Now, Role, Google, DateFailed
<1>4. Tried'
    BY <1>0 DEF IInv, Tried
<1>5. FormRight'
    BY <1>1 DEF FormRight
<1>6. SearchedAsAsked' /\ DepartBeforeSearch'
    BY <1>0 DEF IInv, SearchedAsAsked, DepartBeforeSearch, Searched, Readable, Google, DepartFirst,
       AsAsked, Passes, Trip
<1> QED BY <1>2, <1>3, <1>4, <1>5, <1>6 DEF IInv

\* The plan is left with an exception.
LEMMA Leaves ==
    ASSUME IInv, Inside, UNCHANGED <<case, plan, step, call, pressed>>,
           form' \in FormType, focus' \in Fields \cup {"none"}, trace \subseteq trace', trace' \subseteq EntryType, at' = "ended", raised' \in Exits
    PROVE  IInv'
<1>0. /\ case' = case /\ plan' = plan /\ step' = step /\ call' = call /\ pressed' = pressed
    OBVIOUS
<1>1. TypesInv'
    BY <1>0 DEF IInv, TypesInv, Places, FormType
<1>2. PlanInv' /\ BoxInv' /\ FormRight' /\ ReturnSparesDepart'
    BY <1>0, InsideFits DEF PlanInv, PlaceFits, BoxInv, FormRight, ReturnSparesDepart, HandlerPlaces, RoutePlaces,
       BoxPlaces, RecoveryPlaces, DatePlaces, SkyPlaces, SearchPlaces
<1>3. Tried'
    BY <1>0 DEF IInv, Tried
<1>4. SearchedAsAsked' /\ DepartBeforeSearch'
    BY <1>0 DEF IInv, SearchedAsAsked, DepartBeforeSearch, Searched, Readable, Google, DepartFirst,
       AsAsked, Passes, Trip
<1> QED BY <1>1, <1>2, <1>3, <1>4 DEF IInv

\* A step is over with an entry; a departure with a good one or a failure.
LEMMA StepIsOver ==
    ASSUME IInv, Inside, KeepsPage, NEW status \in Statuses, NEW reason \in Reasons,
           StepOver({Entry(status, reason)}), Departs(Now) => status \in Good \cup GoogleFailures
    PROVE  IInv'
<1>0. /\ case' = case /\ plan' = plan /\ step' = step + 1 /\ form' = form /\ focus' = focus
      /\ call' = NoCall /\ pressed' = pressed /\ raised' = raised /\ at' = "head"
      /\ trace' = trace \cup {Entry(status, reason)}
    BY DEF StepOver, KeepsPage
<1>1. Entry(status, reason) \in EntryType
    BY InsideFits DEF Entry, EntryType
<1>2. NoCall \in CallType
    BY NoCallTyped
<1>3. TypesInv'
    BY <1>0, <1>1, <1>2 DEF IInv, TypesInv, Places, FormType
<1>4. PlanInv' /\ BoxInv' /\ FormRight' /\ ReturnSparesDepart'
    BY <1>0, InsideFits DEF PlanInv, PlaceFits, BoxInv, FormRight, ReturnSparesDepart, HandlerPlaces, RoutePlaces,
       BoxPlaces, RecoveryPlaces, DatePlaces, SkyPlaces, SearchPlaces
<1>5. Tried'
  <2> SUFFICES ASSUME NEW k \in 1 .. step, k <= Len(plan), Departs(plan[k])
               PROVE  \E e \in trace' : e.role = "depart" /\ e.status \in Good \cup GoogleFailures
      BY <1>0, InsideFits DEF Tried
  <2>1. CASE k = step
    <3>1. Departs(Now)
        BY <2>1 DEF Now
    <3>2. Entry(status, reason).role = "depart" /\ Entry(status, reason).status = status
        BY <3>1 DEF Departs, Entry, Role
    <3> QED BY <1>0, <3>1, <3>2
  <2>2. CASE k # step
    <3>1. k \in 1 .. step - 1
        BY <2>2, InsideFits
    <3> QED BY <1>0, <3>1 DEF IInv, Tried
  <2> QED BY <2>1, <2>2
<1>6. SearchedAsAsked' /\ DepartBeforeSearch'
    BY <1>0 DEF IInv, SearchedAsAsked, DepartBeforeSearch, Searched, Readable, Google, DepartFirst,
       AsAsked, Passes, Trip
<1> QED BY <1>3, <1>4, <1>5, <1>6 DEF IInv

\* Nothing has happened when the plan has not been bound yet.
LEMMA InitHolds == InitForm => IInv
<1> SUFFICES ASSUME InitForm PROVE IInv
    OBVIOUS
<1>1. NotPressed \in FormType /\ form \in FormType
    BY DEF InitForm, NotPressed, FormType, Values
<1>2. NoCall \in CallType
    BY NoCallTyped
<1>3. TypesInv
  <2>1. /\ case \in Cases /\ at = "start" /\ step = 1 /\ raised = "" /\ trace = {}
        /\ pressed = NotPressed /\ focus = "none" /\ call = NoCall
      BY DEF InitForm
  <2>2. "start" \in Places /\ "" \in Exits
      BY DEF Places, Exits
  <2>3. step \in Nat \ {0}
    <3>1. step = 1
        BY <2>1
    <3> QED BY ONLY <3>1
  <2>4. trace \subseteq EntryType
      BY <2>1
  <2> QED BY <1>1, <1>2, <2>1, <2>2, <2>3, <2>4 DEF TypesInv
<1>4. PlanInv /\ BoxInv /\ FormRight /\ ReturnSparesDepart
    BY DEF InitForm, PlanInv, PlaceFits, BoxInv, FormRight, ReturnSparesDepart, HandlerPlaces, RoutePlaces,
       BoxPlaces, RecoveryPlaces, DatePlaces, SkyPlaces, SearchPlaces
<1>5. Tried
  <2>1. step = 1
      BY DEF InitForm
  <2> QED BY <2>1 DEF Tried
<1>6. SearchedAsAsked /\ DepartBeforeSearch
    BY DEF InitForm, SearchedAsAsked, DepartBeforeSearch, Searched
<1> QED BY <1>3, <1>4, <1>5, <1>6 DEF IInv
\* One of the locals of a handler gets another value of its kind.
LEMMA CallUpdated ==
    ASSUME NEW c \in CallType
    PROVE  /\ \A left \in Nat : [c EXCEPT !.left = left] \in CallType
           /\ \A tries \in Nat : [c EXCEPT !.tries = tries] \in CallType
           /\ \A off \in Int : [c EXCEPT !.off = off] \in CallType
           /\ \A seen \in Int : [c EXCEPT !.seen = seen] \in CallType
           /\ \A aim \in Fields \cup {"none"} : [c EXCEPT !.aim = aim] \in CallType
           /\ \A ok \in BOOLEAN : [c EXCEPT !.ok = ok] \in CallType
           /\ \A reason \in Reasons : [c EXCEPT !.reason = reason] \in CallType
           /\ \A via \in Ways \cup Values : [c EXCEPT !.via = via] \in CallType
<1> DEFINE Vias == Ways \cup Values
           Aims == Fields \cup {"none"}
           Tools == SUBSET {"next", "previous", "prefilled", "option", "keys", "pressed"}
<1>1. CallType = [left : Nat, tries : Nat, off : Int, seen : Int, aim : Aims, tools : Tools,
                  ok : BOOLEAN, reason : Reasons, via : Vias]
    BY DEF CallType
<1> HIDE DEF Vias, Aims, Tools
<1>2. /\ \A left \in Nat : [c EXCEPT !.left = left] \in CallType
      /\ \A tries \in Nat : [c EXCEPT !.tries = tries] \in CallType
      /\ \A off \in Int : [c EXCEPT !.off = off] \in CallType
    BY <1>1
<1>3. /\ \A seen \in Int : [c EXCEPT !.seen = seen] \in CallType
      /\ \A aim \in Aims : [c EXCEPT !.aim = aim] \in CallType
      /\ \A ok \in BOOLEAN : [c EXCEPT !.ok = ok] \in CallType
    BY <1>1
<1>4. /\ \A reason \in Reasons : [c EXCEPT !.reason = reason] \in CallType
      /\ \A via \in Vias : [c EXCEPT !.via = via] \in CallType
    BY <1>1
<1> QED BY <1>2, <1>3, <1>4 DEF Vias, Aims

\* A handler is done or fails.
LEMMA Judged ==
    ASSUME call \in CallType
    PROVE  /\ \A via \in Ways \cup Values :
                 Done(via) => at' = "judge" /\ call' \in CallType /\ call'.ok /\ call'.via = via
           /\ \A reason \in Reasons :
                 Fails(reason) => at' = "judge" /\ call' \in CallType /\ ~call'.ok
<1>1. ASSUME NEW via \in Ways \cup Values, Done(via)
      PROVE  at' = "judge" /\ call' \in CallType /\ call'.ok /\ call'.via = via
  <2>1. [call EXCEPT !.ok = TRUE] \in CallType
      BY CallUpdated
  <2>2. [[call EXCEPT !.ok = TRUE] EXCEPT !.via = via] \in CallType
      BY <2>1, CallUpdated
  <2>3. call' = [call EXCEPT !.ok = TRUE, !.via = via] /\ at' = "judge"
      BY <1>1 DEF Done
  <2> QED BY <2>2, <2>3 DEF CallType
<1>2. ASSUME NEW reason \in Reasons, Fails(reason)
      PROVE  at' = "judge" /\ call' \in CallType /\ ~call'.ok
  <2>1. [call EXCEPT !.ok = FALSE] \in CallType
      BY CallUpdated
  <2>2. [[call EXCEPT !.ok = FALSE] EXCEPT !.reason = reason] \in CallType
      BY <2>1, CallUpdated
  <2>3. call' = [call EXCEPT !.ok = FALSE, !.reason = reason] /\ at' = "judge"
      BY <1>2 DEF Fails
  <2> QED BY <2>2, <2>3 DEF CallType
<1> QED BY <1>1, <1>2

-----------------------------------------------------------------------------
(* The calendar of Google Flights                                          *)

Aimed ==
    {"date_chip", "date_month", "date_buttons", "date_turn", "date_day", "date_close", "date_verify"}

LEMMA DateGoesOn ==
    ASSUME IInv, at \in DatePlaces, Keeps, at' \in DatePlaces \cup {"judge"},
           form' \in FormType, focus' \in Fields \cup {"none"}, call' \in CallType,
           at' \in Aimed => call'.aim \in Dates,
           at' = "judge" /\ call'.ok /\ call'.via = "calendar" /\ Role = "return"
             /\ "depart" \in Asked \cap case.legible => form'["depart"] # "return"
    PROVE  IInv'
<1>1. Inside /\ at \notin SearchPlaces /\ at' \in HandlerPlaces \ SearchPlaces
      /\ at' \notin RoutePlaces \cup RecoveryPlaces \cup SkyPlaces
    BY DEF Inside, HandlerPlaces, RoutePlaces, BoxPlaces, RecoveryPlaces, DatePlaces, SkyPlaces, SearchPlaces
<1>2. PlaceFits(at')
    BY <1>1, InsideFits DEF PlaceFits, SkyPlaces
<1>3. BoxInv'
    BY <1>1 DEF BoxInv, Aimed, RoutePlaces, BoxPlaces, SkyPlaces
<1>4. ReturnSparesDepart'
    BY DEF ReturnSparesDepart, Keeps, Role, Now, Asked
<1> QED BY <1>1, <1>2, <1>3, <1>4, GoesOn

\* The budget goes down by one action.
LEMMA SpendsOne ==
    ASSUME call \in CallType, NEW more \in CallType, Spends(more)
    PROVE  /\ call' \in CallType
           /\ call'.tries = more.tries /\ call'.aim = more.aim /\ call'.ok = more.ok
           /\ call'.off = more.off /\ call'.seen = more.seen
<1>1. call.left \in Nat /\ call.left > 0
    BY DEF Spends, CallType
<1>2. call' = [more EXCEPT !.left = call.left - 1] /\ call.left - 1 \in Nat
    BY <1>1 DEF Spends
<1> QED BY <1>2, CallUpdated DEF CallType

LEMMA DateStepKeeps == ASSUME IInv, DateStep PROVE IInv'
<1>1. at \in DatePlaces
    BY DEF DateStep, DateOpen, DateRoot, DateChip, DateMonth, DateButtons, DateTurn, DateDay, DateClose,
       DateVerify, DateType, DatePlaces
<1>2. /\ call \in CallType /\ form \in FormType /\ focus \in Fields \cup {"none"}
      /\ at \in Aimed \ {"date_verify"} \/ at = "date_verify" => call.aim \in Dates
      /\ Inside
    BY <1>1 DEF IInv, TypesInv, BoxInv, Aimed, Inside, HandlerPlaces
<1>3. Google /\ Role \in Dates /\ Role \in Fields
    BY <1>1, <1>2, InsideFits DEF PlaceFits, Fields
<1>4. /\ call.left \in Nat /\ call.tries \in Nat /\ call.off \in Int /\ call.seen \in Int
      /\ call.reason \in Reasons
    BY <1>2 DEF CallType
<1>5. Reaches(Role) \subseteq Fields
    BY <1>3 DEF Reaches, Fields
<1>6. ASSUME NEW aim \in Dates, Put(aim, Role) PROVE form' \in FormType
  <2>1. aim \in Fields
      BY DEF Fields
  <2>2. Lands(aim, Role) \in Values
      BY <2>1, LandsOnValue
  <2>3. form' = [form EXCEPT ![aim] = Lands(aim, Role)]
      BY <1>6 DEF Put
  <2> QED BY <1>2, <2>1, <2>2, <2>3, FormUpdated
<1>7. ASSUME NEW reason \in Reasons, Fails(reason), Keeps, form' \in FormType, focus' = focus
      PROVE  IInv'
    BY <1>1, <1>2, <1>7, Judged, DateGoesOn DEF Aimed
<1>8. ASSUME NEW reason \in Reasons, Broke(reason), Keeps PROVE IInv'
    BY <1>2, <1>7, <1>8 DEF Broke, KeepsPage
<1>9. ASSUME NEW reason \in Reasons, TypeInstead(reason), Keeps, form' \in FormType, focus' = focus
      PROVE  IInv'
  <2>1. call' \in CallType /\ at' = "date_type"
      BY <1>2, <1>9, CallUpdated DEF TypeInstead, Goto
  <2> QED BY <1>1, <1>2, <1>9, <2>1, DateGoesOn DEF DatePlaces, Aimed
<1>10. CASE DateOpen
  <2>1. form' = form /\ Keeps
      BY <1>10 DEF DateOpen
  <2>2. CASE TypeInstead("calendar_not_open") /\ UNCHANGED focus
      BY <1>2, <1>9, <2>1, <2>2 DEF Reasons
  <2>3. ASSUME NextOpener, at' \in {"date_open", "date_root"}, focus' \in Reaches(Role) \cup {focus}
        PROVE  IInv'
    <3>1. [call EXCEPT !.tries = call.tries + 1] \in CallType
        BY <1>2, <1>4, CallUpdated
    <3>2. call' \in CallType
        BY <1>2, <2>3, <3>1, SpendsOne DEF NextOpener
    <3> QED BY <1>1, <1>2, <1>5, <2>1, <2>3, <3>2, DateGoesOn DEF DatePlaces, Aimed
  <2> QED BY <1>2, <1>10, <2>2, <2>3 DEF DateOpen, Goto
<1>11. CASE DateRoot
  <2>1. form' = form /\ focus' = focus /\ Keeps
      BY <1>11 DEF DateRoot, KeepsPage
  <2>2. CASE Goto("date_open") /\ UNCHANGED call
      BY <1>1, <1>2, <2>1, <2>2, DateGoesOn DEF DatePlaces, Aimed, Goto
  <2>3. ASSUME NEW off \in Months, NEW aim \in Dates,
               call' = [call EXCEPT !.tries = 0, !.off = off, !.aim = aim],
               at' \in {"date_chip", "date_month"}
        PROVE  IInv'
    <3>1. off \in Int /\ aim \in Fields
        BY PickerAssumption DEF Months, Fields
    <3>2. [call EXCEPT !.tries = 0] \in CallType
        BY <1>2, CallUpdated
    <3>3. [[call EXCEPT !.tries = 0] EXCEPT !.off = off] \in CallType
        BY <3>1, <3>2, CallUpdated
    <3>4. [[[call EXCEPT !.tries = 0] EXCEPT !.off = off] EXCEPT !.aim = aim] \in CallType
        BY <3>1, <3>3, CallUpdated
    <3>5. call' \in CallType /\ call'.aim = aim
        BY <2>3, <3>4, <1>2 DEF CallType
    <3> QED BY <1>1, <1>2, <2>1, <2>3, <3>5, DateGoesOn DEF DatePlaces
  <2> QED BY <1>11, <2>2, <2>3 DEF DateRoot, Goto
<1>12. CASE DateChip
  <2>1. CASE Broke("budget_hit") /\ UNCHANGED raised
      BY <1>8, <1>12, <2>1 DEF DateChip, Keeps, Reasons
  <2>2. CASE ChipPressed /\ Goto("date_month") /\ KeepsPage /\ UNCHANGED raised
    <3>1. PICK aim \in {call.aim, "return"} : Spends([call EXCEPT !.aim = aim])
        BY <2>2 DEF ChipPressed
    <3>2. aim \in Dates /\ aim \in Fields
        BY <1>2, <1>12 DEF DateChip, Aimed, Dates, Fields
    <3>3. [call EXCEPT !.aim = aim] \in CallType /\ [call EXCEPT !.aim = aim].aim = aim
        BY <1>2, <3>2, CallUpdated DEF CallType
    <3>4. call' \in CallType /\ call'.aim = aim
        BY <1>2, <3>1, <3>3, SpendsOne
    <3> QED BY <1>1, <1>2, <1>12, <2>2, <3>2, <3>4, DateGoesOn
            DEF DateChip, Keeps, KeepsPage, Goto, DatePlaces
  <2>3. CASE Raises("timeout") /\ UNCHANGED call /\ KeepsPage
    <3>1. trace' = trace /\ trace \subseteq EntryType
        BY <1>12 DEF DateChip, IInv, TypesInv
    <3> QED BY <1>2, <1>12, <2>3, <3>1, Leaves DEF DateChip, Raises, KeepsPage, Exits
  <2> QED BY <1>12, <2>1, <2>2, <2>3 DEF DateChip
<1>13. CASE DateMonth
  <2>1. CASE Broke("budget_hit")
      BY <1>8, <1>13, <2>1 DEF DateMonth, Reasons
  <2>2. ASSUME NEW reason \in {"calendar_not_open", "month_nav_exhausted"}, Fails(reason), KeepsPage
        PROVE  IInv'
      BY <1>2, <1>7, <1>13, <2>2 DEF DateMonth, KeepsPage, Reasons
  <2>3. ASSUME NEW seen \in MonthsRead, Spends([call EXCEPT !.seen = seen]), Goto("date_buttons"), KeepsPage
        PROVE  IInv'
    <3>1. seen \in Int
        BY <1>4, PickerAssumption DEF MonthsRead, Months
    <3>2. [call EXCEPT !.seen = seen] \in CallType /\ [call EXCEPT !.seen = seen].aim = call.aim
        BY <1>2, <3>1, CallUpdated DEF CallType
    <3>3. call' \in CallType /\ call'.aim = call.aim
        BY <1>2, <2>3, <3>2, SpendsOne
    <3> QED BY <1>1, <1>2, <1>13, <2>3, <3>3, DateGoesOn DEF DateMonth, KeepsPage, Goto, DatePlaces, Aimed
  <2> QED BY <1>13, <2>1, <2>2, <2>3 DEF DateMonth
<1>14. CASE DateButtons
  <2>1. CASE Broke("budget_hit")
      BY <1>8, <1>14, <2>1 DEF DateButtons, Reasons
  <2>2. CASE TypeInstead("month_nav_buttons_not_found") /\ KeepsPage
      BY <1>2, <1>9, <1>14, <2>2 DEF DateButtons, KeepsPage, Reasons
  <2>3. ASSUME NEW tools \in SUBSET {"next", "previous"}, Spends([call EXCEPT !.tools = tools]),
               Goto("date_turn"), KeepsPage
        PROVE  IInv'
    <3>1. [call EXCEPT !.tools = tools] \in CallType /\ [call EXCEPT !.tools = tools].aim = call.aim
        BY <1>2 DEF CallType
    <3>2. call' \in CallType /\ call'.aim = call.aim
        BY <1>2, <2>3, <3>1, SpendsOne
    <3> QED BY <1>1, <1>2, <1>14, <2>3, <3>2, DateGoesOn DEF DateButtons, KeepsPage, Goto, DatePlaces, Aimed
  <2> QED BY <1>14, <2>1, <2>2, <2>3 DEF DateButtons
<1>15. CASE DateTurn
  <2>1. form' = form /\ focus' = focus /\ Keeps /\ call.aim \in Dates
      BY <1>2, <1>15 DEF DateTurn, KeepsPage, Aimed
  <2>2. CASE TypeInstead("month_nav_exhausted")
      BY <1>2, <1>9, <2>1, <2>2 DEF Reasons
  <2>3. CASE Fails("budget_hit")
      BY <1>2, <1>7, <2>1, <2>3 DEF Reasons
  <2>4. CASE Spends(call) /\ Goto("date_day")
    <3>1. call' \in CallType /\ call'.aim = call.aim
        BY <1>2, <2>4, SpendsOne
    <3> QED BY <1>1, <1>2, <2>1, <2>4, <3>1, DateGoesOn DEF Goto, DatePlaces
  <2>5. ASSUME NEW forward \in BOOLEAN, Turn(forward) PROVE IInv'
    <3>1. PICK one \in {-1, 1} :
             Spends([call EXCEPT !.tries = call.tries + 1, !.off = call.off + one, !.seen = call.seen + one])
        BY <2>5 DEF Turn
    <3> DEFINE more == [[[call EXCEPT !.tries = call.tries + 1] EXCEPT !.off = call.off + one]
                           EXCEPT !.seen = call.seen + one]
    <3>2. call.off + one \in Int /\ call.seen + one \in Int /\ call.tries + 1 \in Nat
        BY <1>4
    <3>3. [call EXCEPT !.tries = call.tries + 1] \in CallType
        BY <1>2, <3>2, CallUpdated
    <3>4. [[call EXCEPT !.tries = call.tries + 1] EXCEPT !.off = call.off + one] \in CallType
        BY <3>2, <3>3, CallUpdated
    <3>5. more \in CallType
        BY <3>2, <3>4, CallUpdated
    <3>6. more.aim = call.aim
        BY <1>2 DEF CallType
    <3>7. Spends(more)
        BY <3>1
    <3> HIDE DEF more
    <3>8. call' \in CallType /\ call'.aim = call.aim
        BY <1>2, <3>5, <3>6, <3>7, SpendsOne
    <3> QED BY <1>1, <1>2, <2>1, <2>5, <3>8, DateGoesOn DEF Turn, Goto, DatePlaces
  <2>6. (call.seen > 0) \in BOOLEAN
      BY <1>4
  <2> QED BY <1>15, <2>2, <2>3, <2>4, <2>5, <2>6 DEF DateTurn
<1>16. CASE DateDay
  <2>1. CASE Broke("budget_hit")
      BY <1>8, <1>16, <2>1 DEF DateDay, Reasons
  <2>2. Keeps /\ call.aim \in Dates
      BY <1>2, <1>16 DEF DateDay, Aimed
  <2>3. CASE Spends(call) /\ Put(call.aim, Role) /\ Goto("date_close") /\ UNCHANGED focus
    <3>1. call' \in CallType /\ call'.aim = call.aim /\ form' \in FormType
        BY <1>2, <1>6, <2>2, <2>3, SpendsOne
    <3> QED BY <1>1, <1>2, <2>2, <2>3, <3>1, DateGoesOn DEF Goto, DatePlaces
  <2>4. CASE (UNCHANGED form \/ Put(call.aim, Role)) /\ TypeInstead("calendar_day_not_found") /\ UNCHANGED focus
      BY <1>2, <1>6, <1>9, <2>2, <2>4 DEF Reasons
  <2> QED BY <1>16, <2>1, <2>3, <2>4 DEF DateDay
<1>17. CASE DateClose
  <2>1. CASE Broke("budget_hit")
      BY <1>8, <1>17, <2>1 DEF DateClose, Reasons
  <2>2. CASE Spends(call) /\ Goto("date_verify") /\ UNCHANGED focus
             /\ (UNCHANGED form \/ form' = [form EXCEPT ![call.aim] = "none"])
    <3>1. call.aim \in Dates /\ call.aim \in Fields /\ Keeps
        BY <1>2, <1>17 DEF DateClose, Aimed, Fields
    <3>2. form' \in FormType
        BY <1>2, <2>2, <3>1, FormUpdated DEF Values
    <3>3. call' \in CallType /\ call'.aim = call.aim
        BY <1>2, <2>2, SpendsOne
    <3> QED BY <1>1, <1>2, <2>2, <3>1, <3>2, <3>3, DateGoesOn DEF Goto, DatePlaces
  <2> QED BY <1>17, <2>1, <2>2 DEF DateClose
<1>18. CASE DateVerify
  <2>1. CASE Broke("budget_hit")
      BY <1>8, <1>18, <2>1 DEF DateVerify, Reasons
  <2>2. ASSUME NEW depart \in DateShown("depart"), ~WentToDepart(depart), Done("calendar"), KeepsPage
        PROVE  IInv'
    <3>1. at' = "judge" /\ call' \in CallType
        BY <1>2, <2>2, Judged DEF Ways
    <3>2. Role = "return" /\ "depart" \in Asked \cap case.legible => form'["depart"] # "return"
        BY <2>2 DEF WentToDepart, Passes, DateShown, Reading, KeepsPage
    <3> QED BY <1>1, <1>2, <1>18, <2>2, <3>1, <3>2, DateGoesOn DEF DateVerify, KeepsPage, Aimed
  <2>3. CASE Fails("date_picker_unverified") /\ KeepsPage
      BY <1>2, <1>7, <1>18, <2>3 DEF DateVerify, KeepsPage, Reasons
  <2> QED BY <1>18, <2>1, <2>2, <2>3 DEF DateVerify
<1>19. CASE DateType
  <2>1. Keeps /\ focus' = focus
      BY <1>19 DEF DateType
  <2>4. Typable \subseteq Fields /\ "none" \in Values
      BY <1>2, <1>3 DEF Typable, Values
  <2>5. Emptied \subseteq FormType
      BY <1>2, <2>4, FormUpdated DEF Emptied
  <2>2. ASSUME NEW left \in Emptied, Fails(call.reason), form' = left PROVE IInv'
      BY <1>4, <1>7, <2>1, <2>2, <2>5
  <2>3. ASSUME NEW left \in Emptied, NEW target \in Typable,
               form' = [left EXCEPT ![target] = Lands(target, Role)], Done("typed") \/ Fails(call.reason)
        PROVE  IInv'
    <3>1. left \in FormType /\ target \in Fields /\ Lands(target, Role) \in Values
        BY <2>4, <2>5, LandsOnValue
    <3>2. form' \in FormType
        BY <2>3, <3>1, FormUpdated
    <3>3. CASE Fails(call.reason)
        BY <1>4, <1>7, <2>1, <3>2, <3>3
    <3>4. CASE Done("typed")
      <4>1. at' = "judge" /\ call' \in CallType /\ call'.via = "typed"
          BY <1>2, <3>4, Judged DEF Ways
      <4> QED BY <1>1, <1>2, <2>1, <3>2, <4>1, DateGoesOn DEF Aimed
    <3> QED BY <2>3, <3>3, <3>4
  <2> QED BY <1>19, <2>2, <2>3 DEF DateType
<1> QED BY <1>10, <1>11, <1>12, <1>13, <1>14, <1>15, <1>16, <1>17, <1>18, <1>19 DEF DateStep

-----------------------------------------------------------------------------
(* The airports of Google Flights                                          *)

LEMMA RouteGoesOn ==
    ASSUME IInv, at \in RoutePlaces, Keeps, at' \in RoutePlaces \cup {"judge"},
           form' \in FormType, focus' \in Fields \cup {"none"}, call' \in CallType,
           at' \in RoutePlaces => call'.via \in Values \cup {""},
           at' \in {"box_commit", "box_verify"} => call'.aim \in Fields
    PROVE  IInv'
<1>1. Inside /\ at' \in HandlerPlaces \ SearchPlaces
      /\ at' \notin DatePlaces \cup SkyPlaces \cup SearchPlaces
    BY DEF Inside, HandlerPlaces, RoutePlaces, BoxPlaces, RecoveryPlaces, DatePlaces, SkyPlaces, SearchPlaces
<1>2. PlaceFits(at') /\ Role \in Route
    BY <1>1, InsideFits DEF PlaceFits, SkyPlaces
<1>3. BoxInv'
    BY <1>1 DEF BoxInv, DatePlaces, SkyPlaces
<1>4. ReturnSparesDepart'
    BY <1>2 DEF ReturnSparesDepart, Keeps, Role, Now, Route
<1> QED BY <1>1, <1>2, <1>3, <1>4, GoesOn

LEMMA RouteStepKeeps == ASSUME IInv, RouteStep PROVE IInv'
<1>1. at \in RoutePlaces
    BY DEF RouteStep, BoxLook, BoxPress, BoxOpened, BoxInput, BoxCommit, BoxVerify, RouteCheck, RouteSettle,
       RouteFinalize, RouteAlias, RouteItinerary, RoutePlaces, BoxPlaces
<1>2. /\ call \in CallType /\ form \in FormType /\ focus \in Fields \cup {"none"}
      /\ call.via \in Values \cup {""} /\ Inside
      /\ at \in {"box_commit", "box_verify"} => call.aim \in Fields
    BY <1>1 DEF IInv, TypesInv, BoxInv, Inside, HandlerPlaces
<1>3. Role \in Route /\ Role \in Fields /\ Role \in Values
    BY <1>1, <1>2, InsideFits DEF PlaceFits, Fields, Values
<1>4. Reaches(Role) \subseteq Fields /\ "dest" \in Fields
    BY <1>3 DEF Reaches, Fields, Route
<1>5. \A f \in Fields : Reading(f) \subseteq Values
    BY <1>2 DEF Reading, FormType
<1>6. ASSUME NEW reason \in Reasons, Fails(reason), Keeps, form' \in FormType, focus' \in Fields \cup {"none"}
      PROVE  IInv'
    BY <1>1, <1>2, <1>6, Judged, RouteGoesOn DEF RoutePlaces, BoxPlaces
<1>7. ASSUME NEW via \in Ways, Done(via), Keeps, form' \in FormType, focus' \in Fields \cup {"none"}
      PROVE  IInv'
    BY <1>1, <1>2, <1>7, Judged, RouteGoesOn DEF RoutePlaces, BoxPlaces
<1>8. ASSUME NEW place \in RoutePlaces, place \notin {"box_commit", "box_verify"}, Goto(place), UNCHANGED call,
             Keeps, form' \in FormType, focus' \in Fields \cup {"none"}
      PROVE  IInv'
    BY <1>1, <1>2, <1>8, RouteGoesOn DEF Goto
<1>9. ASSUME BoxFails, Keeps, form' \in FormType, focus' \in Fields \cup {"none"} PROVE IInv'
    BY <1>6, <1>8, <1>9 DEF BoxFails, Reasons, RoutePlaces
<1>10. CASE BoxLook
  <2>1. form' = form /\ focus' = focus /\ Keeps
      BY <1>10 DEF BoxLook, KeepsPage
  <2>2. ASSUME NEW shown \in Values, Goto("route_check"),
               call' = [call EXCEPT !.tools = {"prefilled"}, !.ok = TRUE, !.via = shown]
        PROVE  IInv'
    <3>1. [call EXCEPT !.tools = {"prefilled"}] \in CallType
        BY <1>2 DEF CallType
    <3>2. [[call EXCEPT !.tools = {"prefilled"}] EXCEPT !.ok = TRUE] \in CallType
        BY <3>1, CallUpdated
    <3>3. [[[call EXCEPT !.tools = {"prefilled"}] EXCEPT !.ok = TRUE] EXCEPT !.via = shown] \in CallType
        BY <3>2, CallUpdated
    <3>4. call' \in CallType /\ call'.via = shown
        BY <1>2, <2>2, <3>3 DEF CallType
    <3> QED BY <1>1, <1>2, <1>3, <2>1, <2>2, <3>4, RouteGoesOn DEF Goto, RoutePlaces
  <2>3. CASE (Goto("box_input") \/ Goto("box_press")) /\ UNCHANGED call
      BY <1>2, <1>8, <2>1, <2>3 DEF RoutePlaces, BoxPlaces
  <2> QED BY <1>10, <2>2, <2>3 DEF BoxLook
<1>11. CASE BoxPress
    BY <1>2, <1>4, <1>8, <1>9, <1>11 DEF BoxPress, RoutePlaces, BoxPlaces
<1>12. CASE BoxOpened
    BY <1>2, <1>8, <1>9, <1>12 DEF BoxOpened, KeepsPage, RoutePlaces, BoxPlaces
<1>13. CASE BoxInput
  <2>1. form' = form /\ Keeps
      BY <1>13 DEF BoxInput
  <2>2. CASE BoxFails /\ UNCHANGED focus
      BY <1>2, <1>9, <2>1, <2>2
  <2>3. ASSUME NEW f \in Reaches(Role) \cup ({focus} \ {"none"}), focus' = f,
               call' = [call EXCEPT !.aim = f], Goto("box_commit")
        PROVE  IInv'
    <3>1. f \in Fields
        BY <1>2, <1>4
    <3>2. call' \in CallType
        BY <1>2, <2>3, <3>1, CallUpdated
    <3>3. call'.aim = f /\ call'.via = call.via
        BY <1>2, <2>3 DEF CallType
    <3> QED BY <1>1, <1>2, <2>1, <2>3, <3>1, <3>2, <3>3, RouteGoesOn DEF Goto, RoutePlaces, BoxPlaces
  <2> QED BY <1>13, <2>2, <2>3 DEF BoxInput
<1>14. CASE BoxCommit
  <2>1. focus' = focus /\ Keeps /\ call.aim \in Fields
      BY <1>2, <1>14 DEF BoxCommit
  <2>2. CASE BoxFails /\ (UNCHANGED form \/ form' = [form EXCEPT ![call.aim] = "none"])
    <3>1. "none" \in Values
        BY DEF Values
    <3>2. [form EXCEPT ![call.aim] = "none"] \in FormType
        BY <1>2, <2>1, <3>1, FormUpdated
    <3> QED BY <1>2, <1>9, <2>1, <2>2, <3>2
  <2>3. ASSUME NEW how \in {{"option"}, {"keys"}, {}}, NEW shows \in {Role} \cup Settled,
               form' = [form EXCEPT ![call.aim] =
                             IF shows \in Settled THEN shows ELSE Lands(call.aim, Role)],
               call' = [call EXCEPT !.tools = how], Goto("box_verify")
        PROVE  IInv'
    <3>1. (IF shows \in Settled THEN shows ELSE Lands(call.aim, Role)) \in Values
        BY <2>1, LandsOnValue DEF Settled, Values
    <3>2. form' \in FormType
        BY <1>2, <2>1, <2>3, <3>1, FormUpdated
    <3>3. call' \in CallType /\ call'.aim = call.aim /\ call'.via = call.via
        BY <1>2, <2>3 DEF CallType
    <3> QED BY <1>1, <1>2, <2>1, <2>3, <3>2, <3>3, RouteGoesOn DEF Goto, RoutePlaces, BoxPlaces
  <2> QED BY <1>14, <2>2, <2>3 DEF BoxCommit
<1>15. CASE BoxVerify
  <2>1. form' = form /\ focus' = focus /\ Keeps /\ call.aim \in Fields
      BY <1>2, <1>15 DEF BoxVerify, KeepsPage
  <2>2. CASE BoxFails
      BY <1>2, <1>9, <2>1, <2>2
  <2>3. ASSUME NEW shown \in Reading(call.aim), NEW option \in BOOLEAN, Goto("route_check"),
               call' = [call EXCEPT !.ok = TRUE, !.via = IF option THEN "" ELSE shown]
        PROVE  IInv'
    <3> DEFINE via == IF option THEN "" ELSE shown
    <3>1. via \in Values \cup {""} /\ via \in Ways \cup Values
        BY <1>5, <2>1 DEF Ways
    <3> HIDE DEF via
    <3>2. [call EXCEPT !.ok = TRUE] \in CallType
        BY <1>2, CallUpdated
    <3>3. [[call EXCEPT !.ok = TRUE] EXCEPT !.via = via] \in CallType
        BY <3>1, <3>2, CallUpdated
    <3>4. call' = [call EXCEPT !.ok = TRUE, !.via = via]
        BY <2>3 DEF via
    <3>5. call' \in CallType /\ call'.via = via
        BY <1>2, <3>3, <3>4 DEF CallType
    <3> QED BY <1>1, <1>2, <2>1, <2>3, <3>1, <3>5, RouteGoesOn DEF Goto, RoutePlaces
  <2>4. ("option" \in call.tools) \in BOOLEAN
      OBVIOUS
  <2> QED BY <1>15, <2>2, <2>3, <2>4 DEF BoxVerify
<1>16. CASE RouteCheck
  <2>1. form' = form /\ focus' = focus /\ Keeps
      BY <1>16 DEF RouteCheck, KeepsPage
  <2>2. CASE (Goto("route_itinerary") \/ Goto("route_settle")) /\ UNCHANGED call
      BY <1>2, <1>8, <2>1, <2>2 DEF RoutePlaces
  <2>3. CASE Done("alias") \/ Done("combobox") \/ Fails("combobox_fill_unverified")
      BY <1>2, <1>6, <1>7, <2>1, <2>3 DEF Ways, Reasons
  <2> QED BY <1>16, <2>2, <2>3 DEF RouteCheck, RouteFails
<1>17. CASE RouteSettle
  <2>1. PICK shows \in {form["dest"], Role, "alike", "other"} : form' = [form EXCEPT !["dest"] = shows]
      BY <1>17 DEF RouteSettle
  <2>2. shows \in Values
      BY <1>2, <1>3, <1>4 DEF FormType, Values
  <2>3. form' \in FormType
      BY <1>2, <1>4, <2>1, <2>2, FormUpdated
  <2>4. focus' = focus /\ Keeps
        /\ (Done("settled") \/ (Goto("route_finalize") /\ UNCHANGED call))
      BY <1>17 DEF RouteSettle
  <2> QED BY <1>2, <1>7, <1>8, <2>3, <2>4 DEF Ways, RoutePlaces
<1>18. CASE RouteFinalize
  <2>1. focus' = focus /\ Keeps
      BY <1>18 DEF RouteFinalize
  <2>2. CASE call.via \notin {"", "none"} /\ form' = [form EXCEPT !["dest"] = call.via] /\ Done("tab")
    <3>1. form' \in FormType
        BY <1>2, <1>4, <2>2, FormUpdated
    <3> QED BY <1>2, <1>7, <2>1, <2>2, <3>1 DEF Ways
  <2>3. CASE Goto("route_alias") /\ UNCHANGED <<call, form>>
      BY <1>2, <1>8, <2>1, <2>3 DEF RoutePlaces
  <2> QED BY <1>18, <2>2, <2>3 DEF RouteFinalize
<1>19. CASE RouteAlias
  <2>1. form' = form /\ focus' = focus /\ Keeps
      BY <1>19 DEF RouteAlias, KeepsPage
  <2>2. CASE Goto("box_look") /\ call' = [NoCall EXCEPT !.tries = 1]
    <3>1. call' \in CallType
        BY <2>2, NoCallTyped, CallUpdated
    <3>2. call'.via = ""
        BY <2>2 DEF NoCall
    <3> QED BY <1>1, <1>2, <2>1, <2>2, <3>1, <3>2, RouteGoesOn DEF Goto, RoutePlaces, BoxPlaces
  <2>3. CASE Goto("route_itinerary") /\ UNCHANGED call
      BY <1>2, <1>8, <2>1, <2>3 DEF RoutePlaces
  <2> QED BY <1>19, <2>2, <2>3 DEF RouteAlias
<1>20. CASE RouteItinerary
    BY <1>2, <1>6, <1>7, <1>20 DEF RouteItinerary, RouteFails, KeepsPage, Ways, Reasons
<1> QED BY <1>10, <1>11, <1>12, <1>13, <1>14, <1>15, <1>16, <1>17, <1>18, <1>19, <1>20 DEF RouteStep

-----------------------------------------------------------------------------
(* The form of Skyscanner                                                  *)

LEMMA SkyGoesOn ==
    ASSUME IInv, at \in SkyPlaces, Keeps, at' \in SkyPlaces \cup {"judge"},
           at' \in SkyPlaces => at' = "sky_route" <=> at = "sky_route",
           form' \in FormType, focus' \in Fields \cup {"none"}, call' \in CallType,
           at' = "sky_month" => call'.aim \in Dates
    PROVE  IInv'
<1>1. Inside /\ at' \in HandlerPlaces \ SearchPlaces
      /\ at' \notin DatePlaces \cup RoutePlaces \cup RecoveryPlaces \cup SearchPlaces
    BY DEF Inside, HandlerPlaces, RoutePlaces, BoxPlaces, RecoveryPlaces, DatePlaces, SkyPlaces, SearchPlaces
<1>2. PlaceFits(at') /\ ~Google
    BY <1>1, InsideFits DEF PlaceFits, SkyPlaces
<1>3. BoxInv'
    BY <1>1 DEF BoxInv, DatePlaces, RoutePlaces, BoxPlaces
<1>4. ReturnSparesDepart'
    BY <1>2 DEF ReturnSparesDepart, Keeps, Google
<1> QED BY <1>1, <1>2, <1>3, <1>4, GoesOn

LEMMA SkyStepKeeps == ASSUME IInv, SkyStep PROVE IInv'
<1>1. at \in SkyPlaces
    BY DEF SkyStep, SkyRoute, SkyOpen, SkyMonth, SkyPlaces
<1>2. /\ call \in CallType /\ form \in FormType /\ focus \in Fields \cup {"none"} /\ Inside
      /\ at = "sky_month" => call.aim \in Dates
    BY <1>1 DEF IInv, TypesInv, BoxInv, Inside, HandlerPlaces
<1>3. /\ call.tries \in Nat /\ call.off \in Int /\ call.reason \in Reasons
      /\ call.tries + 1 \in Nat /\ call.off - 1 \in Int
    BY <1>2 DEF CallType
<1>4. at = "sky_route" => Role \in Route /\ Role \in Fields
    BY <1>1, <1>2, InsideFits DEF PlaceFits, Fields
<1>5. ASSUME NEW reason \in Reasons, Fails(reason), Keeps, form' = form, focus' = focus PROVE IInv'
    BY <1>1, <1>2, <1>5, Judged, SkyGoesOn DEF SkyPlaces
<1>6. CASE SkyRoute
  <2>1. Keeps /\ Role \in Fields
      BY <1>4, <1>6 DEF SkyRoute
  <2>2. Put(Role, Role) => form' \in FormType
      BY <1>2, <2>1, LandsOnValue, FormUpdated DEF Put
  <2>3. CASE Fails(call.reason) /\ KeepsPage
      BY <1>3, <1>5, <2>1, <2>3 DEF KeepsPage
  <2>4. ASSUME NEW reason \in Reasons, NextGo(reason), form' \in FormType, focus' \in Fields \cup {"none"}
        PROVE  IInv'
    <3>1. [call EXCEPT !.tries = call.tries + 1] \in CallType
        BY <1>2, <1>3, CallUpdated
    <3>2. [[call EXCEPT !.tries = call.tries + 1] EXCEPT !.reason = reason] \in CallType
        BY <3>1, CallUpdated
    <3>3. call' = [call EXCEPT !.tries = call.tries + 1, !.reason = reason] /\ at' = "sky_route"
        BY <2>4 DEF NextGo, Goto
    <3>4. call' \in CallType
        BY <3>2, <3>3
    <3> QED BY <1>1, <1>6, <2>1, <2>4, <3>3, <3>4, SkyGoesOn DEF SkyRoute, SkyPlaces
  <2>5. CASE NextGo("input_fill_failed") /\ KeepsPage
      BY <1>2, <2>4, <2>5 DEF KeepsPage, Reasons
  <2>6. CASE Put(Role, Role) /\ focus' = Role /\ NextGo("suggestion_not_found")
      BY <2>1, <2>2, <2>4, <2>6 DEF Reasons
  <2>7. CASE form' = [form EXCEPT ![Role] = "other"] /\ focus' = "none"
             /\ NextGo("suggestion_mismatch_expected_iata")
    <3>1. "other" \in Values
        BY DEF Values
    <3>2. form' \in FormType
        BY <1>2, <2>1, <2>7, <3>1, FormUpdated
    <3> QED BY <2>4, <2>7, <3>2 DEF Reasons
  <2>8. CASE Put(Role, Role) /\ focus' = "none" /\ Done("combobox")
      BY <1>1, <1>2, <2>1, <2>2, <2>8, Judged, SkyGoesOn DEF Ways, SkyPlaces
  <2> QED BY <1>6, <2>3, <2>5, <2>6, <2>7, <2>8 DEF SkyRoute
<1>7. CASE SkyOpen
  <2>1. CASE Fails("calendar_not_open") /\ KeepsPage
      BY <1>5, <1>7, <2>1 DEF SkyOpen, KeepsPage, Reasons
  <2>2. ASSUME NEW off \in Months, NEW aim \in Dates, call' = [call EXCEPT !.off = off, !.aim = aim],
               focus' = "none", form' = form, Goto("sky_month")
        PROVE  IInv'
    <3>1. off \in Int /\ aim \in Fields
        BY PickerAssumption DEF Months, Fields
    <3>2. [call EXCEPT !.off = off] \in CallType
        BY <1>2, <3>1, CallUpdated
    <3>3. [[call EXCEPT !.off = off] EXCEPT !.aim = aim] \in CallType
        BY <3>1, <3>2, CallUpdated
    <3>4. call' \in CallType /\ call'.aim = aim
        BY <1>2, <2>2, <3>3 DEF CallType
    <3> QED BY <1>1, <1>2, <1>7, <2>2, <3>4, SkyGoesOn DEF SkyOpen, Goto, SkyPlaces
  <2> QED BY <1>7, <2>1, <2>2 DEF SkyOpen
<1>8. CASE SkyMonth
  <2>1. Keeps /\ focus' = focus /\ call.aim \in Dates
      BY <1>2, <1>8 DEF SkyMonth
  <2>2. CASE Fails("month_nav_exhausted") /\ UNCHANGED form
      BY <1>5, <2>1, <2>2 DEF Reasons
  <2>3. CASE call' = [call EXCEPT !.tries = @ + 1, !.off = @ - 1] /\ Goto("sky_month") /\ UNCHANGED form
    <3>1. [call EXCEPT !.tries = call.tries + 1] \in CallType
        BY <1>2, <1>3, CallUpdated
    <3>2. [[call EXCEPT !.tries = call.tries + 1] EXCEPT !.off = call.off - 1] \in CallType
        BY <1>3, <3>1, CallUpdated
    <3>3. call' = [call EXCEPT !.tries = call.tries + 1, !.off = call.off - 1]
        BY <2>3
    <3>4. call' \in CallType
        BY <3>2, <3>3
    <3>5. call'.aim = call.aim
        BY <1>2, <3>3 DEF CallType
    <3> QED BY <1>1, <1>2, <1>8, <2>1, <2>3, <3>4, <3>5, SkyGoesOn DEF SkyMonth, Goto, SkyPlaces
  <2>4. CASE Put(call.aim, Role) /\ Done("calendar")
    <3>1. call.aim \in Fields /\ Lands(call.aim, Role) \in Values
        BY <2>1, LandsOnValue DEF Fields
    <3>2. form' \in FormType
        BY <1>2, <2>4, <3>1, FormUpdated DEF Put
    <3> QED BY <1>1, <1>2, <2>1, <2>4, <3>2, Judged, SkyGoesOn DEF Ways, SkyPlaces
  <2> QED BY <1>8, <2>2, <2>3, <2>4 DEF SkyMonth, SkyNextMonth
<1> QED BY <1>6, <1>7, <1>8 DEF SkyStep

-----------------------------------------------------------------------------
(* The search                                                              *)

\* Where the departure comes first, it was tried before a search is reached;
\* with no failure of a date in the trace it went well.
LEMMA DepartureTried ==
    ASSUME IInv, Inside, Now.act = "search", DepartFirst
    PROVE  /\ \E e \in trace : e.role \in Dates
           /\ ~DateFailed => \E e \in trace : e.role = "depart" /\ e.status \in Good
<1>1. plan \in Seq(StepType)
  <2>1. case.raw \in Seq(StepType) /\ case.back \in BOOLEAN
      BY InsideFits, CasesAssumption DEF StepType
  <2> QED BY <2>1, InsideFits, RebindFitsTrip
<1>2. DOMAIN plan = 1 .. Len(plan) /\ Len(plan) \in Nat /\ step \in DOMAIN plan
    BY <1>1, LenProperties, InsideFits
<1>3. PICK j \in 1 .. step - 1 : Departs(plan[j])
    BY <1>2 DEF DepartFirst, Now
<1>4. j <= Len(plan)
    BY <1>2, <1>3
<1>5. PICK e \in trace : e.role = "depart" /\ e.status \in Good \cup GoogleFailures
    BY <1>3, <1>4 DEF IInv, Tried
<1> QED BY <1>5 DEF DateFailed, Dates

\* The form may be pressed while it is what was asked for.
LEMMA SearchGoesOn ==
    ASSUME IInv, Inside, Now.act = "search", ~DateFailed,
           Readable /\ HasRequiredRoles(case.raw, Google) /\ DepartFirst => AsAsked(form),
           UNCHANGED <<case, plan, form, focus, step, trace>>, pressed' \in {form, pressed},
           call' \in CallType, raised' \in Exits, at' \in SearchPlaces \cup {"judge", "ended"},
           at' \in SearchPlaces => Google
    PROVE  IInv'
<1>0. /\ case' = case /\ plan' = plan /\ step' = step /\ trace' = trace /\ form' = form /\ focus' = focus
    OBVIOUS
<1>1. at' \in Places /\ at' # "start" /\ at' \notin RoutePlaces \cup RecoveryPlaces \cup DatePlaces \cup SkyPlaces
      /\ at' # "head"
    BY DEF Places, HandlerPlaces, RoutePlaces, BoxPlaces, RecoveryPlaces, DatePlaces, SkyPlaces, SearchPlaces
<1>2. TypesInv'
  <2>1. pressed' \in FormType
      BY DEF IInv, TypesInv
  <2> QED BY <1>0, <1>1, <2>1 DEF IInv, TypesInv, FormType, EntryType
<1>3. PlanInv'
    BY <1>0, <1>1, InsideFits DEF PlanInv, PlaceFits, Now, Role, Google, DateFailed, SkyPlaces
<1>4. BoxInv'
    BY <1>1 DEF BoxInv, RoutePlaces, BoxPlaces, DatePlaces, SkyPlaces
<1>5. Tried'
    BY <1>0 DEF IInv, Tried
<1>6. FormRight'
    BY <1>0 DEF FormRight, Readable, Google, DepartFirst, AsAsked, Passes, Trip
<1>7. SearchedAsAsked'
    BY <1>0 DEF IInv, SearchedAsAsked, Searched, Readable, Google, DepartFirst, AsAsked, Passes, Trip
<1>8. DepartBeforeSearch'
    BY <1>0, DepartureTried DEF IInv, DepartBeforeSearch, Searched, DepartFirst, Good
<1>9. ReturnSparesDepart'
    BY <1>0 DEF ReturnSparesDepart, Now
<1> QED BY <1>2, <1>3, <1>4, <1>5, <1>6, <1>7, <1>8, <1>9 DEF IInv

LEMMA SearchStepKeeps == ASSUME IInv, SearchStep PROVE IInv'
<1>1. at \in SearchPlaces
    BY DEF SearchStep, SearchLook, SearchReload, SearchPress, SearchEnter, SearchPlaces
<1>2. Inside /\ call \in CallType /\ raised \in Exits
    BY <1>1 DEF IInv, TypesInv, Inside, HandlerPlaces
<1>3. Google /\ Now.act = "search" /\ ~DateFailed
    BY <1>1, <1>2, InsideFits DEF PlaceFits
<1>4. Readable /\ HasRequiredRoles(case.raw, Google) /\ DepartFirst => AsAsked(form)
    BY <1>1 DEF IInv, FormRight
<1>5. UNCHANGED <<case, plan, form, focus, step, trace>> /\ pressed' \in {form, pressed}
    BY DEF SearchStep, SearchLook, SearchReload, SearchPress, SearchEnter, Searching, Presses
<1>6. ASSUME call' \in CallType, at' \in SearchPlaces \cup {"judge"}, raised' = raised PROVE IInv'
    BY <1>2, <1>3, <1>4, <1>5, <1>6, SearchGoesOn
<1>7. ASSUME NEW why \in Exits, Raises(why), call' = call PROVE IInv'
    BY <1>2, <1>3, <1>4, <1>5, <1>7, SearchGoesOn DEF Raises
<1>8. ASSUME NEW via \in Ways, Done(via), raised' = raised PROVE IInv'
    BY <1>2, <1>6, <1>8, Judged
<1>9. ASSUME NEW place \in SearchPlaces, Goto(place), call' = call, raised' = raised PROVE IInv'
    BY <1>2, <1>6, <1>9 DEF Goto
<1>10. CASE SearchLook
    BY <1>7, <1>8, <1>9, <1>10 DEF SearchLook, SearchPlaces, Exits, Ways
<1>11. CASE SearchReload
    BY <1>7, <1>8, <1>9, <1>11 DEF SearchReload, SearchPlaces, Exits, Ways
<1>12. CASE SearchPress
  <2>1. CASE Goto("search_enter") /\ call' = [call EXCEPT !.tools = {"pressed"}] /\ UNCHANGED raised
    <3>1. call' \in CallType
        BY <1>2, <2>1 DEF CallType
    <3> QED BY <1>6, <2>1, <3>1 DEF Goto, SearchPlaces
  <2> QED BY <1>7, <1>8, <1>9, <1>12, <2>1 DEF SearchPress, SearchPlaces, Exits, Ways
<1>13. CASE SearchEnter
  <2>1. CASE Fails("search_not_committed") /\ UNCHANGED raised
      BY <1>2, <1>6, <2>1, Judged DEF Reasons
  <2> QED BY <1>8, <1>13, <2>1 DEF SearchEnter, Ways
<1> QED BY <1>10, <1>11, <1>12, <1>13 DEF SearchStep

\* Before the search the form is looked at: what it shows is let pass only when
\* it passes for what was asked for, or all of it but a destination that is missing.
LEMMA FormChecked ==
    ASSUME IInv, Inside, Readable, HasRequiredRoles(case.raw, Google),
           NEW read \in FormReadings, NEW onPage,
           ~Blocks(read, CHOOSE c \in Confidences(read) : TRUE, onPage, case.closed)
    PROVE  AsAsked(form)
<1> DEFINE confidence == CHOOSE c \in Confidences(read) : TRUE
           three == {"origin", "dest", "depart"}
           filled == {f \in three : read[f] # "none"}
           missing == {f \in Asked : read[f] = "none"}
<1>1. \A f \in Fields : read[f] = form[f]
    BY DEF FormReadings, Reading, Readable
<1>2. three \subseteq Asked /\ (case.back => "return" \in Asked)
  <2>1. case.raw \in Seq(StepType) /\ case.back \in BOOLEAN /\ plan = Rebind(case.raw, case.back)
      BY InsideFits, CasesAssumption DEF StepType
  <2>2. three \subseteq FillRoles(case.raw)
      BY DEF HasRequiredRoles
  <2>3. three \subseteq (IF case.back THEN Fields ELSE Fields \ {"return"})
      BY DEF Fields, Route, Dates
  <2> QED BY <2>1, <2>2, <2>3, RebindFitsTrip DEF Asked
<1>3. Confidences(read) \in {{"low"}, {"medium"}, {"medium", "high"}}
    BY DEF Confidences
<1>4. confidence \in Confidences(read)
    BY <1>3
<1>5. Cardinality(three) = 3
  <2>1. IsFiniteSet({"origin"}) /\ Cardinality({"origin"}) = 1
      BY FS_Singleton
  <2>2. IsFiniteSet({"origin", "dest"}) /\ Cardinality({"origin", "dest"}) = 2
    <3>1. {"origin", "dest"} = {"origin"} \cup {"dest"}
        OBVIOUS
    <3> QED BY <2>1, <3>1, FS_AddElement
  <2>3. three = {"origin", "dest"} \cup {"depart"} /\ "depart" \notin {"origin", "dest"}
      OBVIOUS
  <2>4. Cardinality({"origin", "dest"} \cup {"depart"}) = 2 + 1
      BY <2>2, <2>3, FS_AddElement
  <2> QED BY <2>3, <2>4
<1>6. CASE missing = {}
  <2>1. filled = three
      BY <1>2, <1>6
  <2>2. Confidences(read) = {"medium", "high"}
      BY <1>5, <2>1, <1>2, <1>6 DEF Confidences
  <2>3. confidence # "low"
      BY <1>4, <2>2
  <2>4. \A f \in Asked : ~Contradicts(read, f)
      BY <2>3 DEF Blocks
  <2>5. \A f \in Asked : Passes(read[f], f)
      BY <1>6, <2>4 DEF Contradicts
  <2> QED BY <1>1, <1>2, <2>5 DEF AsAsked, Trip, Fields, Route, Dates
<1>7. CASE missing # {}
  <2>1. missing = {"dest"} /\ confidence = "low" /\ \A f \in Asked \cap Dates : ~Contradicts(read, f)
      BY <1>7 DEF Blocks
  <2>2. read["dest"] = "none"
      BY <2>1
  <2>3. \A f \in Asked \cap Dates : Passes(read[f], f)
      BY <2>1 DEF Contradicts, Dates
  <2> QED BY <1>1, <1>2, <2>2, <2>3 DEF AsAsked, Trip, Fields, Route, Dates
<1> QED BY <1>6, <1>7

-----------------------------------------------------------------------------
(* The loop over the steps                                                 *)

\* A handler begins its work on the step in hand.
LEMMA Begins ==
    ASSUME IInv, at = "head", step <= Len(plan), Keeps, KeepsPage, call' \in CallType, call'.via = "",
           at' \in {"box_look", "date_open", "sky_route", "sky_open"}, PlaceFits(at')
    PROVE  IInv'
<1>1. Inside /\ at' \in HandlerPlaces \ SearchPlaces
    BY DEF Inside, HandlerPlaces, RoutePlaces, BoxPlaces, RecoveryPlaces, DatePlaces, SkyPlaces, SearchPlaces
<1>2. form' \in FormType /\ focus' \in Fields \cup {"none"}
    BY DEF KeepsPage, IInv, TypesInv
<1>3. BoxInv' /\ ReturnSparesDepart'
    BY DEF BoxInv, ReturnSparesDepart
<1> QED BY <1>1, <1>2, <1>3, GoesOn

\* A step that is judged, whatever it was, but for a return on Google Flights.
LEMMA GoesToVerdict ==
    ASSUME IInv, Inside, Keeps, at' \in {"judge", "failure"}, form' \in FormType,
           focus' \in Fields \cup {"none"}, call' \in CallType,
           at' = "judge" => ~Google \/ Now.act # "fill" \/ Role # "return" \/ ~call'.ok
    PROVE  IInv'
<1>1. at' \in HandlerPlaces \ SearchPlaces /\ PlaceFits(at') /\ BoxInv'
    BY DEF HandlerPlaces, PlaceFits, BoxInv, RoutePlaces, BoxPlaces, RecoveryPlaces, DatePlaces, SkyPlaces,
       SearchPlaces
<1>2. ReturnSparesDepart'
    BY DEF ReturnSparesDepart, Keeps, Google, Now, Role
<1> QED BY <1>1, <1>2, GoesOn

LEMMA LoopStepKeeps == ASSUME IInv, LoopStep PROVE IInv'
<1>1. /\ case \in Cases /\ call \in CallType /\ call.reason \in Reasons /\ form \in FormType
      /\ focus \in Fields \cup {"none"} /\ raised \in Exits /\ trace \subseteq EntryType
      /\ pressed \in FormType /\ step \in Nat \ {0}
    BY DEF IInv, TypesInv, CallType
<1>2. (at = "head" /\ step <= Len(plan)) \/ at \in {"judge", "failure"} => Inside
    BY DEF Inside, HandlerPlaces
<1>3. ASSUME Inside, NEW status \in Statuses, Noted(status), KeepsPage,
             Departs(Now) => status \in Good \cup GoogleFailures
      PROVE  IInv'
    BY <1>1, <1>3, StepIsOver DEF Noted
<1>4. ASSUME Inside, NEW why \in Exits, Raises(why),
             UNCHANGED <<case, plan, form, focus, step, call, trace, pressed>>
      PROVE  IInv'
    BY <1>1, <1>4, Leaves DEF Raises
<1>5. CASE PlanStarts
  <2>1. /\ at = "start" /\ plan' = Rebind(case.raw, case.back) /\ case' = case /\ form' = form
        /\ focus' = focus /\ step' = step /\ call' = call /\ trace' = trace /\ pressed' = pressed
        /\ (at' = "head" /\ Carriable(plan') /\ raised' = raised) \/ (at' = "ended" /\ raised' = "rejected")
      BY <1>5 DEF PlanStarts, Raises
  <2>2. step = 1 /\ pressed = NotPressed
      BY <2>1 DEF IInv, PlanInv
  <2>3. TypesInv'
      BY <2>1 DEF IInv, TypesInv, Places, Exits, FormType, EntryType
  <2>4. PlanInv' /\ BoxInv' /\ FormRight' /\ ReturnSparesDepart'
      BY <2>1 DEF PlanInv, PlaceFits, BoxInv, FormRight, ReturnSparesDepart, HandlerPlaces, RoutePlaces,
         BoxPlaces, RecoveryPlaces, DatePlaces, SkyPlaces, SearchPlaces
  <2>5. Tried'
      BY <2>1, <2>2 DEF Tried
  <2>6. SearchedAsAsked' /\ DepartBeforeSearch'
      BY <2>1, <2>2 DEF SearchedAsAsked, DepartBeforeSearch, Searched
  <2> QED BY <2>3, <2>4, <2>5, <2>6 DEF IInv
<1>6. CASE PlanOver
  <2>1. /\ at = "head" /\ at' = "ended" /\ case' = case /\ plan' = plan /\ form' = form /\ focus' = focus
        /\ step' = step /\ call' = call /\ trace' = trace /\ raised' = raised /\ pressed' = pressed
      BY <1>6 DEF PlanOver
  <2>2. TypesInv'
      BY <2>1 DEF IInv, TypesInv, Places, FormType, EntryType
  <2>3. PlanInv' /\ BoxInv' /\ FormRight' /\ ReturnSparesDepart'
      BY <2>1 DEF IInv, PlanInv, PlaceFits, BoxInv, FormRight, ReturnSparesDepart, HandlerPlaces, RoutePlaces,
         BoxPlaces, RecoveryPlaces, DatePlaces, SkyPlaces, SearchPlaces
  <2>4. Tried'
      BY <2>1 DEF IInv, Tried
  <2>5. SearchedAsAsked' /\ DepartBeforeSearch'
      BY <2>1 DEF IInv, SearchedAsAsked, DepartBeforeSearch, Searched, Readable, Google, DepartFirst, AsAsked, Passes, Trip
  <2> QED BY <2>2, <2>3, <2>4, <2>5 DEF IInv
<1>7. CASE ClickUnseen
    BY <1>2, <1>3, <1>7 DEF ClickUnseen, Departs, Statuses, GoogleFailures
<1>8. CASE SkipAfterDate
    BY <1>2, <1>3, <1>8 DEF SkipAfterDate, SkipsStep, Departs, Statuses
<1>9. CASE LateBefore \/ LateAfter
    BY <1>2, <1>4, <1>9 DEF LateBefore, LateAfter, Acting, TimeIsUp, Exits
<1>10. CASE SkyElsewhere
    BY <1>2, <1>3, <1>10 DEF SkyElsewhere, Acting, Statuses, GoogleFailures, Good
<1>11. CASE SkyBound
  <2>1. Inside /\ KeepsPage /\ ~Google
      BY <1>2, <1>11 DEF SkyBound, Acting
  <2>2. CASE Noted("url_date_bound")
      BY <1>3, <2>1, <2>2 DEF Statuses, Good
  <2>3. CASE Done("url_route_bind") /\ Keeps
      BY <1>1, <2>1, <2>3, Judged, GoesToVerdict DEF KeepsPage, Ways
  <2> QED BY <1>11, <2>2, <2>3 DEF SkyBound
<1>12. CASE FillRoute
  <2>1. at = "head" /\ step <= Len(plan) /\ Keeps /\ KeepsPage /\ Now.act = "fill" /\ Role \in Route
      BY <1>12 DEF FillRoute, Acting
  <2>2. CASE Google /\ RouteStarts
    <3>1. at' = "box_look" /\ call' = NoCall
        BY <2>2 DEF RouteStarts, Goto
    <3>2. PlaceFits(at')
        BY <2>1, <2>2, <3>1 DEF PlaceFits, RoutePlaces, BoxPlaces, DatePlaces, SkyPlaces, SearchPlaces
    <3> QED BY <2>1, <3>1, <3>2, NoCallTyped, Begins DEF NoCall
  <2>3. CASE ~Google /\ SkyRouteStarts
    <3>1. at' = "sky_route" /\ call' = [NoCall EXCEPT !.reason = "input_fill_failed"]
        BY <2>3 DEF SkyRouteStarts, Goto
    <3>2. PlaceFits(at')
        BY <2>1, <2>3, <3>1 DEF PlaceFits, RoutePlaces, BoxPlaces, RecoveryPlaces, DatePlaces, SkyPlaces,
           SearchPlaces
    <3>3. call' \in CallType
        BY <3>1, NoCallTyped, CallUpdated DEF Reasons
    <3>4. call'.via = ""
        BY <3>1 DEF NoCall
    <3> QED BY <2>1, <3>1, <3>2, <3>3, <3>4, Begins
  <2> QED BY <1>12, <2>2, <2>3 DEF FillRoute
<1>13. CASE SkipReturn
    BY <1>2, <1>3, <1>13 DEF SkipReturn, SkipsReturn, Acting, Departs, Role, Statuses
<1>14. CASE RouteCoreGate
    BY <1>2, <1>3, <1>14 DEF RouteCoreGate, Acting, Statuses, GoogleFailures
<1>15. CASE FillDate
  <2>1. at = "head" /\ step <= Len(plan) /\ Keeps /\ KeepsPage /\ Now.act = "fill" /\ Role \in Dates
      BY <1>15 DEF FillDate, Acting
  <2>2. CASE Google /\ DateStarts
    <3>1. at' = "date_open" /\ call' = [NoCall EXCEPT !.left = Budget]
        BY <2>2 DEF DateStarts, Goto
    <3>2. PlaceFits(at')
        BY <2>1, <2>2, <3>1 DEF PlaceFits, RoutePlaces, BoxPlaces, RecoveryPlaces, DatePlaces, SkyPlaces,
           SearchPlaces
    <3>3. call' \in CallType
        BY <3>1, NoCallTyped, CallUpdated, PickerAssumption
    <3>4. call'.via = ""
        BY <3>1 DEF NoCall
    <3> QED BY <2>1, <3>1, <3>2, <3>3, <3>4, Begins
  <2>3. CASE ~Google /\ SkyDateStarts
    <3>1. at' = "sky_open" /\ call' = NoCall
        BY <2>3 DEF SkyDateStarts, Goto
    <3>2. PlaceFits(at')
        BY <2>1, <2>3, <3>1 DEF PlaceFits, RoutePlaces, BoxPlaces, RecoveryPlaces, DatePlaces, SkyPlaces,
           SearchPlaces
    <3> QED BY <2>1, <3>1, <3>2, NoCallTyped, Begins DEF NoCall
  <2> QED BY <1>15, <2>2, <2>3 DEF FillDate
<1>16. CASE SearchChecked
  <2>1. Inside /\ KeepsPage /\ Now.act = "search" /\ ~DateFailed /\ Google
      BY <1>2, <1>16 DEF SearchChecked, Acting, SkipsStep, Checks
  <2>2. PICK read \in FormReadings, onPage \in BOOLEAN :
           IF Blocks(read, CHOOSE c \in Confidences(read) : TRUE, onPage, case.closed)
           THEN Noted("route_fill_mismatch")
           ELSE Goto("search_look") /\ UNCHANGED call /\ Keeps
      BY <1>16 DEF SearchChecked
  <2>3. CASE Noted("route_fill_mismatch")
      BY <1>3, <2>1, <2>3 DEF Departs, Statuses
  <2>4. CASE /\ ~Blocks(read, CHOOSE c \in Confidences(read) : TRUE, onPage, case.closed)
             /\ Goto("search_look") /\ UNCHANGED call /\ Keeps
    <3>1. Readable /\ HasRequiredRoles(case.raw, Google) => AsAsked(form)
        BY <2>1, <2>4, FormChecked
    <3> QED BY <1>1, <2>1, <2>4, <3>1, SearchGoesOn DEF Goto, Keeps, KeepsPage, SearchPlaces
  <2> QED BY <2>2, <2>3, <2>4
<1>17. CASE SearchUnchecked
  <2>1. Inside /\ KeepsPage /\ Now.act = "search" /\ ~DateFailed
        /\ UNCHANGED <<case, plan, form, focus, step, trace>>
      BY <1>2, <1>17 DEF SearchUnchecked, Acting, SkipsStep, KeepsPage
  <2>2. ~(Readable /\ HasRequiredRoles(case.raw, Google) /\ DepartFirst)
    <3> SUFFICES ASSUME Readable, HasRequiredRoles(case.raw, Google), DepartFirst PROVE Checks
        BY <1>17 DEF SearchUnchecked
    <3>1. {"origin", "dest", "depart"} \subseteq Asked
      <4>1. case.raw \in Seq(StepType) /\ case.back \in BOOLEAN /\ plan = Rebind(case.raw, case.back)
          BY <2>1, InsideFits, CasesAssumption DEF StepType
      <4>2. {"origin", "dest", "depart"} \subseteq FillRoles(case.raw)
          BY DEF HasRequiredRoles
      <4>3. {"origin", "dest", "depart"} \subseteq (IF case.back THEN Fields ELSE Fields \ {"return"})
          BY DEF Fields, Route, Dates
      <4> QED BY <4>1, <4>2, <4>3, RebindFitsTrip DEF Asked
    <3>2. \E e \in trace : e.role \in Dates
        BY <2>1, DepartureTried
    <3> QED BY <3>1, <3>2 DEF Checks, Readable
  <2>3. CASE Presses /\ Done("click") /\ UNCHANGED raised
      BY <1>1, <2>1, <2>2, <2>3, Judged, SearchGoesOn DEF Presses, Ways, SearchPlaces
  <2>4. CASE (Presses \/ UNCHANGED pressed) /\ Fails("not_clicked") /\ UNCHANGED raised
      BY <1>1, <2>1, <2>2, <2>4, Judged, SearchGoesOn DEF Presses, Reasons, SearchPlaces
  <2>5. CASE (Presses \/ UNCHANGED pressed) /\ Raises("timeout") /\ UNCHANGED call
      BY <1>1, <2>1, <2>2, <2>5, SearchGoesOn DEF Presses, Raises, Exits, SearchPlaces
  <2> QED BY <1>17, <2>3, <2>4, <2>5 DEF SearchUnchecked
<1>18. CASE ClickOrWait
  <2>1. Inside /\ KeepsPage /\ Now.act # "fill"
      BY <1>2, <1>18 DEF ClickOrWait, Acting
  <2>2. CASE (Done("generic") \/ Fails("step_error")) /\ Keeps
      BY <1>1, <2>1, <2>2, Judged, GoesToVerdict DEF KeepsPage, Ways, Reasons
  <2>3. CASE Raises("timeout") /\ UNCHANGED <<case, plan, step, call, trace, pressed>>
      BY <1>4, <2>1, <2>3 DEF KeepsPage, Exits
  <2> QED BY <1>18, <2>2, <2>3 DEF ClickOrWait
<1>26. CASE FillLoose
  <2>1. Inside /\ Now.act = "fill" /\ Role = "loose" /\ Role # "return"
      BY <1>2, <1>26 DEF FillLoose, Acting
  <2>2. form' \in FormType /\ focus' \in Fields \cup {"none"}
    <3>1. CASE KeepsPage
        BY <1>1, <3>1 DEF KeepsPage
    <3>2. ASSUME NEW f \in Fields, NEW shown \in Values, form' = [form EXCEPT ![f] = shown], focus' = f
          PROVE  form' \in FormType /\ focus' \in Fields \cup {"none"}
        BY <1>1, <3>2, FormUpdated
    <3>3. "none" \in Values /\ \A f \in Fields : \A value : Lands(f, value) \in Values
        BY LandsOnValue DEF Values
    <3> QED BY <1>26, <3>1, <3>2, <3>3 DEF FillLoose, Scatters
  <2>3. CASE (Done("generic") \/ Fails("step_error")) /\ Keeps
      BY <1>1, <2>1, <2>2, <2>3, Judged, GoesToVerdict DEF Ways, Reasons
  <2>4. CASE Raises("timeout") /\ UNCHANGED <<case, plan, step, call, trace, pressed>>
      BY <1>1, <2>1, <2>2, <2>4, Leaves DEF Raises, Exits
  <2> QED BY <1>26, <2>3, <2>4 DEF FillLoose
<1>19. CASE Succeeded
    BY <1>2, <1>19, StepIsOver DEF Succeeded, Statuses, Reasons, Good
<1>20. CASE Failed
  <2>1. /\ case' = case /\ plan' = plan /\ step' = step /\ form' = form /\ focus' = focus /\ call' = call
        /\ raised' = raised /\ pressed' = pressed /\ at' = IF Recovers THEN "recover" ELSE "failure"
        /\ trace' = trace \/ trace' = trace \cup {Entry(call.reason, call.reason)}
      BY <1>20 DEF Failed, Goto, KeepsPage
  <2>2. Inside
      BY <1>2, <1>20 DEF Failed
  <2>3. Entry(call.reason, call.reason) \in EntryType
      BY <1>1, <2>2, InsideFits DEF Entry, EntryType, Statuses
  <2>4. TypesInv'
      BY <1>1, <2>1, <2>3 DEF IInv, TypesInv, Places, HandlerPlaces, RecoveryPlaces, FormType
  <2>5. PlanInv'
      BY <2>1, <2>2, InsideFits DEF PlanInv, PlaceFits, Recovers, Now, Role, Google, HandlerPlaces, RoutePlaces,
         BoxPlaces, RecoveryPlaces, DatePlaces, SkyPlaces, SearchPlaces
  <2>6. BoxInv' /\ FormRight' /\ ReturnSparesDepart'
      BY <2>1 DEF BoxInv, FormRight, ReturnSparesDepart, RoutePlaces, BoxPlaces, SearchPlaces
  <2>7. trace \subseteq trace'
      BY <2>1
  <2>8. Tried' /\ SearchedAsAsked' /\ DepartBeforeSearch'
      BY <2>1, <2>7 DEF IInv, Tried, SearchedAsAsked, DepartBeforeSearch, Searched, Readable, Google, DepartFirst,
         AsAsked, Passes, Trip
  <2> QED BY <2>4, <2>5, <2>6, <2>8 DEF IInv
<1>21. CASE Refill
  <2>1. Inside /\ Role \in Route /\ Role \in Fields /\ Role \in Values
    <3>1. Inside /\ at \in RecoveryPlaces
        BY <1>21 DEF Refill, Inside, HandlerPlaces, RecoveryPlaces
    <3> QED BY <3>1, InsideFits DEF PlaceFits, Fields, Values
  <2>2. ASSUME NEW shows \in {Role} \cup Settled, form' = [form EXCEPT ![Role] = shows], focus' = Role,
               Done("refill"), Keeps
        PROVE  IInv'
    <3>1. shows \in Values
        BY <2>1 DEF Settled, Values
    <3>2. form' \in FormType
        BY <1>1, <2>1, <2>2, <3>1, FormUpdated
    <3> QED BY <1>1, <2>1, <2>2, <3>2, Judged, GoesToVerdict DEF Ways, Route
  <2>3. CASE Goto("keywords") /\ UNCHANGED call /\ KeepsPage /\ Keeps
    <3>1. at' = "keywords" /\ at' \in HandlerPlaces \ SearchPlaces
        BY <2>3 DEF Goto, HandlerPlaces, RecoveryPlaces, SearchPlaces
    <3>2. PlaceFits(at')
        BY <1>21, <2>1, <3>1, InsideFits DEF Refill, PlaceFits, RecoveryPlaces, RoutePlaces, BoxPlaces, DatePlaces,
           SkyPlaces, SearchPlaces
    <3>3. BoxInv' /\ ReturnSparesDepart'
        BY <3>1 DEF BoxInv, ReturnSparesDepart, RoutePlaces, BoxPlaces
    <3> QED BY <1>1, <2>1, <2>3, <3>1, <3>2, <3>3, GoesOn DEF KeepsPage
  <2>4. CASE (Raises("step_time") \/ Raises("timeout"))
             /\ KeepsPage /\ UNCHANGED <<case, plan, step, call, trace, pressed>>
      BY <1>4, <2>1, <2>4 DEF KeepsPage, Exits
  <2> QED BY <1>21, <2>2, <2>3, <2>4 DEF Refill
<1>22. CASE KeywordFill
  <2>1. Inside
      BY <1>22 DEF KeywordFill, Inside, HandlerPlaces, RecoveryPlaces
  <2>2. form' \in FormType
    <3>1. ASSUME NEW f \in Route, Put(f, Role) PROVE form' \in FormType
      <4>1. f \in Fields /\ Lands(f, Role) \in Values
          BY LandsOnValue DEF Fields
      <4> QED BY <1>1, <3>1, <4>1, FormUpdated DEF Put
    <3> QED BY <1>1, <1>22, <3>1 DEF KeywordFill
  <2> QED BY <1>1, <1>22, <2>1, <2>2, GoesToVerdict DEF KeywordFill, Goto
<1>23. CASE LetPass
    BY <1>2, <1>3, <1>23 DEF LetPass, Failing, Statuses, GoogleFailures
<1>24. CASE AlreadyBound
    BY <1>2, <1>3, <1>24 DEF AlreadyBound, Failing, MayBeBound, DateLetPass, Departs, Role, Statuses
<1>25. CASE HardFail
  <2>1. Inside /\ trace' = trace \cup {Entry("hard_fail", call.reason)}
        /\ UNCHANGED <<case, plan, form, focus, step, call, pressed>> /\ at' = "ended" /\ raised' = "step_failed"
      BY <1>2, <1>25 DEF HardFail, Failing, Raises, KeepsPage
  <2>2. Entry("hard_fail", call.reason) \in EntryType
      BY <1>1, <2>1, InsideFits DEF Entry, EntryType, Statuses
  <2> QED BY <1>1, <2>1, <2>2, Leaves DEF Exits
<1> QED BY <1>5, <1>6, <1>7, <1>8, <1>9, <1>10, <1>11, <1>12, <1>13, <1>14, <1>15, <1>16, <1>17, <1>18, <1>19,
        <1>20, <1>21, <1>22, <1>23, <1>24, <1>25, <1>26 DEF LoopStep

-----------------------------------------------------------------------------
(* The theorems                                                            *)

LEMMA StepHolds == IInv /\ [Next]_formVars => IInv'
<1> SUFFICES ASSUME IInv, [Next]_formVars PROVE IInv'
    OBVIOUS
<1>1. CASE PlanStep
    BY <1>1, LoopStepKeeps, DateStepKeeps, RouteStepKeeps, SearchStepKeeps, SkyStepKeeps DEF PlanStep
<1>2. CASE UNCHANGED formVars
  <2>1. /\ case' = case /\ plan' = plan /\ form' = form /\ focus' = focus /\ at' = at /\ step' = step
        /\ call' = call /\ trace' = trace /\ raised' = raised /\ pressed' = pressed
      BY <1>2 DEF formVars
  <2>2. TypesInv' /\ BoxInv' /\ Tried'
      BY <2>1 DEF IInv, TypesInv, BoxInv, Tried, FormType, EntryType
  <2>3. PlanInv'
      BY <2>1 DEF IInv, PlanInv, PlaceFits, Google, Now, Role, DateFailed
  <2>4. FormRight' /\ SearchedAsAsked'
      BY <2>1 DEF IInv, FormRight, SearchedAsAsked, Searched, Readable, Google, DepartFirst, AsAsked, Passes, Trip
  <2>5. DepartBeforeSearch' /\ ReturnSparesDepart'
      BY <2>1 DEF IInv, DepartBeforeSearch, ReturnSparesDepart, Searched, DepartFirst, Google, Now, Role, Asked
  <2> QED BY <2>2, <2>3, <2>4, <2>5 DEF IInv
<1> QED BY <1>1, <1>2 DEF Next, Ended

LEMMA Inductive == Spec => []IInv
BY InitHolds, StepHolds, PTL DEF Spec

\* Every variable of the execution keeps its type: no field of the form, no
\* handler and no entry of the trace ever holds anything the code does not know.
THEOREM PlanTypeCorrect == Spec => []TypesInv
<1>1. IInv => TypesInv
    BY DEF IInv
<1> QED BY <1>1, Inductive, PTL

\* Whatever plan was stored and whatever page answers: a search that comes
\* behind the departure is started for dates and airports that pass for those
\* that were asked for.
THEOREM SearchesForTheTrip == Spec => []SearchedAsAsked
<1>1. IInv => SearchedAsAsked
    BY DEF IInv
<1> QED BY <1>1, Inductive, PTL

\* On either site no search is started after a departure that could not be set.
THEOREM SearchesAfterDeparture == Spec => []DepartBeforeSearch
<1>1. IInv => DepartBeforeSearch
    BY DEF IInv
<1> QED BY <1>1, Inductive, PTL

\* However often the calendar is opened, turned and pressed: a return date that
\* it is said to have set did not go to the departure.
THEOREM ReturnLeavesDeparture == Spec => []ReturnSparesDepart
<1>1. IInv => ReturnSparesDepart
    BY DEF IInv
<1> QED BY <1>1, Inductive, PTL
=============================================================================

--------------------------- MODULE LlmClientProofs ---------------------------
(***************************************************************************)
(* Proofs about LlmClient, for every set of models, every budget and limit *)
(* and every length of the open period.                                    *)
(*                                                                         *)
(* The circuit is kept in a table that is pruned on every call, whichever  *)
(* model it is for; the history says when a model last failed.  Guarded    *)
(* ties the two together: as long as the open period lasts, the entry      *)
(* stands, and no pruning takes it for expired or for too far ahead.       *)
(*                                                                         *)
(* That no endpoint is starved rests on Shared: half of the time left is   *)
(* kept for the endpoint that is missing, request by request.              *)
(***************************************************************************)
EXTENDS LlmClient, TLAPS

Fields == {"model", "attempts", "idx", "start", "read", "deadline", "failFast",
           "timedOut", "asked", "slowConnect"}

\* The state of the call, by its fields.
CallOK ==
    ~Idle =>
        /\ DOMAIN call = Fields
        /\ call.model \in Models /\ call.start \in Nat
        /\ call.attempts \in Attempts
        /\ call.idx \in 1..(Len(call.attempts) + 1)
        /\ call.read \in Nat /\ call.deadline \in Nat
        /\ call.timedOut \subseteq call.asked /\ call.asked \subseteq Urls

TablesOK ==
    /\ now \in Nat
    /\ openUntil \in [Models -> Nat]
    /\ timedOutAt \in [Models -> Nat \cup {Never}]

Guarded ==
    \A m \in Models :
        timedOutAt[m] # Never =>
            /\ timedOutAt[m] <= now
            /\ now < timedOutAt[m] + OpenFor => openUntil[m] = timedOutAt[m] + OpenFor

IInv == TablesOK /\ CallOK /\ Guarded /\ QuarantineKept

-----------------------------------------------------------------------------
LEMMA LimitsAreNat ==
    /\ OpenFor \in Nat /\ ConnectTimeout \in Nat /\ TotalTimeout \in Nat
    /\ CallCap \in Nat /\ MaxTime \in Nat /\ Budgets \subseteq Nat
BY LlmClientAssumption

\* A table that is pruned still holds every entry of an open period.
LEMMA PrunedIs ==
    ASSUME TablesOK, Guarded
    PROVE  /\ Pruned \in [Models -> Nat]
           /\ \A m \in Models :
                timedOutAt[m] # Never /\ now < timedOutAt[m] + OpenFor =>
                    Pruned[m] = timedOutAt[m] + OpenFor
<1>1. \A m \in Models : openUntil[m] \in Nat /\ (timedOutAt[m] # Never => timedOutAt[m] \in Nat)
  BY DEF TablesOK
<1>2. Pruned \in [Models -> Nat]
  BY <1>1 DEF Pruned
<1>3. ASSUME NEW m \in Models, timedOutAt[m] # Never, now < timedOutAt[m] + OpenFor
      PROVE  Pruned[m] = timedOutAt[m] + OpenFor
  <2>1. /\ openUntil[m] = timedOutAt[m] + OpenFor /\ timedOutAt[m] <= now
        /\ timedOutAt[m] \in Nat /\ now \in Nat
    BY <1>1, <1>3 DEF Guarded, TablesOK
  <2>2. openUntil[m] > now /\ openUntil[m] - now <= 4 * AtLeastOne(OpenFor)
    BY <2>1, <1>3, LimitsAreNat DEF AtLeastOne
  <2>. QED  BY <2>1, <2>2 DEF Pruned
<1>. QED  BY <1>2, <1>3

\* Every wait of a request is some time.
LEMMA WaitsAreNat ==
    ASSUME TablesOK, CallOK, ~Idle
    PROVE  ConnectLimit \in Nat /\ ReadLimit \in Nat
<1>1. Left \in Int /\ call.read \in Nat
  BY DEF Left, TablesOK, CallOK
<1>2. ConnectLimit \in Nat
  BY <1>1, LimitsAreNat DEF ConnectLimit, AtLeastOne, Smaller
<1>3. Slots \in {1, 2}
  BY DEF Slots, AtLeastOne
<1>4. Left \div Slots \in Int
  BY <1>1, <1>3
<1>5. AtLeastOne(Left \div Slots) \in Nat
  BY <1>4 DEF AtLeastOne
<1>6. Smaller(call.read, Left) \in Int
  BY <1>1 DEF Smaller
<1>7. ReadLimit \in Nat
  BY <1>5, <1>6 DEF ReadLimit, AtLeastOne, Smaller
<1>. QED  BY <1>2, <1>7

\* Time passes, and nothing of the circuit changes.
LEMMA TimePasses ==
    ASSUME TablesOK, Guarded, now' \in Nat, now' >= now, UNCHANGED <<openUntil, timedOutAt>>
    PROVE  TablesOK' /\ Guarded'
<1>1. \A m \in Models : timedOutAt[m] # Never => timedOutAt[m] \in Nat
  BY DEF TablesOK
<1>. QED  BY <1>1, LimitsAreNat DEF TablesOK, Guarded

\* A call goes on for the same model.
LEMMA CallGoesOn ==
    ASSUME CallOK, QuarantineKept, UNCHANGED timedOutAt,
           call' = NoCall \/ (~Idle /\ DOMAIN call' = Fields
                    /\ \A f \in {"model", "attempts", "start", "read", "deadline"} : call'[f] = call[f]
                    /\ call'.idx \in 1..(Len(call.attempts) + 1)
                    /\ call'.timedOut \subseteq call'.asked /\ call'.asked \subseteq Urls)
    PROVE  CallOK' /\ QuarantineKept'
BY DEF CallOK, QuarantineKept, Idle

LEMMA InitHolds == Init => IInv
BY DEF Init, IInv, TablesOK, CallOK, Guarded, QuarantineKept, Idle

LEMMA RejectStep == ASSUME IInv, RejectCall PROVE IInv'
<1>1. /\ Pruned \in [Models -> Nat] /\ openUntil' = Pruned
      /\ UNCHANGED <<now, call, timedOutAt>>
  BY PrunedIs DEF RejectCall, IInv
<1>2. TablesOK' /\ Guarded'
  BY <1>1, PrunedIs DEF IInv, TablesOK, Guarded
<1>. QED  BY <1>1, <1>2 DEF IInv, CallOK, QuarantineKept, Idle

LEMMA BeginStep == ASSUME IInv, BeginCall PROVE IInv'
<1>1. /\ Pruned \in [Models -> Nat] /\ openUntil' = Pruned
      /\ UNCHANGED <<now, timedOutAt>>
  BY PrunedIs DEF BeginCall, IInv
<1>2. TablesOK' /\ Guarded'
  BY <1>1, PrunedIs DEF IInv, TablesOK, Guarded
<1>3. PICK m \in Models, timeout \in Budgets, a \in Attempts, ff \in BOOLEAN :
        /\ now >= Pruned[m]
        /\ call' = [model |-> m, attempts |-> a, idx |-> 1, start |-> now,
                    read |-> timeout, deadline |-> now + TotalBudget(timeout),
                    failFast |-> ff, timedOut |-> {}, asked |-> {},
                    slowConnect |-> FALSE]
  BY DEF BeginCall
<1>4. TotalBudget(timeout) \in Nat /\ timeout \in Nat /\ now \in Nat
  BY LimitsAreNat DEF TotalBudget, AtLeastOne, Smaller, IInv, TablesOK
<1>5. Len(a) \in Nat
  BY DEF Attempts
<1>6. CallOK'
  BY <1>3, <1>4, <1>5 DEF CallOK, Fields
<1>7. QuarantineKept'
  <2>1. call'.model = m /\ call'.start = now
    BY <1>3
  <2>2. timedOutAt[m] # Never => now >= timedOutAt[m] + OpenFor
    BY <1>3, <1>4, PrunedIs, LimitsAreNat DEF IInv, TablesOK
  <2>. QED  BY <1>1, <2>1, <2>2 DEF QuarantineKept
<1>. QED  BY <1>2, <1>6, <1>7 DEF IInv

LEMMA AttemptsAre ==
    ASSUME NEW a \in Attempts
    PROVE  Len(a) \in Nat /\ \A i \in 1..Len(a) : a[i] \in Urls
BY DEF Attempts, Urls

LEMMA SkipStep == ASSUME IInv, SkipAttempt PROVE IInv'
<1>1. /\ ~Idle /\ call.idx + 1 \in 1..(Len(call.attempts) + 1)
      /\ call' = [call EXCEPT !.idx = @ + 1] /\ UNCHANGED <<now, openUntil, timedOutAt>>
  BY AttemptsAre DEF SkipAttempt, InCall, IInv, CallOK
<1>2. CallOK' /\ QuarantineKept'
  BY <1>1, CallGoesOn DEF IInv, CallOK, Fields
<1>. QED  BY <1>1, <1>2, TimePasses DEF IInv, TablesOK

\* A request is over: it was for one of the endpoints, and took its time.
LEMMA AskedIs ==
    ASSUME IInv, Asking
    PROVE  /\ ~Idle /\ call.attempts[call.idx] \in Urls
           /\ call.idx + 1 \in 1..(Len(call.attempts) + 1)
           /\ Len(call.attempts) + 1 \in 1..(Len(call.attempts) + 1)
           /\ ConnectLimit \in Nat /\ ReadLimit \in Nat
BY WaitsAreNat, AttemptsAre DEF Asking, InCall, IInv, CallOK

LEMMA AnswerStep ==
    ASSUME IInv, Answer, UNCHANGED <<openUntil, timedOutAt>>, call' = NoCall \/ call' = Asked
    PROVE  IInv'
<1>1. now' \in Nat /\ now' >= now
  BY AskedIs DEF Answer, IInv, TablesOK
<1>2. CASE call' = NoCall
  BY <1>1, <1>2, TimePasses, CallGoesOn DEF IInv
<1>3. CASE call' = Asked
  <2>1. CallOK' /\ QuarantineKept'
    BY <1>3, AskedIs, CallGoesOn DEF Answer, Asked, IInv, CallOK, Fields
  <2>. QED  BY <1>1, <2>1, TimePasses DEF IInv
<1>. QED  BY <1>2, <1>3

LEMMA TimeOutStep == ASSUME IInv, RequestTimesOut PROVE IInv'
<1>1. Asking /\ UNCHANGED <<openUntil, timedOutAt>>
  BY DEF RequestTimesOut
<1>2. now' \in Nat /\ now' >= now
  BY <1>1, AskedIs DEF RequestTimesOut, IInv, TablesOK
<1>3. PICK slow \in BOOLEAN :
        call' = [Asked EXCEPT
                   !.timedOut = @ \cup {call.attempts[call.idx]},
                   !.idx = IF call.failFast THEN Len(call.attempts) + 1 ELSE @,
                   !.slowConnect = @ \/ slow]
  BY DEF RequestTimesOut
<1>4. CallOK' /\ QuarantineKept'
  BY <1>1, <1>3, AskedIs, CallGoesOn DEF Asked, IInv, CallOK, Fields
<1>. QED  BY <1>1, <1>2, <1>4, TimePasses DEF IInv

LEMMA OutOfTimeStep == ASSUME IInv, OutOfTime PROVE IInv'
<1>1. /\ ~Idle /\ Len(call.attempts) + 1 \in 1..(Len(call.attempts) + 1)
      /\ call' = [call EXCEPT !.idx = Len(call.attempts) + 1]
      /\ UNCHANGED <<now, openUntil, timedOutAt>>
  BY AttemptsAre DEF OutOfTime, InCall, IInv, CallOK
<1>2. CallOK' /\ QuarantineKept'
  BY <1>1, CallGoesOn DEF IInv, CallOK, Fields
<1>. QED  BY <1>1, <1>2, TimePasses DEF IInv, TablesOK

\* The failure is noted and the circuit opened in one step.
LEMMA FailStep == ASSUME IInv, FailCall PROVE IInv'
<1>1. /\ ~Idle /\ call.model \in Models /\ now \in Nat /\ UNCHANGED now /\ call' = NoCall
  BY DEF FailCall, IInv, CallOK, TablesOK
<1>2. CASE call.timedOut = {}
  BY <1>1, <1>2, TimePasses, CallGoesOn DEF FailCall, OpensCircuit, IInv
<1>3. CASE call.timedOut # {}
  <2>1. /\ timedOutAt' = [timedOutAt EXCEPT ![call.model] = now]
        /\ openUntil' = IF OpenFor > 0 THEN [openUntil EXCEPT ![call.model] = now + OpenFor]
                                       ELSE openUntil
    BY <1>3 DEF FailCall, OpensCircuit
  <2>2. TablesOK'
    BY <1>1, <2>1, LimitsAreNat DEF IInv, TablesOK
  <2>3. Guarded'
    BY <1>1, <2>1, LimitsAreNat DEF IInv, TablesOK, Guarded
  <2>. QED  BY <1>1, <2>2, <2>3 DEF IInv, CallOK, QuarantineKept, Idle
<1>. QED  BY <1>2, <1>3

LEMMA ResetStep == ASSUME IInv, ResetCircuit PROVE IInv'
<1>1. PICK ms \in {{m} : m \in Models} \cup {Models} :
        /\ openUntil' = [m \in Models |-> IF m \in ms THEN 0 ELSE openUntil[m]]
        /\ timedOutAt' = [m \in Models |-> IF m \in ms THEN Never ELSE timedOutAt[m]]
  BY DEF ResetCircuit
<1>2. UNCHANGED <<now, call>> /\ Idle
  BY DEF ResetCircuit
<1>3. TablesOK'
  BY <1>1, <1>2 DEF IInv, TablesOK
<1>4. Guarded'
  BY <1>1, <1>2 DEF IInv, TablesOK, Guarded
<1>. QED  BY <1>2, <1>3, <1>4 DEF IInv, CallOK, QuarantineKept, Idle

LEMMA PassStep == ASSUME IInv, Pass PROVE IInv'
<1>1. now' \in Nat /\ now' >= now /\ UNCHANGED <<openUntil, call, timedOutAt>>
  BY LimitsAreNat DEF Pass, IInv, TablesOK
<1>. QED  BY <1>1, TimePasses DEF IInv, CallOK, QuarantineKept, Idle

LEMMA StepHolds == ASSUME IInv, [Next]_vars PROVE IInv'
<1>1. CASE RejectCall \/ BeginCall \/ SkipAttempt
  BY <1>1, RejectStep, BeginStep, SkipStep
<1>2. CASE AnswerText \/ AnswerUnusable \/ AnswerStalled
  BY <1>2, AnswerStep DEF AnswerText, AnswerUnusable, AnswerStalled
<1>3. CASE RequestTimesOut \/ OutOfTime \/ FailCall \/ ResetCircuit \/ Pass
  BY <1>3, TimeOutStep, OutOfTimeStep, FailStep, ResetStep, PassStep
<1>4. CASE UNCHANGED vars
  BY <1>4 DEF vars, IInv, TablesOK, CallOK, Guarded, QuarantineKept, Idle
<1>. QED  BY <1>1, <1>2, <1>3, <1>4 DEF Next

THEOREM ClientInvariant == Spec => []IInv
BY InitHolds, StepHolds, PTL DEF Spec

(* The clock, the circuits and the call in progress keep their types.        *)
THEOREM ClientTypeCorrect == Spec => []TypeOK
<1>1. IInv => TypeOK
  BY DEF IInv, TablesOK, CallOK, TypeOK
<1>. QED  BY <1>1, ClientInvariant, PTL

(* A model that failed on a timeout is left alone for the whole open period, *)
(* however many other models are called and however the table is pruned.     *)
THEOREM ModelsAreLeftAlone == Spec => []QuarantineKept
<1>1. IInv => QuarantineKept
  BY DEF IInv
<1>. QED  BY <1>1, ClientInvariant, PTL

-----------------------------------------------------------------------------
(* The shares of the endpoints                                             *)

\* A call that lost no time on a connection and does not stop at a timeout.
Patient == ~call.failFast /\ ~call.slowConnect
Missing == \E j \in DOMAIN call.attempts : call.attempts[j] \notin call.asked

\* The requests behind are those that were asked, and as long as an endpoint is
\* missing there is a unit of time for each request that may come before it.
Shared ==
    ~Idle /\ Patient =>
        /\ \A u : u \in call.asked <=> \E i \in 1 .. call.idx - 1 : u = call.attempts[i]
        /\ Missing => Left >= 4 - call.idx

RoomForAll == \A timeout \in Budgets : TotalBudget(timeout) >= 3

\* Only the requests to one endpoint can come before the other is asked, with and
\* without the format.
LEMMA FirstEndpoint ==
    ASSUME NEW a \in Attempts, NEW n \in 1 .. Len(a),
           \E j \in DOMAIN a : \A i \in 1 .. n : a[i] # a[j]
    PROVE  /\ n <= 2 /\ \A i \in 1 .. n : a[i] = a[n]
           /\ \A u \in Urls : \E i \in n .. Len(a) : a[i] = u
<1>1. CASE a = <<"generate", "generate">> \/ a = <<"generate">>
  BY <1>1
<1>2. CASE a = <<"chat", "generate">> \/ a = <<"generate", "chat">>
  BY <1>2 DEF Urls
<1>3. ASSUME NEW u, NEW v, a = <<u, u, v, v>>, {u, v} = Urls
      PROVE  /\ n <= 2 /\ \A i \in 1 .. n : a[i] = a[n]
             /\ \A w \in Urls : \E i \in n .. Len(a) : a[i] = w
  <2>1. Len(a) = 4 /\ a[1] = u /\ a[2] = u /\ a[3] = v /\ a[4] = v /\ DOMAIN a = 1 .. 4
    BY <1>3
  <2>2. n \in {1, 2}
    BY <2>1
  <2>3. a[n] = u /\ 3 \in n .. Len(a) /\ n \in n .. Len(a)
    BY <2>1, <2>2
  <2>. QED  BY <1>3, <2>1, <2>2, <2>3
<1>4. CASE a = <<"chat", "chat", "generate", "generate">>
  BY <1>3, <1>4 DEF Urls
<1>5. CASE a = <<"generate", "generate", "chat", "chat">>
  BY <1>3, <1>5 DEF Urls
<1>. QED  BY <1>1, <1>2, <1>4, <1>5 DEF Attempts

\* A request takes half of the time left while both endpoints are ahead.
LEMMA HalfIsLeft ==
    ASSUME TablesOK, CallOK, ~Idle, Ahead = Urls, Left >= 2
    PROVE  2 * ReadLimit <= Left
<1>1. Left \in Int /\ call.read \in Nat
  BY DEF Left, TablesOK, CallOK
<1>2. Slots = 2
  BY DEF Slots, AtLeastOne
<1>. DEFINE half == Left \div 2
<1>3. half \in Int /\ 2 * half <= Left /\ half >= 1
  BY <1>1
<1>. HIDE DEF half
<1>4. ReadLimit = AtLeastOne(Smaller(Smaller(call.read, Left), AtLeastOne(half)))
  BY <1>2 DEF ReadLimit, half
<1>. QED  BY <1>1, <1>3, <1>4 DEF AtLeastOne, Smaller

\* A request is made: when an endpoint is missing even then, it was one of the
\* first endpoint, and left the other its time.
LEMMA RequestShares ==
    ASSUME IInv, Shared, Asking, Patient,
           now' \in {now, now + ReadLimit}, now' \in Nat,
           DOMAIN call' = Fields,
           call'.attempts = call.attempts, call'.deadline = call.deadline,
           call'.idx = call.idx + 1,
           call'.asked = call.asked \cup {call.attempts[call.idx]}
    PROVE  Shared'
<1>. DEFINE a == call.attempts
            n == call.idx
<1>1. /\ ~Idle /\ a \in Attempts /\ n \in 1 .. Len(a) /\ n \in Nat /\ Len(a) \in Nat
      /\ a[n] \notin call.timedOut /\ call.timedOut \subseteq call.asked
      /\ Left \in Int /\ now \in Nat /\ call.deadline \in Nat
  <2>1. Len(a) \in Nat
    BY DEF IInv, CallOK, Asking, InCall, Attempts
  <2>. QED  BY <2>1 DEF IInv, CallOK, Asking, InCall, SkipsUrl, TablesOK, Left
<1>2. /\ \A u : u \in call.asked <=> \E i \in 1 .. n - 1 : u = a[i]
      /\ Missing => Left >= 4 - n
  BY <1>1 DEF Shared
<1>3. \A u : u \in call'.asked <=> \E i \in 1 .. n : u = a[i]
  BY <1>1, <1>2
<1>4. ASSUME Missing' PROVE Left' >= 3 - n
  <2>1. \E j \in DOMAIN a : \A i \in 1 .. n : a[i] # a[j]
    BY <1>3, <1>4 DEF Missing
  <2>2. /\ n <= 2 /\ \A i \in 1 .. n : a[i] = a[n]
        /\ \A u \in Urls : \E i \in n .. Len(a) : a[i] = u
    BY <1>1, <2>1, FirstEndpoint
  <2>3. Left >= 4 - n
    <3>1. Missing
      BY <1>4 DEF Missing
    <3>. QED  BY <1>2, <3>1
  <2>4. call.timedOut = {}
    <3>1. \A u \in call.asked : u = a[n]
      BY <1>1, <1>2, <2>2
    <3>. QED  BY <1>1, <3>1
  <2>5. Ahead = Urls
    <3>1. \A i \in n .. Len(a) : a[i] \in Urls
      BY <1>1 DEF Attempts, Urls
    <3>. QED  BY <2>2, <2>4, <3>1 DEF Ahead
  <2>6. 2 * ReadLimit <= Left /\ ReadLimit \in Nat
    BY <1>1, <2>2, <2>3, <2>5, HalfIsLeft, WaitsAreNat DEF IInv
  <2>7. Left' >= Left - ReadLimit
    BY <1>1, <2>6 DEF Left
  <2>. QED  BY <1>1, <2>2, <2>3, <2>6, <2>7 DEF Left
<1>5. Left' >= 3 - n => Left' >= 4 - (n + 1)
  BY <1>1 DEF Left
<1>. QED  BY <1>1, <1>3, <1>4, <1>5 DEF Shared

LEMMA BeginShares == ASSUME RoomForAll, IInv, BeginCall PROVE Shared'
<1>1. PICK m \in Models, timeout \in Budgets, a \in Attempts, ff \in BOOLEAN :
        call' = [model |-> m, attempts |-> a, idx |-> 1, start |-> now,
                 read |-> timeout, deadline |-> now + TotalBudget(timeout),
                 failFast |-> ff, timedOut |-> {}, asked |-> {}, slowConnect |-> FALSE]
  BY DEF BeginCall
<1>2. now' = now /\ now \in Nat /\ TotalBudget(timeout) >= 3 /\ TotalBudget(timeout) \in Int
  BY LimitsAreNat DEF RoomForAll, BeginCall, IInv, TablesOK, TotalBudget, AtLeastOne, Smaller
<1>3. call'.idx = 1 /\ call'.asked = {} /\ Left' >= 3
  BY <1>1, <1>2 DEF Left
<1>. QED  BY <1>3 DEF Shared

LEMMA SharesKept == ASSUME RoomForAll, IInv, IInv', Shared, [Next]_vars PROVE Shared'
<1>1. CASE BeginCall
  BY <1>1, BeginShares
<1>2. CASE SkipAttempt
  <2>1. /\ ~Idle /\ call.idx \in Nat \ {0} /\ call.attempts[call.idx] \in call.asked
        /\ call' = [call EXCEPT !.idx = @ + 1] /\ DOMAIN call = Fields /\ now' = now
        /\ Left \in Int
    BY <1>2 DEF SkipAttempt, InCall, SkipsUrl, IInv, CallOK, TablesOK, Left
  <2>2. /\ call'.idx = call.idx + 1 /\ call'.asked = call.asked /\ Left' = Left
        /\ call'.attempts = call.attempts
        /\ call'.failFast = call.failFast /\ call'.slowConnect = call.slowConnect
    BY <2>1 DEF Fields, Left
  <2>. QED  BY <2>1, <2>2 DEF Shared, Missing, Patient
<1>3. CASE AnswerUnusable \/ AnswerStalled
  <2>1. /\ Asking /\ call' = Asked /\ now' \in {now, now + ReadLimit} /\ ~Idle
        /\ DOMAIN call = Fields
    <3>1. Asking /\ call' = Asked /\ \E d \in {0, ReadLimit} : now' = now + d
      BY <1>3 DEF AnswerUnusable, AnswerStalled, Answer
    <3>2. ~Idle /\ DOMAIN call = Fields /\ now \in Nat
      BY <3>1 DEF Asking, InCall, IInv, CallOK, TablesOK
    <3>. QED  BY <3>1, <3>2
  <2>2. /\ DOMAIN call' = Fields /\ call'.attempts = call.attempts
        /\ call'.deadline = call.deadline /\ call'.idx = call.idx + 1
        /\ call'.asked = call.asked \cup {call.attempts[call.idx]}
        /\ call'.failFast = call.failFast /\ call'.slowConnect = call.slowConnect
    BY <2>1 DEF Asked, Fields
  <2>3. now' \in Nat
    BY DEF IInv, TablesOK
  <2>4. CASE Patient
    BY <2>1, <2>2, <2>3, <2>4, RequestShares
  <2>. QED  BY <2>2, <2>4 DEF Shared, Patient
<1>4. CASE RequestTimesOut
  <2>. SUFFICES ASSUME Patient' PROVE Shared'
    BY DEF Shared
  <2>1. PICK slow \in BOOLEAN :
          /\ now' \in IF slow THEN {now + ConnectLimit, now + ConnectLimit + ReadLimit}
                     ELSE {now + ReadLimit}
          /\ call' = [Asked EXCEPT
                         !.timedOut = @ \cup {call.attempts[call.idx]},
                         !.idx = IF call.failFast THEN Len(call.attempts) + 1 ELSE @,
                         !.slowConnect = @ \/ slow]
    BY <1>4 DEF RequestTimesOut
  <2>2. Asking /\ ~Idle /\ DOMAIN call = Fields
    BY <1>4 DEF RequestTimesOut, Asking, InCall, IInv, CallOK
  <2>3. /\ DOMAIN call' = Fields /\ call'.attempts = call.attempts
        /\ call'.deadline = call.deadline
        /\ call'.idx = IF call.failFast THEN Len(call.attempts) + 1 ELSE call.idx + 1
        /\ call'.asked = call.asked \cup {call.attempts[call.idx]}
        /\ call'.failFast = call.failFast
    BY <2>1, <2>2 DEF Asked, Fields
  <2>4. call'.slowConnect = (call.slowConnect \/ slow)
    BY <2>1, <2>2 DEF Asked, Fields
  <2>5. ~slow /\ Patient
    BY <2>3, <2>4 DEF Patient
  <2>6. call'.idx = call.idx + 1 /\ now' \in {now, now + ReadLimit} /\ now' \in Nat
    BY <2>1, <2>3, <2>5 DEF Patient, IInv, TablesOK
  <2>. QED  BY <2>2, <2>3, <2>5, <2>6, RequestShares
<1>5. CASE OutOfTime
  <2>. SUFFICES ASSUME Patient' PROVE Shared'
    BY DEF Shared
  <2>1. /\ ~Idle /\ call.idx \in 1 .. Len(call.attempts) /\ Left <= 0 /\ Left \in Int
        /\ call' = [call EXCEPT !.idx = Len(call.attempts) + 1] /\ DOMAIN call = Fields
        /\ now' = now /\ call.attempts \in Attempts /\ Len(call.attempts) \in Nat
    <3>1. Len(call.attempts) \in Nat
      BY <1>5 DEF OutOfTime, InCall, IInv, CallOK, Attempts
    <3>. QED  BY <1>5, <3>1 DEF OutOfTime, InCall, IInv, CallOK, TablesOK, Left
  <2>2. /\ call'.idx = Len(call.attempts) + 1 /\ call'.asked = call.asked
        /\ call'.attempts = call.attempts
        /\ call'.failFast = call.failFast /\ call'.slowConnect = call.slowConnect
    BY <2>1 DEF Fields
  <2>3. /\ \A u : u \in call.asked <=> \E i \in 1 .. call.idx - 1 : u = call.attempts[i]
        /\ Missing => Left >= 4 - call.idx
    BY <2>1, <2>2 DEF Shared, Patient
  <2>4. ~Missing
    <3>. SUFFICES ASSUME Missing PROVE FALSE
      OBVIOUS
    <3>1. call.idx - 1 \in 1 .. Len(call.attempts) /\ call.idx - 1 >= 3
      BY <2>1, <2>3
    <3>2. \E j \in DOMAIN call.attempts :
             \A i \in 1 .. call.idx - 1 : call.attempts[i] # call.attempts[j]
      BY <2>3 DEF Missing
    <3>. QED  BY <2>1, <3>1, <3>2, FirstEndpoint
  <2>5. DOMAIN call.attempts = 1 .. Len(call.attempts)
    BY <2>1 DEF Attempts
  <2>6. \A u : u \in call'.asked <=> \E i \in 1 .. Len(call.attempts) : u = call.attempts[i]
    BY <2>1, <2>2, <2>3, <2>4, <2>5 DEF Missing
  <2>. QED  BY <2>1, <2>2, <2>4, <2>6 DEF Shared, Missing
<1>6. CASE AnswerText \/ FailCall
  BY <1>6 DEF AnswerText, FailCall, Shared, Idle
<1>7. CASE RejectCall \/ ResetCircuit \/ Pass \/ UNCHANGED vars
  BY <1>7 DEF RejectCall, ResetCircuit, Pass, vars, Shared, Idle, Missing, Patient, Left
<1>. QED  BY <1>1, <1>2, <1>3, <1>4, <1>5, <1>6, <1>7 DEF Next

(* No read timeout starves the other endpoint, as long as a call is given a  *)
(* unit of time for each request to the first and one more.                  *)
THEOREM NoEndpointStarved ==
    ASSUME RoomForAll
    PROVE  Spec => EveryEndpointAsked
<1>1. Init => Shared
  BY DEF Init, Shared, Idle
<1>2. IInv /\ IInv' /\ Shared /\ [Next]_vars => Shared'
  BY RoomForAll, SharesKept
<1>3. IInv /\ Shared => [FailCall /\ ~call.failFast /\ ~call.slowConnect =>
         \A i \in DOMAIN call.attempts : call.attempts[i] \in call.asked]_vars
  <2>. SUFFICES ASSUME IInv, Shared, FailCall, ~call.failFast, ~call.slowConnect,
                       NEW j \in DOMAIN call.attempts
                PROVE  call.attempts[j] \in call.asked
    OBVIOUS
  <2>1. call.attempts \in Attempts /\ call.idx \in 1..(Len(call.attempts) + 1)
        /\ call.idx > Len(call.attempts) /\ ~Idle
    BY DEF FailCall, IInv, CallOK
  <2>2. DOMAIN call.attempts = 1 .. Len(call.attempts) /\ Len(call.attempts) \in Nat
    BY <2>1 DEF Attempts
  <2>3. j \in 1 .. call.idx - 1
    BY <2>1, <2>2
  <2>. QED  BY <2>1, <2>3 DEF Shared, Patient
<1>. QED  BY <1>1, <1>2, <1>3, ClientInvariant, PTL DEF Spec, EveryEndpointAsked
=============================================================================

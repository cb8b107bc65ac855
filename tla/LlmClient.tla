----------------------------- MODULE LlmClient -----------------------------
(***************************************************************************)
(* llm/llm_client.py: call_llm sends one generation request to the local   *)
(* Ollama server, falling back over its endpoints within one time budget,  *)
(* and opens a circuit for the model when a request timed out.             *)
(*                                                                         *)
(* One thread makes the calls.  The server is external: how it answers a   *)
(* request, and how much of the request's own limits the answer takes, is  *)
(* its choice.  Every call names a model, so the circuit without a model   *)
(* (_CIRCUIT_OPEN_UNTIL) stays closed; the resets for a clock that runs    *)
(* backwards have no counterpart in a run.                                 *)
(***************************************************************************)
EXTENDS Integers, Sequences

CONSTANTS
    Models,
    ConnectTimeout,  \* ollama_connect_timeout_sec
    TotalTimeout,    \* ollama_total_timeout_sec
    Budgets,         \* the timeout_sec the callers pass
    CallCap,         \* llm_call_wall_clock_cap_sec, 0 when off
    OpenFor,         \* ollama_circuit_open_sec
    StallAbort,      \* llm_stall_abort_enabled
    MaxTime          \* bound: no call starts later

ASSUME LlmClientAssumption ==
    /\ {ConnectTimeout, TotalTimeout, CallCap, OpenFor, MaxTime} \subseteq Nat
    /\ Budgets \subseteq Nat \ {0}
    /\ StallAbort \in BOOLEAN

VARIABLES
    now,        \* time.monotonic()
    openUntil,  \* _CIRCUIT_OPEN_UNTIL_BY_MODEL
    call,       \* the call in progress, or NoCall
    timedOutAt  \* history: end of the model's last call failed by a timeout

vars == <<now, openUntil, call, timedOutAt>>

-----------------------------------------------------------------------------
Urls == {"chat", "generate"}

(* attempts: the endpoints of a policy in order, each with and without the   *)
(* JSON format unless JSON is strict.                                        *)
Attempts == {<<"generate", "generate">>,
             <<"generate">>,
             <<"chat", "chat", "generate", "generate">>,
             <<"chat", "generate">>,
             <<"generate", "generate", "chat", "chat">>,
             <<"generate", "chat">>}

Smaller(a, b) == IF a < b THEN a ELSE b
AtLeastOne(n) == IF n > 1 THEN n ELSE 1

TotalBudget(timeout) ==
    LET asked == Smaller(TotalTimeout, timeout)
    IN  AtLeastOne(IF CallCap > 0 THEN Smaller(asked, CallCap) ELSE asked)

Never == -1

NoCall == [attempts |-> <<>>]
Idle == call = NoCall

-----------------------------------------------------------------------------
(* Entries that have expired, or that lie further ahead than four open       *)
(* periods, are dropped before the circuit is asked.                         *)
PrunedToHalf ==
    [m \in Models |->
        IF openUntil[m] > now /\ 2 * (openUntil[m] - now) <= OpenFor
          THEN openUntil[m] ELSE 0]

Pruned ==
    [m \in Models |->
        IF openUntil[m] > now /\ openUntil[m] - now <= 4 * AtLeastOne(OpenFor)
          THEN openUntil[m] ELSE 0]

RejectCall ==
    /\ Idle /\ now < MaxTime
    /\ \E m \in Models : now < Pruned[m]
    /\ openUntil' = Pruned
    /\ UNCHANGED <<now, call, timedOutAt>>

BeginCall ==
    /\ Idle /\ now < MaxTime
    /\ \E m \in Models, timeout \in Budgets, a \in Attempts, ff \in BOOLEAN :
        /\ now >= Pruned[m]
        /\ call' = [model |-> m, attempts |-> a, idx |-> 1, start |-> now,
                    read |-> timeout, deadline |-> now + TotalBudget(timeout),
                    failFast |-> ff, timedOut |-> {}, asked |-> {},
                    slowConnect |-> FALSE]
    /\ openUntil' = Pruned
    /\ UNCHANGED <<now, timedOutAt>>

Left == call.deadline - now
Ahead == {call.attempts[i] : i \in call.idx..Len(call.attempts)} \ call.timedOut
Slots == AtLeastOne(IF Ahead = Urls THEN 2 ELSE 1)

ConnectLimit == AtLeastOne(Smaller(ConnectTimeout, Left))

ReadLimitUnshared == AtLeastOne(Smaller(call.read, Left))

(* A fair share of the time left for every endpoint still to be asked.       *)
ReadLimit ==
    AtLeastOne(Smaller(Smaller(call.read, Left), AtLeastOne(Left \div Slots)))

InCall == ~Idle /\ call.idx <= Len(call.attempts)

SkipsUrl == call.attempts[call.idx] \in call.timedOut

SkipAttemptWithoutAdvance ==
    /\ InCall /\ SkipsUrl
    /\ UNCHANGED vars

SkipAttempt ==
    /\ InCall /\ SkipsUrl
    /\ call' = [call EXCEPT !.idx = @ + 1]
    /\ UNCHANGED <<now, openUntil, timedOutAt>>

Asking ==
    /\ InCall /\ ~SkipsUrl
    /\ Left > 0

Asked == [call EXCEPT !.idx = @ + 1, !.asked = @ \cup {call.attempts[call.idx]}]

(* The server answers at the latest when the read times out.                 *)
Answer ==
    /\ Asking
    /\ \E d \in {0, ReadLimit} : now' = now + d

AnswerText ==
    /\ Answer
    /\ call' = NoCall
    /\ UNCHANGED <<openUntil, timedOutAt>>

(* An empty text, a body without text, an HTTP error, a broken connection.   *)
AnswerUnusable ==
    /\ Answer
    /\ call' = Asked
    /\ UNCHANGED <<openUntil, timedOutAt>>

(* The error raised for a stalled answer is caught by the handler of the     *)
(* same request, which goes on with the next one.                            *)
AnswerStalled ==
    /\ StallAbort
    /\ Answer
    /\ call' = Asked
    /\ UNCHANGED <<openUntil, timedOutAt>>

(* The read alone may use up its limit, the connection may, or both.         *)
RequestTimesOut ==
    /\ Asking
    /\ \E slow \in BOOLEAN :
        /\ now' \in IF slow THEN {now + ConnectLimit, now + ConnectLimit + ReadLimit}
                   ELSE {now + ReadLimit}
        /\ call' = [Asked EXCEPT
                       !.timedOut = @ \cup {call.attempts[call.idx]},
                       !.idx = IF call.failFast THEN Len(call.attempts) + 1 ELSE @,
                       !.slowConnect = @ \/ slow]
    /\ UNCHANGED <<openUntil, timedOutAt>>

OutOfTime ==
    /\ InCall /\ ~SkipsUrl
    /\ Left <= 0
    /\ call' = [call EXCEPT !.idx = Len(call.attempts) + 1]
    /\ UNCHANGED <<now, openUntil, timedOutAt>>

OpensCircuit == call.timedOut # {} /\ OpenFor > 0

FailCall ==
    /\ ~Idle /\ call.idx > Len(call.attempts)
    /\ openUntil' = IF OpensCircuit THEN [openUntil EXCEPT ![call.model] = now + OpenFor]
                    ELSE openUntil
    /\ timedOutAt' = IF call.timedOut # {} THEN [timedOutAt EXCEPT ![call.model] = now]
                     ELSE timedOutAt
    /\ call' = NoCall
    /\ UNCHANGED now

(* reset_llm_circuit_state, for one model before a cropped image is tried,   *)
(* or for all before a salvage attempt.                                      *)
ResetCircuit ==
    /\ Idle
    /\ \E ms \in {{m} : m \in Models} \cup {Models} :
        /\ openUntil' = [m \in Models |-> IF m \in ms THEN 0 ELSE openUntil[m]]
        /\ timedOutAt' = [m \in Models |-> IF m \in ms THEN Never ELSE timedOutAt[m]]
    /\ UNCHANGED <<now, call>>

(* The program does other things between two calls.                          *)
Pass ==
    /\ Idle /\ now < MaxTime
    /\ \E d \in {1, OpenFor} : now' = now + d
    /\ UNCHANGED <<openUntil, call, timedOutAt>>

Init ==
    /\ now = 0
    /\ openUntil = [m \in Models |-> 0]
    /\ call = NoCall
    /\ timedOutAt = [m \in Models |-> Never]

Next ==
    \/ RejectCall \/ BeginCall
    \/ SkipAttempt \/ AnswerText \/ AnswerUnusable \/ AnswerStalled
    \/ RequestTimesOut \/ OutOfTime \/ FailCall
    \/ ResetCircuit \/ Pass

Spec == Init /\ [][Next]_vars

(* A call in progress goes on: every request has its own time limit.         *)
FairSpec ==
    Spec /\ WF_vars(~Idle /\ Next)

-----------------------------------------------------------------------------
(* Properties *)

TypeOK ==
    /\ now \in Nat
    /\ openUntil \in [Models -> Nat]
    /\ timedOutAt \in [Models -> Nat \cup {Never}]
    /\ ~Idle => /\ call.model \in Models
                /\ call.attempts \in Attempts
                /\ call.idx \in 1..(Len(call.attempts) + 1)
                /\ call.timedOut \subseteq call.asked
                /\ call.asked \subseteq Urls

(* A model whose call failed on a timeout is left alone for the whole open   *)
(* period, unless its circuit is reset: no call of any other model, and no   *)
(* pruning in between, lets a request through.                               *)
QuarantineKept ==
    ~Idle /\ timedOutAt[call.model] # Never =>
        call.start >= timedOutAt[call.model] + OpenFor

(* A call that fails without failing fast, and lost no time on a connection, *)
(* has asked every endpoint of its policy: the read timeout of one does not  *)
(* starve the next.                                                          *)
EveryEndpointAsked ==
    [][FailCall /\ ~call.failFast /\ ~call.slowConnect =>
         \A i \in DOMAIN call.attempts : call.attempts[i] \in call.asked]_vars

(* A call ends, with a text or an error.                                     *)
CallsEnd == ~Idle ~> Idle
=============================================================================

--------------------------- MODULE ScenarioContract ---------------------------
(***************************************************************************)
(* What the caller of a scenario may rely on: it gets one answer, a page or *)
(* an exception; before that, at most MaxAttempts attempts of MaxTurns turns *)
(* are made, one after the other.                                           *)
(***************************************************************************)
EXTENDS Naturals

CONSTANTS MaxAttempts, MaxTurns

VARIABLES
    answer,      \* none, a page, a ready page, or an exception
    round        \* the attempt and the turn at hand

Init == answer = "none" /\ round = <<1, 1>>

\* The rounds go forward, and a new attempt begins with its first turn.
Work ==
    /\ answer = "none"
    /\ \/ /\ round[2] < MaxTurns
          /\ round' = <<round[1], round[2] + 1>>
       \/ /\ round[1] < MaxAttempts
          /\ round' = <<round[1] + 1, 1>>
    /\ UNCHANGED answer

Answer ==
    /\ answer = "none"
    /\ answer' \in {"page", "ready page", "exception"}
    /\ UNCHANGED round

Next == Work \/ Answer

vars == <<answer, round>>

Safety == Init /\ [][Next]_vars

\* The caller is answered in the end.
Spec == Safety /\ WF_vars(Next)
=============================================================================

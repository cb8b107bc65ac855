----------------------------- MODULE PriceWatch -----------------------------
(***************************************************************************)
(* One route on one service, watched over many runs: the rows that         *)
(* save_run (storage/runs.py) adds, the previous price that the publishing *)
(* part of a service run (main.py) reads before that, and the alert that   *)
(* evaluate_alert and dispatch_alert (core/alerts.py) make of the two.     *)
(*                                                                         *)
(* Runs of one route follow each other; time passes between any two steps, *)
(* and a run can be cut short after any of them: by an exception (then its *)
(* job is reported as failed, see ServiceRun), or by the end of the        *)
(* process.  Times are in the unit of the cooldown; prices are whole.      *)
(***************************************************************************)
EXTENDS Integers, Sequences, FiniteSets, FiniteSetsExt

CONSTANTS
    Prices,            \* the prices that can be found
    NoPrice,           \* an extraction without a price
    Cooldown,          \* cooldown_minutes
    Direction,         \* alert_direction
    MinAbsolute,       \* min_absolute_change
    MinPercent,        \* min_percent_change
    Target,            \* target_price, 0 for none
    OnFirst,           \* alert_on_first_observation
    OnMissing,         \* alert_on_missing_price
    RunBound,          \* bound: rows of the history
    LastTime           \* bound: how far the clock runs

ASSUME WatchAssumption ==
    /\ Prices \subseteq Nat \ {0} /\ NoPrice \notin Prices
    /\ {Cooldown, MinAbsolute, MinPercent, Target, RunBound, LastTime} \subseteq Nat
    /\ Direction \in {"drop", "rise", "any"}
    /\ {OnFirst, OnMissing} \subseteq BOOLEAN

VARIABLES
    clock,      \* the clock
    step,       \* where the run at hand stands
    found,      \* the price it has extracted
    previous,   \* the number of the row it read as the previous one, or 0
    history,    \* the rows of the route, oldest first
    decisions,  \* what was decided about each row, in the same order
    alerts      \* the alerts that were dispatched, in order

watchVars == <<clock, step, found, previous, history, decisions, alerts>>

Reasons == {"cooldown_active", "missing_price", "target_price_reached",
            "first_observation", "no_previous_price", "direction_mismatch",
            "below_threshold", "threshold_met"}
RouteRows == [price : Prices \cup {NoPrice}, at : 0 .. LastTime]

Alerts == [row : 1 .. RunBound, previous : 0 .. RunBound, at : 0 .. LastTime,
           delivered : BOOLEAN]

Priced(rows) == {i \in DOMAIN rows : rows[i].price # NoPrice}

\* The query without its condition on the price.
LastRow(rows) == Len(rows)

\* get_last_price_record
LastPriced(rows) == IF Priced(rows) = {} THEN 0 ELSE Max(Priced(rows))

WatchInit ==
    /\ clock = 0
    /\ step = "idle"
    /\ found = NoPrice
    /\ previous = 0
    /\ history = <<>>
    /\ decisions = <<>>
    /\ alerts = <<>>

-----------------------------------------------------------------------------
(* evaluate_alert, of a price and the number of the previous row *)

Drop(rows, i, price) == rows[i].price - price
Distance(a, b) == IF a > b THEN a - b ELSE b - a

DirectionMatches(drop) ==
    CASE Direction = "drop" -> drop > 0
      [] Direction = "rise" -> drop < 0
      [] OTHER              -> drop # 0

ThresholdMatches(old, new) ==
    /\ Distance(old, new) >= MinAbsolute
    /\ Distance(old, new) * 100 >= MinPercent * old

\* The cooldown applies to a price that is not there only.
InCooldownMissing(prev) ==
    /\ Cooldown > 0
    /\ prev # 0
    /\ clock - history[prev].at < Cooldown
    /\ found = NoPrice

\* The cooldown is counted from the price that a price is compared with.
InCooldown(prev) ==
    /\ Cooldown > 0
    /\ prev # 0
    /\ clock - history[prev].at < Cooldown

Reason(price, prev) ==
    IF InCooldown(prev)                    THEN "cooldown_active"
    ELSE IF price = NoPrice                THEN "missing_price"
    ELSE IF Target > 0 /\ price <= Target  THEN "target_price_reached"
    ELSE IF prev = 0 /\ OnFirst            THEN "first_observation"
    ELSE IF prev = 0                       THEN "no_previous_price"
    ELSE IF ~DirectionMatches(Drop(history, prev, price)) THEN "direction_mismatch"
    ELSE IF ~ThresholdMatches(history[prev].price, price) THEN "below_threshold"
    ELSE "threshold_met"

ShouldAlert(reason) ==
    \/ reason \in {"target_price_reached", "first_observation", "threshold_met"}
    \/ reason = "missing_price" /\ OnMissing

-----------------------------------------------------------------------------
Tick ==
    /\ clock < LastTime
    /\ clock' = clock + 1
    /\ UNCHANGED <<step, found, previous, history, decisions, alerts>>

\* A run comes to the end of its extraction.
Extracted ==
    /\ step = "idle"
    /\ Len(history) < RunBound
    /\ found' \in Prices \cup {NoPrice}
    /\ step' = "read"
    /\ UNCHANGED <<clock, previous, history, decisions, alerts>>

\* A reader of the history that comes after the save.
ReadAfterSave ==
    /\ step = "read"
    /\ previous' = IF found = NoPrice THEN LastPriced(history) ELSE Len(history) + 1
    /\ step' = "save"
    /\ UNCHANGED <<clock, found, history, decisions, alerts>>

ReadPrevious ==
    /\ step = "read"
    /\ previous' = LastPriced(history)
    /\ step' = "save"
    /\ UNCHANGED <<clock, found, history, decisions, alerts>>

\* The row is there for good before anything is decided about it.
SaveRow ==
    /\ step = "save"
    /\ history' = Append(history, [price |-> found, at |-> clock])
    /\ decisions' = Append(decisions, "none")
    /\ step' = "evaluate"
    /\ UNCHANGED <<clock, found, previous, alerts>>

Current == Len(history)

Evaluate ==
    /\ step = "evaluate"
    /\ LET reason == Reason(found, previous)
       IN  /\ decisions' = [decisions EXCEPT ![Current] = reason]
           /\ step' = IF ShouldAlert(reason) THEN "dispatch" ELSE "done"
    /\ UNCHANGED <<clock, found, previous, history, alerts>>

\* dispatch_alert reports a channel that fails and never tries it again.
Dispatch ==
    /\ step = "dispatch"
    /\ \E delivered \in BOOLEAN :
           alerts' = Append(alerts, [row |-> Current, previous |-> previous,
                                     at |-> clock, delivered |-> delivered])
    /\ step' = "done"
    /\ UNCHANGED <<clock, found, previous, history, decisions>>

NextRun ==
    /\ step = "done"
    /\ step' = "idle"
    /\ found' = NoPrice
    /\ previous' = 0
    /\ UNCHANGED <<clock, history, decisions, alerts>>

\* An exception or the end of the process: what is decided and not yet sent,
\* or not yet decided, is lost with the run.
CutShort ==
    /\ step \in {"read", "save", "evaluate", "dispatch"}
    /\ step' = "idle"
    /\ found' = NoPrice
    /\ previous' = 0
    /\ UNCHANGED <<clock, history, decisions, alerts>>

WatchNext ==
    \/ Tick
    \/ Extracted
    \/ ReadPrevious
    \/ SaveRow
    \/ Evaluate
    \/ Dispatch
    \/ NextRun
    \/ CutShort

WatchSpec == WatchInit /\ [][WatchNext]_watchVars

-----------------------------------------------------------------------------
(* Properties *)

WatchTypeOK ==
    /\ clock \in 0 .. LastTime
    /\ step \in {"idle", "read", "save", "evaluate", "dispatch", "done"}
    /\ found \in Prices \cup {NoPrice}
    /\ previous \in 0 .. RunBound
    /\ history \in Seq(RouteRows) /\ Len(history) <= RunBound
    /\ decisions \in Seq(Reasons \cup {"none"})
    /\ Len(decisions) = Len(history)
    /\ alerts \in Seq(Alerts)
    /\ \A i \in DOMAIN alerts : alerts[i].row <= Len(history)

\* The priced rows before the row i, and 0.
Before(rows, i) == {0} \cup {j \in Priced(rows) : j < i}
LastBefore(i) == Max(Before(history, i))

\* The price an alert compares with is the last one that was found before it,
\* whichever runs were cut short or found nothing in between.
ComparesWithLast ==
    \A i \in DOMAIN alerts :
        alerts[i].previous = LastBefore(alerts[i].row)

\* Two alerts about prices never come closer together than the cooldown,
\* counted from when the first of the prices was stored.
PriceAlertsSpaced ==
    \A i, j \in DOMAIN alerts :
        (/\ i < j
         /\ {alerts[i].row, alerts[j].row} \subseteq Priced(history))
            => alerts[j].at - history[alerts[i].row].at >= Cooldown

\* A change that is worth an alert, between two prices that follow each other.
Qualifies(old, new) ==
    DirectionMatches(history[old].price - history[new].price)
        /\ ThresholdMatches(history[old].price, history[new].price)

\* A change that qualifies is noticed, however many runs were cut short or found
\* nothing since the older price, unless that price is younger than the cooldown.
QualifyingChangeNoticed ==
    \A i \in Priced(history) :
        LET old == LastBefore(i)
        IN  old # 0 /\ Qualifies(old, i) /\ decisions[i] # "none" =>
                decisions[i] \in {"cooldown_active", "threshold_met", "target_price_reached"}
=============================================================================

---------------------------- MODULE ManualWindow ----------------------------
(***************************************************************************)
(* allow_manual_verification_intervention of core/browser/session.py: the  *)
(* window in which a person works on the page while the automation is      *)
(* locked out.  Time passes in units of one stability interval (900 ms).   *)
(* A step takes no time but where it says so: probes and waits do, and what *)
(* a heartbeat asks the page may (Slow).                                   *)
(***************************************************************************)
EXTENDS BrowserPages, Sequences

CONSTANTS
    Settings,    \* [mode, lastResort, headless]: how a session may be configured
    Overrides,   \* what callers pass as mode_override, "" for nothing
    Duration,    \* the window in units
    Extension,   \* what an extension adds
    Rounds,      \* extensions of one window, 2 in the code
    Checks,      \* looks of the stability probe, 3 in the code
    ManyActs     \* events that count as evidence of a person at work

ASSUME WindowAssumption ==
    /\ Settings \subseteq [mode : {"off", "assist", "demo"}, lastResort : BOOLEAN, headless : BOOLEAN]
    /\ {Duration, Extension, Checks, ManyActs} \subseteq Nat \ {0}
    /\ Rounds \in Nat
    /\ Overrides \subseteq {"", "assist", "demo"}

Waiting == 2      \* units of one wait of a heartbeat

VARIABLES
    conf,      \* the settings of this session
    step,      \* where the session is
    active,    \* _manual_intervention_active
    handlers,  \* who handles SIGINT and SIGTERM: "runner" or "window"
    win,       \* the locals of the window
    result,    \* the reason the window gives, until it has returned
    store,     \* events in the capture of the page's document, Gone without one
    acts,      \* history: what the person did on captured pages
    clock,     \* history: time spent and granted; slow heartbeats, rebindings; first
               \* clear look
    escaped    \* history: an interrupt left the window before its try or in its finally

winVars == <<conf, step, active, handlers, win, result, store, acts, clock, escaped>>

Gone == -1
NoCapture == [on |-> FALSE, cursor |-> 0, prev |-> 0]
NoWin == [mode |-> "off", forced |-> FALSE, challenged |-> FALSE, left |-> 0,
          rounds |-> 0, reissues |-> 0, capture |-> NoCapture, counted |-> 0,
          before |-> "none", lastOn |-> FALSE, sample |-> 0]
NoClock == [spent |-> 0, granted |-> 0, grants |-> 0, slow |-> 0, rebinds |-> 0,
            clear |-> Gone]

People == {"assist", "demo"}

-----------------------------------------------------------------------------
(* Opening the window: the early returns, the lock, the signal handlers.     *)

Refusal(force, override) ==
    CASE ~(conf.mode \in People \/ (force /\ conf.lastResort)) -> "manual_intervention_disabled"
      [] conf.headless -> "headless_mode"
      [] primary = NoPage -> "page_unavailable"
      [] OTHER -> "none"

BeginWindow ==
    /\ \E force \in BOOLEAN, override \in Overrides :
           LET mode == IF override = "" THEN conf.mode ELSE override
           IN  IF Refusal(force, override) # "none"
               THEN UNCHANGED <<step, active, win, clock, result>>
               ELSE /\ step' = "locked"
                    /\ active' = TRUE
                    /\ win' = [NoWin EXCEPT !.mode = mode,
                                            !.forced = force /\ conf.lastResort,
                                            !.challenged = Surface(primary),
                                            !.before = Url(primary),
                                            !.rounds = IF mode \in People THEN Rounds ELSE 0]
                    /\ clock' = NoClock
                    /\ result' = "open"
    /\ UNCHANGED <<conf, handlers, store, acts, escaped, pageVars>>

TakeSignals ==
    /\ step = "locked" /\ step' = "armed"
    /\ handlers' = "window"
    /\ UNCHANGED <<conf, active, win, result, store, acts, clock, escaped, pageVars>>

(* An interrupt between the handlers and the try passes the finally by.      *)
InterruptEarly ==
    /\ step = "armed" /\ MoveOn
    /\ step' = "idle" /\ escaped' = TRUE /\ result' = "none" /\ win' = NoWin
    /\ UNCHANGED <<conf, active, handlers, store, acts, clock,
                   tabs, primary, helpers, expected, unseen, up, guardClosed>>

(* A capture starts where the document's store of events stands.             *)
Captured == [on |-> TRUE, cursor |-> IF store = Gone THEN 0 ELSE store, prev |-> 0]
CapturedFromTheTop == [on |-> TRUE, cursor |-> 0, prev |-> 0]
Stored == IF store = Gone THEN 0 ELSE store

OpenWindow ==
    /\ step = "armed"
    /\ IF Open(primary)
       THEN /\ step' = "beat"
            /\ LET capture == IF win.mode \in People THEN Captured ELSE NoCapture
               IN win' = [win EXCEPT !.left = Duration, !.capture = capture]
            /\ store' = IF win.mode \in People THEN Stored ELSE store
            /\ clock' = [clock EXCEPT !.granted = Duration, !.grants = 1]
            /\ SinglePagePolicy
       ELSE /\ step' = "raised"             \* bring_to_front
            /\ UNCHANGED <<win, store, clock, tabs, guardClosed, expected>>
    /\ UNCHANGED <<conf, active, handlers, result, acts, escaped,
                   primary, helpers, unseen, up, moves>>

-----------------------------------------------------------------------------
(* The end of the time: an extension for a challenge that is being worked on.*)

Evidence ==
    IF win.mode = "demo" THEN win.counted >= 1
    ELSE win.reissues >= 1 \/ win.counted >= ManyActs

Extends == win.challenged /\ Surface(primary) /\ win.rounds > 0 /\ Evidence

(* The time is over: the window hands over what it has collected.            *)
Elapse == step' = "finally" /\ result' = "manual_window_elapsed"

Expire ==
    /\ step = "beat" /\ win.left = 0
    /\ IF Extends
       THEN /\ win' = [win EXCEPT !.rounds = @ - 1, !.left = Extension]
            /\ clock' = [clock EXCEPT !.granted = @ + Extension, !.grants = @ + 1]
            /\ UNCHANGED <<step, result>>
       ELSE /\ Elapse
            /\ UNCHANGED <<win, clock>>
    /\ UNCHANGED <<conf, active, handlers, store, acts, escaped, pageVars>>

-----------------------------------------------------------------------------
(* One heartbeat: the sweep, the capture, the look at the challenge.         *)

(* What the capture says, when it can be asked: the growth since the last    *)
(* time is added to what the window has counted.                             *)
Collected ==
    LET now == store - win.capture.cursor
    IN [win EXCEPT !.lastOn = TRUE,
                   !.counted = @ + (IF now > win.capture.prev THEN now - win.capture.prev ELSE 0),
                   !.capture.prev = now]

Collectable == win.capture.on /\ Open(primary) /\ store # Gone

(* A capture armed anew is asked at once.                                    *)
RearmedFromTheTop == [win EXCEPT !.lastOn = TRUE, !.capture = CapturedFromTheTop]
Rearmed == [win EXCEPT !.lastOn = TRUE, !.capture = Captured]

(* A page under navigation cannot be asked even if its document is there.    *)
Capturing ==
    \/ /\ Collectable
       /\ win' = Collected /\ UNCHANGED store
    \/ /\ win.mode \in People /\ win.left > 1 /\ Open(primary)
       /\ win' = Rearmed /\ store' = Stored
    \/ /\ ~Collectable \/ win.mode \in People
       /\ win' = [win EXCEPT !.lastOn = FALSE] /\ UNCHANGED store

Beat ==
    /\ step = "beat" /\ win.left > 0
    /\ SinglePagePolicy
    /\ Capturing
    /\ IF win.challenged /\ ~Surface(primary)
       THEN step' = "probe" /\ clock' = [clock EXCEPT !.clear = clock.spent]
       ELSE step' = "wait" /\ UNCHANGED clock
    /\ UNCHANGED <<conf, active, handlers, result, acts, escaped,
                   primary, helpers, unseen, up, moves>>

(* The sweep, the capture and the fingerprints of a heartbeat ask the page,  *)
(* which may take its time: nothing is charged for it.                       *)
Slow ==
    /\ step = "beat" /\ MoveOn
    /\ clock' = [clock EXCEPT !.spent = @ + 1, !.slow = @ + 1]
    /\ UNCHANGED <<conf, step, active, handlers, win, result, store, acts, escaped,
                   tabs, primary, helpers, expected, unseen, up, guardClosed>>

-----------------------------------------------------------------------------
(* _confirm_verification_clear_stable, look by look.                         *)

LookClear == ~Surface(primary) /\ Open(primary)

(* What the probe took is charged when it ends, cut to what is left.         *)
ChargedNothing(units) == win.left
Charged(units) == IF units > win.left THEN 0 ELSE win.left - units

NextLook ==
    /\ step = "probe" /\ LookClear /\ win.sample + 1 < Checks
    /\ win' = [win EXCEPT !.sample = @ + 1]
    /\ clock' = [clock EXCEPT !.spent = @ + 1]
    /\ UNCHANGED <<conf, step, active, handlers, result, store, acts, escaped, pageVars>>

Unstable ==
    /\ step = "probe" /\ ~LookClear
    /\ step' = "beat"
    /\ win' = [win EXCEPT !.left = Charged(win.sample), !.sample = 0]
    /\ clock' = [clock EXCEPT !.clear = Gone]
    /\ UNCHANGED <<conf, active, handlers, result, store, acts, escaped, pageVars>>

StableEarly == step = "probe" /\ LookClear
StableNow == step = "probe" /\ LookClear /\ win.sample + 1 = Checks

Stable ==
    /\ StableNow
    /\ IF win.mode = "demo"
       THEN /\ step' = "beat"
            /\ win' = [win EXCEPT !.left = Charged(win.sample), !.sample = 0,
                                  !.challenged = FALSE]
            /\ UNCHANGED result
       ELSE /\ step' = "finally"
            /\ win' = [win EXCEPT !.left = Charged(win.sample), !.sample = 0]
            /\ result' = "manual_challenge_cleared"
    /\ UNCHANGED <<conf, active, handlers, store, acts, clock, escaped, pageVars>>

-----------------------------------------------------------------------------
(* The wait, and a page that has gone.                                       *)

WaitUnitsLeftOver == IF win.left < Waiting THEN 0 ELSE win.left - Waiting
WaitUnits == IF win.left < Waiting THEN win.left ELSE Waiting

Wait ==
    /\ step = "wait" /\ Open(primary)
    /\ step' = "beat"
    /\ win' = [win EXCEPT !.left = @ - WaitUnits]
    /\ clock' = [clock EXCEPT !.spent = @ + WaitUnits]
    /\ UNCHANGED <<conf, active, handlers, result, store, acts, escaped, pageVars>>

(* The page is found closed, or closes during the wait: what was waited till *)
(* then is not charged.                                                      *)
PageGone ==
    /\ step = "wait" /\ ~Open(primary)
    /\ IF win.mode \in People /\ ~win.forced /\ RebindCandidates # {}
       THEN /\ step' = "beat"
            /\ Rebind
            /\ store' = Gone
            /\ \E waited \in 0 .. WaitUnits :
                 clock' = [clock EXCEPT !.spent = @ + waited + 1, !.rebinds = @ + 1]
       ELSE step' = "raised" /\ UNCHANGED <<primary, helpers, store, clock>>
    /\ UNCHANGED <<conf, active, handlers, win, result, acts, escaped,
                   tabs, expected, unseen, up, guardClosed, moves>>

(* The last summary stands in for a capture that cannot be asked any more.   *)
(* It holds the sum of all captures and is taken for the count of the last   *)
(* one, so that what earlier captures had counted is added a second time.    *)
Told ==
    IF win.lastOn /\ ~Collectable
    THEN win.counted + (win.counted - win.capture.prev)
    ELSE win.counted

(* should_mark_manual_observation_complete, by the evidence it asks for.     *)
ObservationComplete ==
    /\ win.mode = "demo"
    /\ Told >= ManyActs
    /\ Url(primary) = "gate" => win.before = "gate" /\ win.reissues >= 1

Raised ==
    /\ step = "raised" /\ step' = "finally"
    /\ result' = CASE Open(primary) -> "manual_intervention_exception"
                   [] ~Open(primary) /\ ObservationComplete -> "manual_observation_complete_target_closed"
                   [] ~Open(primary) /\ ~ObservationComplete /\ win.challenged
                      /\ Url(primary) = "gate" /\ win.reissues >= 1
                        -> "manual_intervention_reissue_suspected_target_closed"
                   [] OTHER -> "manual_intervention_target_closed"
    /\ UNCHANGED <<conf, active, handlers, win, store, acts, clock, escaped, pageVars>>

Interrupt ==
    /\ step \in {"beat", "probe", "wait", "raised"} /\ MoveOn
    /\ step' = "finally" /\ result' = "manual_intervention_interrupted"
    /\ UNCHANGED <<conf, active, handlers, win, store, acts, clock, escaped,
                   tabs, primary, helpers, expected, unseen, up, guardClosed>>

(* The result is handed over and the locals of the window are gone.          *)
WindowClosed ==
    /\ step = "finally" /\ step' = "idle"
    /\ SinglePagePolicy
    /\ result' = "none" /\ win' = NoWin /\ clock' = NoClock /\ acts' = 0
    /\ UNCHANGED <<conf, store, escaped, primary, helpers, unseen, up, moves>>

FinallyLocked ==
    /\ WindowClosed
    /\ active' = (result = "manual_intervention_interrupted") /\ handlers' = "runner"

Finally ==
    /\ WindowClosed
    /\ active' = FALSE /\ handlers' = "runner"

(* An interrupt within the finally, during its sweep or behind it, passes    *)
(* what is left of it by.                                                    *)
InterruptFinally ==
    /\ step = "finally" /\ MoveOn
    /\ step' = "idle" /\ escaped' = TRUE
    /\ active' \in {active, FALSE}
    /\ result' = "none" /\ win' = NoWin /\ clock' = NoClock /\ acts' = 0
    /\ UNCHANGED <<conf, handlers, store,
                   tabs, primary, helpers, expected, unseen, up, guardClosed>>

-----------------------------------------------------------------------------
(* The person: an act on the page, a challenge that is issued anew.          *)

InWindow == step \in {"beat", "probe", "wait"}

Act ==
    /\ InWindow /\ Open(primary) /\ store # Gone /\ MoveOn
    /\ store' = store + 1 /\ acts' = acts + 1
    /\ UNCHANGED <<conf, step, active, handlers, win, result, clock, escaped,
                   tabs, primary, helpers, expected, unseen, up, guardClosed>>

(* The document of the capture goes when its page is led elsewhere.          *)
Led ==
    /\ TabNavigates
    /\ store' = IF tabs'[primary] # tabs[primary] THEN Gone ELSE store
    /\ UNCHANGED <<conf, step, active, handlers, win, result, acts, clock, escaped>>

Reissue ==
    /\ InWindow /\ Surface(primary) /\ MoveOn
    /\ win' = [win EXCEPT !.reissues = @ + 1]
    /\ UNCHANGED <<conf, step, active, handlers, result, store, acts, clock, escaped,
                   tabs, primary, helpers, expected, unseen, up, guardClosed>>
=============================================================================

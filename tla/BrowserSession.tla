--------------------------- MODULE BrowserSession ---------------------------
(***************************************************************************)
(* A session from __enter__ to __exit__: the calls the scenario makes one  *)
(* after the other, the manual window and the grace period among them,     *)
(* while people and pages go on.                                           *)
(***************************************************************************)
EXTENDS ChallengeGrace

VARIABLE calls   \* what is left of Calls

vars == <<pageVars, winVars, grace, calls>>

Init ==
    /\ tabs = [p \in Pages |-> [st |-> "unborn", url |-> "blank"]]
    /\ primary = NoPage /\ helpers = NoPage /\ expected = 0 /\ unseen = {}
    /\ up = "down" /\ guardClosed = {} /\ moves = EnvMoves
    /\ conf \in Settings
    /\ step = "out" /\ active = FALSE /\ handlers = "runner" /\ win = NoWin
    /\ result = "none" /\ store = Gone /\ acts = 0 /\ clock = NoClock /\ escaped = FALSE
    /\ grace = NoGrace /\ calls = Calls

Enters ==
    /\ step = "out" /\ Enter
    /\ step' = IF up' = "up" THEN "idle" ELSE "over"
    /\ UNCHANGED <<expected, unseen, guardClosed, moves, conf, active, handlers, win,
                   result, store, acts, clock, escaped, grace, calls>>

Calling == step = "idle" /\ ~escaped /\ calls > 0 /\ calls' = calls - 1

(* goto: refused while the window is open, raises on a page that has gone.   *)
Goto ==
    /\ Calling /\ ~active /\ Open(helpers)
    /\ \E url \in NavUrls \ {"away"} : tabs' = [tabs EXCEPT ![helpers].url = url]
    /\ store' = Gone
    /\ UNCHANGED <<primary, helpers, expected, unseen, up, guardClosed, moves, conf, step,
                   active, handlers, win, result, acts, clock, escaped, grace>>

Window == Calling /\ BeginWindow /\ UNCHANGED grace

Grace == Calling /\ Shell /\ BeginGrace

(* recover_page_after_target_closed, that callers turn to for a closed page. *)
(* Events come in order: those of pages opened before are behind it.         *)
Recover ==
    /\ Calling /\ ~Open(primary) /\ unseen = {}
    /\ \/ RecoverLive /\ step' = "navigate"
       \/ RecoverOpen /\ step' = "opening"
       \/ RecoverFails /\ UNCHANGED step
    /\ store' = Gone
    /\ UNCHANGED <<up, moves, conf, active, handlers, win, result, acts, clock, escaped, grace>>

(* new_page() returns after the page event has been handled.                 *)
RecoverAdopt ==
    /\ step = "opening" /\ unseen \cap OpenPages = {}
    /\ \E p \in Pages \ Unborn :
         /\ \A q \in Pages \ Unborn : q <= p
         /\ Adopt(p)
    /\ step' = "navigate"
    /\ UNCHANGED <<tabs, expected, unseen, up, guardClosed, moves, conf, active, handlers,
                   win, result, store, acts, clock, escaped, grace, calls>>

Announce ==
    /\ step = "opening"
    /\ \E p \in OpenPages : PageOpened(p)
    /\ UNCHANGED <<winVars, grace, calls>>

RecoverNavigate ==
    /\ step = "navigate" /\ step' = "idle"
    /\ \/ /\ Open(helpers) /\ ~active
          /\ \E url \in NavUrls \ {"away"} : tabs' = [tabs EXCEPT ![helpers].url = url]
       \/ UNCHANGED tabs                          \* recovered_page_navigation_failed
    /\ UNCHANGED <<primary, helpers, expected, unseen, up, guardClosed, moves, conf, active,
                   handlers, win, result, store, acts, clock, escaped, grace, calls>>

Leave ==
    /\ step = "idle"
    /\ Exit /\ step' = "over"
    /\ calls' = 0 /\ moves' = 0 /\ store' = Gone
    /\ UNCHANGED <<conf, active, handlers, win, result, acts, clock, escaped, grace>>

WindowNext ==
    \/ TakeSignals \/ OpenWindow \/ Expire \/ Beat \/ NextLook \/ Unstable \/ Stable
    \/ Wait \/ PageGone \/ Raised \/ Finally

Steps ==
    \/ WindowNext /\ UNCHANGED <<grace, calls>>
    \/ GraceNext /\ UNCHANGED calls
    \/ Announce \/ RecoverAdopt \/ RecoverNavigate

(* new_page() takes no time that anybody could use.                          *)
Outside ==
    /\ step # "opening"
    /\ \/ InterruptEarly \/ Interrupt \/ InterruptFinally
       \/ Slow \/ Act \/ Reissue \/ Led
       \/ /\ TabOpens \/ TabCloses \/ PageMissed \/ \E p \in Pages : PageOpened(p)
          /\ UNCHANGED winVars
    /\ UNCHANGED <<grace, calls>>

Next ==
    \/ Enters \/ Goto \/ Window \/ Grace \/ Recover \/ Leave
    \/ Steps
    \/ Outside
    \/ step = "over" /\ UNCHANGED vars

(* The session is one thread that keeps going; nobody has to do anything.    *)
Spec == Init /\ [][Next]_vars /\ WF_vars(Steps)

-----------------------------------------------------------------------------
(* What the session promises.                                              *)

(* The session closes pages that turn up beside its own, and never its own:*)
(* not while people open and lead pages, not when it adopts another page in*)
(* the place of a closed one, and not when it opens one itself             *)
(* (session.py:736 against 2717).                                          *)
PrimarySpared == primary \notin guardClosed

(* A window that ends because the challenge is gone has seen the page open *)
(* and without it for a whole stability interval, whatever the page did in *)
(* between (session.py:1516).                                              *)
ClearedMeansStable ==
    step = "finally" /\ result = "manual_challenge_cleared" =>
        /\ clock.clear # Gone
        /\ clock.spent - clock.clear >= Checks - 1

Uncharged == clock.slow + clock.rebinds * (Waiting + 1)

(* A window lasts no longer than it was granted but for what its heartbeats*)
(* leave uncharged, however they end: the last looks of the probe that uses*)
(* up a grant, one unit for each heartbeat that was slow, and for each     *)
(* rebinding that and the wait the closing page broke off                  *)
(* (session.py:2099, 2248, 2351).                                          *)
TimeIsCharged ==
    step \in {"beat", "probe", "wait"} =>
        clock.spent + win.left - win.sample
            <= clock.granted + clock.grants * Most(Checks - 2, 0)
                 + Uncharged

(* What a running window counts of a person's acts, they have done: neither*)
(* a capture armed anew on the same document nor one on the next document  *)
(* counts an act twice (session.py:1857, 2105).                            *)
CountedOnce == step \in {"beat", "probe", "wait"} => win.counted <= acts

(* Between calls the automation is free and the signals are back with the  *)
(* runner, and after the end no page is open, however the window and the   *)
(* session were left, an interrupt in any of the window's steps included.  *)
(* Not so after an interrupt between the handlers and the try, or within   *)
(* the finally: those two keep what was taken (session.py:1989, 2703, 3285).*)
NothingHeldBack ==
    /\ step \in {"idle", "grace", "navigate", "over"} /\ ~escaped =>
         ~active /\ handlers = "runner"
    /\ step = "over" => OpenPages = {} /\ up # "up"

(* The grace period keeps its deadline: it overruns by the pause after a   *)
(* press or by one question to the vision model, never by more             *)
(* (verification_challenges.py:908, 1145).                                 *)
GraceBounded == grace.left >= 0 - Most(Settle, VisionTime)

(* A window on a page that has gone and does not show a challenge by its   *)
(* URL: every heartbeat takes the page for cleared, finds it closed, and   *)
(* goes round without waiting (session.py:2248-2262).                      *)
Spinning == step \in {"beat", "probe"} /\ win.challenged /\ ~Open(primary) /\ ~Surface(primary)

(* Every call of the session comes back: windows, grace periods and        *)
(* recoveries end, however often the challenge flaps or is issued anew,    *)
(* except for a window that spins.                                         *)
ComesBack == step \notin {"out", "idle", "over"} ~> step \in {"idle", "over"} \/ Spinning

(* A manual window is bounded: it ends (docs/kb/10_runtime_contracts/      *)
(* scenario_runner.md:187).                                                *)
WindowBounded == step \in {"beat", "probe", "wait"} ~> step \notin {"beat", "probe", "wait"}
=============================================================================

--------------------------- MODULE BrowserProofs ---------------------------
(***************************************************************************)
(* Proofs about BrowserSession, for any number of pages, any settings and  *)
(* limits, and whatever people and pages do between two steps.             *)
(*                                                                         *)
(* The invariant has four parts, each resting on the ones before it: the   *)
(* types and the stage of the session; the pages, which are opened in      *)
(* order, never reopened, and closed by a guard only beside the session's  *)
(* own; the window, with the account of its time and of the acts it has    *)
(* counted; and the time the grace period has left at each of its steps.   *)
(***************************************************************************)
EXTENDS BrowserSession, FiniteSetTheorems, WellFoundedInduction, TLAPS

WindowSteps == {"locked", "armed", "beat", "probe", "wait", "raised", "finally"}
GraceSteps == {"grace", "press", "passive", "again", "extras", "guide", "pause", "rest"}
OtherSteps == {"out", "idle", "opening", "navigate", "over"}

Tab == [st : {"unborn", "open", "closed"}, url : Urls]
Capture == [on : BOOLEAN, cursor : Nat, prev : Int]
WindowRecord ==
    [mode : {"off", "assist", "demo"}, forced : BOOLEAN, challenged : BOOLEAN, left : Nat,
     rounds : Nat, reissues : Nat, capture : Capture, counted : Nat,
     before : Urls \cup {"none"}, lastOn : BOOLEAN, sample : Nat]
Reasons ==
    {"none", "open", "manual_window_elapsed", "manual_challenge_cleared",
     "manual_intervention_exception", "manual_observation_complete_target_closed",
     "manual_intervention_reissue_suspected_target_closed",
     "manual_intervention_target_closed", "manual_intervention_interrupted"}
Clocks == [spent : Nat, granted : Nat, grants : Nat, slow : Nat,
            rebinds : Nat, clear : Nat \cup {Gone}]
Graces ==
    [left : Int, attempts : Nat, executed : BOOLEAN, success : BOOLEAN, nudged : BOOLEAN,
     held : BOOLEAN, guided : BOOLEAN, seen : BOOLEAN, shell : BOOLEAN, frame : BOOLEAN,
     from : {"first", "loop", "held", "guided"}]

(* The types, and what each stage of the session implies.                    *)
PagesTyped ==
    /\ tabs \in [Pages -> Tab]
    /\ primary \in Pages \cup {NoPage} /\ helpers \in Pages \cup {NoPage}
    /\ expected \in Nat /\ unseen \in SUBSET Pages
    /\ up \in {"down", "up", "leaked"}
    /\ guardClosed \in SUBSET Pages /\ moves \in Nat

WindowTyped ==
    /\ conf \in Settings /\ step \in WindowSteps \cup GraceSteps \cup OtherSteps
    /\ active \in BOOLEAN /\ escaped \in BOOLEAN /\ handlers \in {"runner", "window"}
    /\ win \in WindowRecord /\ clock \in Clocks
    /\ result \in Reasons /\ store \in Nat \cup {Gone} /\ acts \in Nat

GraceTyped == grace \in Graces /\ calls \in Nat

Staged ==
    /\ step = "out" => up = "down" /\ guardClosed = {} /\ Unborn = Pages
    /\ step \notin {"out", "over"} => up = "up" /\ primary \in Pages /\ helpers \in Pages
    /\ step = "over" => up # "up" /\ OpenPages = {}

(* Pages come in order, and one that a guard has closed stays closed.        *)
InOrder == \A p, q \in Pages : p < q /\ q \notin Unborn => p \notin Unborn
ClosedForGood == \A p \in guardClosed : tabs[p].st = "closed"
OwnBorn == primary \notin Unborn

(* The page a recovery has opened is the newest and the only one, it is not  *)
(* the session's own yet, and an event that is still to come expects it.     *)
Opening ==
    step = "opening" =>
        \E p \in OpenPages :
            /\ OpenPages = {p} /\ p # primary
            /\ \A q \in Pages \ Unborn : q <= p
            /\ p \in unseen => expected > 0

(* The lock and the signal handlers are the window's only while it is open.  *)
Held ==
    step \notin WindowSteps /\ ~escaped => ~active /\ handlers = "runner"

Fresh ==
    step \in {"locked", "armed"} => clock = NoClock /\ win.counted = 0 /\ win.sample = 0

Sampling ==
    /\ step \in {"beat", "wait"} => win.sample = 0
    /\ step = "probe" => win.sample < Checks
    /\ step \in {"probe", "wait"} => win.left > 0

(* The first look of a probe is the start of a clear interval.               *)
ClearSince ==
    step = "probe" => clock.clear # Gone /\ clock.spent - clock.clear >= win.sample

(* What the capture has seen beyond the last count is still to be counted.   *)
Pending ==
    step \in {"beat", "probe", "wait"} =>
        /\ win.counted <= acts
        /\ win.capture.on /\ store # Gone =>
             win.counted + (store - win.capture.cursor - win.capture.prev) <= acts

(* A grant can be overrun once, by the probe that ends it; slow heartbeats   *)
(* and rebindings are not taken off it at all.                               *)
Allowance(n) == n * Most(Checks - 2, 0)
Overruns == IF win.left > 0 THEN clock.grants - 1 ELSE clock.grants
Charging ==
    step \in {"beat", "probe", "wait"} =>
        /\ clock.grants > 0
        /\ clock.spent + win.left - win.sample
             <= clock.granted + Allowance(Overruns) + Uncharged

(* The time left when a step of the grace period is about to be taken.       *)
Leaves(to, meta) ==
    /\ meta.left >= 0 - Most(Settle, VisionTime)
    /\ to \in {"passive", "again", "extras", "guide"} => meta.left >= 0
    /\ to = "grace" => meta.left >= (IF meta.from = "guided" THEN 0 - VisionTime ELSE 0)
    /\ to = "press" => meta.left > 0
TimeLeft == Leaves(step, grace)

TypesInv == PagesTyped /\ WindowTyped /\ GraceTyped /\ Staged
PagesInv == InOrder /\ ClosedForGood /\ OwnBorn /\ Opening /\ PrimarySpared
WindowInv == Held /\ Fresh /\ Sampling /\ ClearSince /\ Pending /\ Charging /\ ClearedMeansStable
IInv == TypesInv /\ PagesInv /\ WindowInv /\ TimeLeft

-----------------------------------------------------------------------------
(* Lemmas about the operators on pages *)

LEMMA PagesFinite ==
    /\ IsFiniteSet(Pages) /\ 1 \in Pages /\ NoPage \notin Pages /\ Pages \subseteq Nat
    /\ \A S \in SUBSET Pages : Cardinality(S) \in Nat
<1>1. \A S \in SUBSET Pages : Cardinality(S) \in Nat
    BY PagesAssumption, FS_Subset, FS_CardinalityType
<1> QED BY <1>1, PagesAssumption DEF NoPage

LEMMA UrlsKnown == "blank" \in Urls /\ TabUrls \subseteq Urls /\ NavUrls \subseteq Urls
BY PagesAssumption DEF Urls

(* Closing pages touches nothing but their state.                            *)
LEMMA ClosedTabs ==
    ASSUME tabs \in [Pages -> Tab], NEW S
    PROVE  /\ Closed(S) \in [Pages -> Tab]
           /\ \A p \in Pages : Closed(S)[p].url = tabs[p].url
           /\ \A p \in Pages \cap S : Closed(S)[p].st = "closed"
           /\ \A p \in Pages \ S : Closed(S)[p] = tabs[p]
<1>1. \A t \in Tab : [t EXCEPT !.st = "closed"] \in Tab
    BY DEF Tab
<1>2. \A t \in Tab : [t EXCEPT !.st = "closed"].url = t.url
                      /\ [t EXCEPT !.st = "closed"].st = "closed"
    BY DEF Tab
<1> QED BY <1>1, <1>2 DEF Closed

(* Leading a page elsewhere touches nothing but what it shows.               *)
LEMMA LedTabs ==
    ASSUME tabs \in [Pages -> Tab], NEW p \in Pages, NEW url \in Urls,
           NEW t, t = [tabs EXCEPT ![p].url = url]
    PROVE  /\ t \in [Pages -> Tab]
           /\ \A q \in Pages : t[q].st = tabs[q].st
           /\ \A q \in Pages \ {p} : t[q] = tabs[q]
BY DEF Tab

(* Opening a page touches no other.                                          *)
LEMMA OpenedTabs ==
    ASSUME tabs \in [Pages -> Tab], NEW p \in Pages, NEW url \in Urls,
           NEW t, t = [tabs EXCEPT ![p] = [st |-> "open", url |-> url]]
    PROVE  /\ t \in [Pages -> Tab] /\ t[p].st = "open"
           /\ \A q \in Pages \ {p} : t[q] = tabs[q]
<1>1. [st |-> "open", url |-> url] \in Tab
    BY DEF Tab
<1> QED BY <1>1

(* Among the open pages there is a last one.                                 *)
LEMMA NewestOpen ==
    ASSUME OpenPages # {}
    PROVE  (CHOOSE p \in OpenPages : \A q \in OpenPages : q <= p) \in OpenPages
<1> DEFINE R == {ss \in Nat \X Nat : ss[1] < ss[2]}
           n == Cardinality(Pages)
           S == {n - p : p \in OpenPages}
<1>1. IsWellFoundedOn(R, Nat)
    BY NatLessThanWellFounded DEF OpToRel
<1>2. \A x, y \in Nat : y < x => <<y, x>> \in R
    OBVIOUS
<1>3. n \in Nat /\ \A p \in OpenPages : p \in Nat /\ n - p \in Nat
  <2>1. n \in Nat
      BY PagesFinite
  <2> QED BY <2>1, PagesAssumption DEF OpenPages
<1>4. S \subseteq Nat /\ S # {}
    BY <1>3
<1> HIDE DEF R
<1>5. PICK x \in S : \A y \in S : ~ (<<y, x>> \in R)
  <2> HIDE DEF S
  <2> QED BY <1>1, <1>4, WFMin
<1>6. PICK p \in OpenPages : x = n - p
    BY <1>5
<1>7. ASSUME NEW q \in OpenPages PROVE q <= p
  <2>1. n - q \in S /\ n - q \in Nat /\ n - p \in Nat
      BY <1>3
  <2>2. ~ (n - q < n - p)
      BY <1>2, <1>5, <1>6, <2>1, Zenon
  <2> QED BY <1>3, <2>1, <2>2
<1> QED BY <1>7

(* A sweep closes only open pages, and never the session's own.              *)
LEMMA SweepCloses ==
    ASSUME PagesTyped, SinglePagePolicy
    PROVE  /\ tabs' \in [Pages -> Tab] /\ expected' \in Nat /\ guardClosed' \in SUBSET Pages
           /\ \E S \in SUBSET (OpenPages \ {primary}) :
                tabs' = Closed(S) /\ guardClosed' = guardClosed \cup S
<1>1. SweptAway \in SUBSET (OpenPages \ {primary}) /\ OpenPages \subseteq Pages
    BY DEF SweptAway, Others, OpenPages
<1>2. Cardinality(Others) \in Nat
    BY <1>1, PagesFinite DEF Others
<1>3. expected' \in Nat
    BY <1>2 DEF SinglePagePolicy, PagesTyped
<1> QED BY <1>1, <1>3, ClosedTabs DEF SinglePagePolicy, PagesTyped

(* The event of a page closes at most that page, and never the session's own.*)
LEMMA EventCloses ==
    ASSUME PagesTyped, NEW p, PageOpened(p)
    PROVE  /\ tabs' \in [Pages -> Tab] /\ expected' \in Nat /\ guardClosed' \in SUBSET Pages
           /\ \E S \in SUBSET (OpenPages \ {primary}) :
                /\ tabs' = Closed(S) /\ guardClosed' = guardClosed \cup S
                /\ expected > 0 => S = {}
<1>0. Closed({}) = tabs
    BY DEF Closed, PagesTyped
<1>1. CASE UNCHANGED <<tabs, guardClosed>> /\ expected' \in Nat
    BY <1>0, <1>1 DEF PagesTyped
<1>2. CASE p # primary /\ expected = 0 /\ ~UNCHANGED <<tabs, guardClosed>>
  <2> DEFINE S == {q \in {p} \cap OpenPages : ShouldClose(Url(q), Url(primary))}
  <2>1. tabs' = Closed(S) /\ guardClosed' = guardClosed \cup S /\ expected' = expected
      BY <1>2 DEF PageOpened
  <2>2. S \in SUBSET (OpenPages \ {primary}) /\ OpenPages \subseteq Pages
      BY <1>2 DEF OpenPages
  <2> HIDE DEF S
  <2> QED BY <1>2, <2>1, <2>2, ClosedTabs DEF PagesTyped
<1> QED BY <1>1, <1>2 DEF PageOpened, PagesTyped

-----------------------------------------------------------------------------
(* What a step does to the pages, and between which stages it leads *)

InSession == step \in (WindowSteps \cup GraceSteps \cup {"idle", "navigate"})
SameHold == UNCHANGED <<primary, helpers, up>>

Still ==
    /\ UNCHANGED <<tabs, expected, unseen, guardClosed>> /\ SameHold /\ moves' \in Nat
    /\ UNCHANGED step \/ (InSession /\ InSession')

Sweeps == SinglePagePolicy /\ UNCHANGED <<unseen, moves>> /\ SameHold /\ InSession /\ InSession'

Announced ==
    /\ \E p : PageOpened(p) /\ (step = "opening" => p \in OpenPages)
    /\ UNCHANGED step

TabMoves ==
    /\ UNCHANGED step /\ step # "opening"
    /\ PageMissed \/ TabOpens \/ TabCloses \/ TabNavigates

Goes ==
    /\ InSession /\ InSession' /\ Open(helpers) /\ SameHold
    /\ UNCHANGED <<expected, unseen, guardClosed, moves>>
    /\ \E url \in Urls : tabs' = [tabs EXCEPT ![helpers].url = url]

Adopts ==
    /\ InSession /\ InSession'
    /\ \E p \in OpenPages : Adopt(p)
    /\ UNCHANGED <<tabs, expected, unseen, up, guardClosed, moves>>

OpensAnew ==
    /\ RecoverOpen /\ UNCHANGED <<up, moves>> /\ unseen = {} /\ ~Open(primary)
    /\ InSession /\ step' = "opening"

AdoptsNewest ==
    /\ step = "opening" /\ InSession'
    /\ \E p \in Pages \ Unborn : (\A q \in Pages \ Unborn : q <= p) /\ Adopt(p)
    /\ UNCHANGED <<tabs, expected, unseen, up, guardClosed, moves>>

Starts ==
    /\ step = "out" /\ Enter /\ step' = (IF up' = "up" THEN "idle" ELSE "over")
    /\ UNCHANGED <<expected, unseen, guardClosed, moves>>

Ends == step = "idle" /\ step' = "over" /\ Exit /\ moves' = 0

PageStep ==
    \/ Still \/ Sweeps \/ Announced \/ TabMoves \/ Goes \/ Adopts \/ OpensAnew \/ AdoptsNewest
    \/ Starts \/ Ends

LEMMA WindowPageStep ==
    ASSUME TypesInv, WindowNext
    PROVE  PageStep
<1> USE DEF InSession, WindowSteps, GraceSteps
<1>0. moves \in Nat
    BY DEF TypesInv, PagesTyped
<1>1. CASE TakeSignals \/ Expire \/ NextLook \/ Unstable \/ Stable \/ Wait \/ Raised
  <2>1. UNCHANGED pageVars /\ InSession /\ InSession'
      BY <1>1 DEF TakeSignals, Expire, Elapse, NextLook, Unstable, Stable, StableNow, Wait, Raised
  <2> QED BY <1>0, <2>1 DEF Still, SameHold, pageVars, PageStep
<1>2. CASE OpenWindow
  <2>1. CASE Open(primary)
      BY <1>2, <2>1 DEF OpenWindow, Sweeps, SameHold, PageStep
  <2>2. CASE ~Open(primary)
      BY <1>0, <1>2, <2>2 DEF OpenWindow, Still, SameHold, PageStep
  <2> QED BY <2>1, <2>2
<1>3. CASE Beat
    BY <1>3 DEF Beat, Sweeps, SameHold, PageStep
<1>4. CASE Finally
    BY <1>4 DEF Finally, WindowClosed, Sweeps, SameHold, PageStep
<1>5. CASE PageGone
  <2>1. CASE win.mode \in People /\ ~win.forced /\ RebindCandidates # {}
      BY <1>5, <2>1 DEF PageGone, Rebind, RebindCandidates, Adopts, PageStep
  <2>2. CASE ~(win.mode \in People /\ ~win.forced /\ RebindCandidates # {})
      BY <1>0, <1>5, <2>2 DEF PageGone, Still, SameHold, PageStep
  <2> QED BY <2>1, <2>2
<1> QED BY <1>1, <1>2, <1>3, <1>4, <1>5 DEF WindowNext

LEMMA GracePageStep ==
    ASSUME TypesInv, GraceNext
    PROVE  PageStep
<1>1. \E to, meta : GraceStep(to, meta) /\ to \in GraceSteps \cup {"idle"}
  <2> USE DEF GraceSteps
  <2>0. AfterProbe(grace.from) \in {"passive", "extras", "guide", "pause"}
      BY DEF AfterProbe, TypesInv, GraceTyped, Graces
  <2>1. CASE Probe
      BY <2>0, <2>1 DEF Probe
  <2>2. CASE Press
      BY <2>0, <2>2 DEF Press
  <2>3. CASE Passive
      BY <2>3 DEF Passive
  <2>4. CASE Again \/ Pause \/ Rest
      BY <2>4 DEF Again, Pause, Rest
  <2>5. CASE Extras
      BY <2>5 DEF Extras
  <2>6. CASE Guide
      BY <2>6 DEF Guide
  <2> QED BY <2>1, <2>2, <2>3, <2>4, <2>5, <2>6 DEF GraceNext
<1>2. step \in GraceSteps
    BY DEF GraceNext, Probe, Press, Passive, Again, Extras, Guide, Pause, Rest, GraceSteps
<1>3. moves \in Nat
    BY DEF TypesInv, PagesTyped
<1> QED BY <1>1, <1>2, <1>3 DEF GraceStep, InSession, Still, SameHold, pageVars, PageStep

LEMMA OutsidePageStep ==
    ASSUME TypesInv, Outside
    PROVE  PageStep
<1> USE DEF InSession, WindowSteps, GraceSteps
<1>1. CASE InterruptEarly \/ Interrupt \/ InterruptFinally \/ Slow \/ Act \/ Reissue
  <2>1. UNCHANGED <<tabs, expected, unseen, guardClosed>> /\ SameHold /\ MoveOn
      BY <1>1 DEF InterruptEarly, Interrupt, InterruptFinally, Slow, Act, Reissue, SameHold
  <2>2. UNCHANGED step \/ (InSession /\ InSession')
      BY <1>1 DEF InterruptEarly, Interrupt, InterruptFinally, Slow, Act, Reissue
  <2>3. moves' \in Nat
      BY <2>1 DEF MoveOn, TypesInv, PagesTyped
  <2> QED BY <2>1, <2>2, <2>3 DEF Still, PageStep
<1>2. CASE Led
    BY <1>2 DEF Outside, Led, TabMoves, PageStep
<1>3. CASE (TabOpens \/ TabCloses \/ PageMissed) /\ UNCHANGED winVars
    BY <1>3 DEF Outside, winVars, TabMoves, PageStep
<1>4. CASE (\E p \in Pages : PageOpened(p)) /\ UNCHANGED winVars
    BY <1>4 DEF Outside, winVars, Announced, PageStep
<1> QED BY <1>1, <1>2, <1>3, <1>4 DEF Outside

LEMMA CallPageStep ==
    ASSUME TypesInv, Enters \/ Goto \/ Window \/ Grace \/ Recover \/ Leave
    PROVE  PageStep
<1> USE DEF InSession, WindowSteps, GraceSteps, Calling
<1>0. moves \in Nat
    BY DEF TypesInv, PagesTyped
<1>1. CASE Enters
    BY <1>1 DEF Enters, Starts, PageStep
<1>2. CASE Goto
    BY <1>2, UrlsKnown DEF Goto, Goes, SameHold, PageStep
<1>3. CASE Window
    BY <1>0, <1>3 DEF Window, BeginWindow, pageVars, Still, SameHold, PageStep
<1>4. CASE Grace
    BY <1>0, <1>4 DEF Grace, BeginGrace, pageVars, Still, SameHold, PageStep
<1>5. CASE Recover
  <2>1. CASE RecoverLive /\ step' = "navigate"
    <3>1. \E p \in OpenPages : Adopt(p)
        BY <2>1, NewestOpen DEF RecoverLive
    <3> QED BY <1>5, <2>1, <3>1 DEF Recover, RecoverLive, Adopts, PageStep
  <2>2. CASE RecoverOpen /\ step' = "opening"
      BY <1>5, <2>2 DEF Recover, OpensAnew, PageStep
  <2>3. CASE RecoverFails /\ UNCHANGED step
      BY <1>0, <1>5, <2>3 DEF Recover, RecoverFails, Still, SameHold, PageStep
  <2> QED BY <1>5, <2>1, <2>2, <2>3 DEF Recover
<1>6. CASE Leave
    BY <1>6 DEF Leave, Ends, PageStep
<1> QED BY <1>1, <1>2, <1>3, <1>4, <1>5, <1>6

LEMMA EveryPageStep ==
    ASSUME TypesInv, [Next]_vars
    PROVE  PageStep
<1> USE DEF InSession, WindowSteps, GraceSteps
<1>1. CASE Announce
    BY <1>1 DEF Announce, winVars, Announced, PageStep
<1>2. CASE RecoverAdopt
    BY <1>2 DEF RecoverAdopt, AdoptsNewest, PageStep
<1>3. CASE RecoverNavigate
  <2>0. moves \in Nat
      BY DEF TypesInv, PagesTyped
  <2>1. CASE UNCHANGED tabs
      BY <1>3, <2>0, <2>1 DEF RecoverNavigate, Still, SameHold, PageStep
  <2>2. CASE tabs' # tabs
      BY <1>3, <2>2, UrlsKnown DEF RecoverNavigate, Goes, SameHold, PageStep
  <2> QED BY <2>1, <2>2
<1>4. CASE UNCHANGED vars
  <2>1. UNCHANGED <<pageVars, step>> /\ moves \in Nat
      BY <1>4 DEF vars, winVars, TypesInv, PagesTyped
  <2> QED BY <2>1 DEF pageVars, Still, SameHold, PageStep
<1> QED BY <1>1, <1>2, <1>3, <1>4, WindowPageStep, GracePageStep, OutsidePageStep, CallPageStep
        DEF Next, Steps

(* A step keeps the types of the pages and what the stage says of them.      *)
LEMMA PagesTypedNext ==
    ASSUME TypesInv, PageStep
    PROVE  PagesTyped'
<1> USE DEF PagesTyped
<1>0. PagesTyped /\ moves \in Nat /\ 0 \in Nat
    BY DEF TypesInv
<1>1. CASE Still
    BY <1>0, <1>1 DEF Still, SameHold
<1>2. CASE Sweeps
    BY <1>0, <1>2, SweepCloses DEF Sweeps, SameHold
<1>3. CASE Announced
  <2>1. PICK p : PageOpened(p)
      BY <1>3 DEF Announced
  <2> QED BY <1>0, <2>1, EventCloses DEF PageOpened
<1>4. CASE TabMoves
  <2>1. CASE PageMissed
      BY <1>0, <2>1 DEF PageMissed
  <2>2. CASE TabOpens
    <3>1. PICK p \in Pages, url \in TabUrls :
              /\ tabs' = [tabs EXCEPT ![p] = [st |-> "open", url |-> url]]
              /\ unseen' = unseen \cup {p}
        BY <2>2 DEF TabOpens
    <3>2. tabs' \in [Pages -> Tab]
        BY <1>0, <3>1, UrlsKnown, OpenedTabs
    <3> QED BY <1>0, <2>2, <3>1, <3>2 DEF TabOpens, MoveOn
  <2>3. CASE TabCloses
    <3>1. PICK p \in OpenPages : tabs' = Closed({p})
        BY <2>3 DEF TabCloses
    <3>2. tabs' \in [Pages -> Tab]
        BY <1>0, <3>1, ClosedTabs
    <3> QED BY <1>0, <2>3, <3>2 DEF TabCloses, MoveOn
  <2>4. CASE TabNavigates
    <3>1. PICK p \in OpenPages, url \in NavUrls : tabs' = [tabs EXCEPT ![p].url = url]
        BY <2>4 DEF TabNavigates
    <3>2. tabs' \in [Pages -> Tab]
        BY <1>0, <3>1, UrlsKnown, LedTabs DEF OpenPages
    <3> QED BY <1>0, <2>4, <3>2 DEF TabNavigates, MoveOn
  <2> QED BY <1>4, <2>1, <2>2, <2>3, <2>4 DEF TabMoves
<1>5. CASE Goes
  <2>1. PICK url \in Urls : tabs' = [tabs EXCEPT ![helpers].url = url]
      BY <1>5 DEF Goes
  <2>2. tabs' \in [Pages -> Tab]
      BY <1>0, <1>5, <2>1, LedTabs DEF Goes, Open
  <2> QED BY <1>0, <1>5, <2>2 DEF Goes, SameHold
<1>6. CASE Adopts \/ AdoptsNewest
    BY <1>0, <1>6 DEF Adopts, AdoptsNewest, Adopt, OpenPages
<1>7. CASE OpensAnew
  <2>1. PICK p \in Pages :
            /\ tabs' = [tabs EXCEPT ![p] = [st |-> "open", url |-> "blank"]]
            /\ unseen' = unseen \cup {p}
      BY <1>7 DEF OpensAnew, RecoverOpen
  <2>2. tabs' \in [Pages -> Tab]
      BY <1>0, <2>1, UrlsKnown, OpenedTabs
  <2> QED BY <1>0, <1>7, <2>1, <2>2 DEF OpensAnew, RecoverOpen
<1>8. CASE Starts
  <2>1. CASE tabs' = [tabs EXCEPT ![1] = [st |-> "open", url |-> "blank"]] /\ up' = "up" /\ Adopt(1)
    <3>1. tabs' \in [Pages -> Tab]
        BY <1>0, <2>1, UrlsKnown, OpenedTabs, PagesFinite
    <3> QED BY <1>0, <1>8, <2>1, <3>1, PagesFinite DEF Starts, Adopt
  <2>2. CASE up' = "leaked" /\ UNCHANGED <<tabs, primary, helpers>>
      BY <1>0, <1>8, <2>2 DEF Starts
  <2> QED BY <1>8, <2>1, <2>2 DEF Starts, Enter
<1>9. CASE Ends
  <2>1. tabs' \in [Pages -> Tab]
      BY <1>0, <1>9, ClosedTabs DEF Ends, Exit
  <2> QED BY <1>0, <1>9, <2>1 DEF Ends, Exit
<1> QED BY <1>1, <1>2, <1>3, <1>4, <1>5, <1>6, <1>7, <1>8, <1>9 DEF PageStep

LEMMA StagedNext ==
    ASSUME TypesInv, PageStep
    PROVE  Staged'
<1> USE DEF InSession, WindowSteps, GraceSteps
<1>0. PagesTyped /\ Staged
    BY DEF TypesInv
<1>1. CASE Still
  <2>1. CASE InSession /\ InSession'
      BY <1>0, <1>1, <2>1 DEF Still, SameHold, Staged
  <2>2. CASE UNCHANGED step
      BY <1>0, <1>1, <2>2 DEF Still, SameHold, Staged, Unborn, OpenPages, Open
  <2> QED BY <1>1, <2>1, <2>2 DEF Still
<1>2. CASE Sweeps
    BY <1>0, <1>2 DEF Sweeps, SameHold, Staged
<1>3. CASE Announced
  <2>1. /\ up = "up" /\ UNCHANGED <<up, primary, helpers, step>>
      BY <1>3 DEF Announced, PageOpened
  <2> QED BY <1>0, <2>1 DEF Staged
<1>4. CASE TabMoves
  <2>1. up = "up" /\ UNCHANGED <<up, primary, helpers, step>>
      BY <1>4 DEF TabMoves, PageMissed, TabOpens, TabCloses, TabNavigates
  <2> QED BY <1>0, <2>1 DEF Staged
<1>5. CASE Goes
    BY <1>0, <1>5 DEF Goes, SameHold, Staged
<1>6. CASE Adopts \/ AdoptsNewest
    BY <1>0, <1>6 DEF Adopts, AdoptsNewest, Adopt, Staged, OpenPages
<1>7. CASE OpensAnew
    BY <1>0, <1>7 DEF OpensAnew, RecoverOpen, Staged
<1>8. CASE Starts
  <2>1. CASE up' = "up" /\ Adopt(1)
      BY <1>8, <2>1, PagesFinite DEF Starts, Adopt, Staged
  <2>2. CASE up' = "leaked" /\ UNCHANGED <<tabs, primary, helpers>>
    <3>1. OpenPages' = {}
        BY <1>0, <1>8, <2>2 DEF Starts, Staged, Unborn, OpenPages, Open
    <3> QED BY <1>8, <2>2, <3>1 DEF Starts, Staged
  <2> QED BY <1>8, <2>1, <2>2 DEF Starts, Enter
<1>9. CASE Ends
  <2>1. tabs' = Closed(OpenPages)
      BY <1>9 DEF Ends, Exit
  <2>2. OpenPages' = {}
    <3>1. \A p \in Pages : tabs'[p].st # "open"
        BY <1>0, <2>1, ClosedTabs DEF OpenPages, Open, PagesTyped
    <3> QED BY <3>1 DEF OpenPages, Open
  <2> QED BY <1>9, <2>2 DEF Ends, Exit, Staged
<1> QED BY <1>1, <1>2, <1>3, <1>4, <1>5, <1>6, <1>7, <1>8, <1>9 DEF PageStep

-----------------------------------------------------------------------------
(* The pages: what closing, leading and opening keep *)

LEMMA ClosingKeeps ==
    ASSUME PagesTyped, NEW S \in SUBSET OpenPages, tabs' = Closed(S)
    PROVE  /\ Unborn' = Unborn /\ OpenPages' = OpenPages \ S
           /\ \A p \in Pages : p \in S \/ tabs[p].st = "closed" => tabs'[p].st = "closed"
<1>1. /\ \A p \in S : p \in Pages /\ tabs[p].st = "open" /\ tabs'[p].st = "closed"
      /\ \A p \in Pages \ S : tabs'[p] = tabs[p]
    BY ClosedTabs DEF PagesTyped, OpenPages, Open
<1>2. Unborn' = Unborn
    BY <1>1 DEF Unborn
<1>3. OpenPages' = OpenPages \ S
    BY <1>1 DEF OpenPages, Open
<1> QED BY <1>1, <1>2, <1>3

LEMMA LeadingKeeps ==
    ASSUME PagesTyped, NEW p \in Pages, NEW url \in Urls, tabs' = [tabs EXCEPT ![p].url = url]
    PROVE  /\ Unborn' = Unborn /\ OpenPages' = OpenPages
           /\ \A q \in Pages : tabs'[q].st = tabs[q].st
<1>1. \A q \in Pages : tabs'[q].st = tabs[q].st
    BY LedTabs DEF PagesTyped
<1> QED BY <1>1 DEF Unborn, OpenPages, Open

LEMMA OpeningKeeps ==
    ASSUME PagesTyped, InOrder, NEW p \in Pages, OpensNext(p), NEW url \in Urls,
           tabs' = [tabs EXCEPT ![p] = [st |-> "open", url |-> url]]
    PROVE  /\ InOrder' /\ OpenPages' = OpenPages \cup {p} /\ Unborn' = Unborn \ {p}
           /\ \A q \in Pages : tabs[q].st = "closed" => tabs'[q].st = "closed"
           /\ \A q \in Pages \ Unborn' : q <= p \/ q \notin Unborn
           /\ \A q \in Pages \ Unborn : q < p
<1>1. tabs'[p].st = "open" /\ \A q \in Pages \ {p} : tabs'[q] = tabs[q]
    BY OpenedTabs DEF PagesTyped
<1>2. tabs[p].st = "unborn" /\ p \in Unborn /\ \A q \in Unborn : p <= q
    BY DEF OpensNext, Unborn
<1>3. Unborn' = Unborn \ {p}
    BY <1>1 DEF Unborn
<1>4. OpenPages' = OpenPages \cup {p}
    BY <1>1 DEF OpenPages, Open
<1>5. \A q \in Pages \ Unborn : q < p
    BY <1>2, PagesFinite DEF InOrder
<1>6. InOrder'
    BY <1>2, <1>3, PagesFinite DEF InOrder
<1> QED BY <1>1, <1>2, <1>3, <1>4, <1>5, <1>6, PagesFinite

(* A guard's step: it closes pages beside the session's own and remembers.   *)
LEMMA GuardKeeps ==
    ASSUME PagesTyped, PagesInv, NEW S \in SUBSET (OpenPages \ {primary}),
           tabs' = Closed(S), guardClosed' = guardClosed \cup S, UNCHANGED primary
    PROVE  InOrder' /\ ClosedForGood' /\ OwnBorn' /\ PrimarySpared'
<1>1. S \in SUBSET OpenPages /\ OpenPages \subseteq Pages /\ guardClosed \subseteq Pages
    BY DEF OpenPages, PagesTyped
<1>2. /\ Unborn' = Unborn
      /\ \A p \in Pages : p \in S \/ tabs[p].st = "closed" => tabs'[p].st = "closed"
    BY <1>1, ClosingKeeps
<1> QED BY <1>1, <1>2 DEF PagesInv, InOrder, ClosedForGood, OwnBorn, PrimarySpared

(* An open page has not been closed by a guard.                              *)
LEMMA OpenSpared ==
    ASSUME ClosedForGood, NEW p \in OpenPages
    PROVE  p \notin guardClosed
BY DEF ClosedForGood, OpenPages, Open

LEMMA PagesInvNext ==
    ASSUME TypesInv, PagesInv, PageStep
    PROVE  PagesInv'
<1> USE DEF InSession, WindowSteps, GraceSteps
<1>0. PagesTyped /\ Staged /\ PagesTyped'
    BY PagesTypedNext DEF TypesInv
<1>1. CASE Still
  <2>1. InOrder' /\ ClosedForGood' /\ OwnBorn' /\ PrimarySpared'
      BY <1>1 DEF Still, SameHold, PagesInv, InOrder, ClosedForGood, OwnBorn, PrimarySpared, Unborn
  <2>2. Opening'
      BY <1>1 DEF Still, SameHold, PagesInv, Opening, OpenPages, Open, Unborn
  <2> QED BY <2>1, <2>2 DEF PagesInv
<1>2. CASE Sweeps
  <2>1. InOrder' /\ ClosedForGood' /\ OwnBorn' /\ PrimarySpared'
      BY <1>0, <1>2, SweepCloses, GuardKeeps DEF Sweeps, SameHold
  <2>2. Opening'
      BY <1>2 DEF Sweeps, Opening
  <2> QED BY <2>1, <2>2 DEF PagesInv
<1>3. CASE Announced
  <2>1. PICK p : PageOpened(p) /\ (step = "opening" => p \in OpenPages)
      BY <1>3 DEF Announced
  <2>2. PICK S \in SUBSET (OpenPages \ {primary}) :
            /\ tabs' = Closed(S) /\ guardClosed' = guardClosed \cup S
            /\ expected > 0 => S = {}
      BY <1>0, <2>1, EventCloses
  <2>3. UNCHANGED <<primary, step>> /\ p \in unseen /\ unseen' = unseen \ {p}
      BY <1>3, <2>1 DEF Announced, PageOpened
  <2>4. InOrder' /\ ClosedForGood' /\ OwnBorn' /\ PrimarySpared'
      BY <1>0, <2>2, <2>3, GuardKeeps
  <2>5. ASSUME step = "opening" PROVE Opening'
    <3>1. PICK r \in OpenPages :
              /\ OpenPages = {r} /\ r # primary
              /\ \A q \in Pages \ Unborn : q <= r
              /\ r \in unseen => expected > 0
        BY <2>5 DEF PagesInv, Opening
    <3>2. p = r /\ S = {}
        BY <2>1, <2>2, <2>3, <2>5, <3>1
    <3>3. S \in SUBSET OpenPages
        BY <2>2
    <3>4. Unborn' = Unborn /\ OpenPages' = OpenPages
        BY <1>0, <2>2, <3>2, <3>3, ClosingKeeps
    <3> QED BY <2>3, <3>1, <3>2, <3>4 DEF Opening
  <2>6. step # "opening" => Opening'
      BY <2>3 DEF Opening
  <2> QED BY <2>4, <2>5, <2>6 DEF PagesInv
<1>4. CASE TabMoves
  <2>0. UNCHANGED primary /\ step' # "opening" /\ UNCHANGED guardClosed
      BY <1>4 DEF TabMoves, PageMissed, TabOpens, TabCloses, TabNavigates
  <2>1. /\ InOrder' /\ Unborn' \subseteq Unborn
        /\ \A q \in Pages : tabs[q].st = "closed" => tabs'[q].st = "closed"
    <3>1. CASE PageMissed
        BY <3>1 DEF PageMissed, PagesInv, InOrder, Unborn
    <3>2. CASE TabOpens
      <4>1. PICK p \in Pages, url \in TabUrls :
                OpensNext(p) /\ tabs' = [tabs EXCEPT ![p] = [st |-> "open", url |-> url]]
          BY <3>2 DEF TabOpens
      <4> QED BY <1>0, <4>1, OpeningKeeps, UrlsKnown DEF PagesInv
    <3>3. CASE TabCloses
      <4>1. PICK p \in OpenPages : tabs' = Closed({p})
          BY <3>3 DEF TabCloses
      <4>2. Unborn' = Unborn /\ \A q \in Pages : tabs[q].st = "closed" => tabs'[q].st = "closed"
          BY <1>0, <4>1, ClosingKeeps
      <4> QED BY <4>2 DEF PagesInv, InOrder
    <3>4. CASE TabNavigates
      <4>1. PICK p \in OpenPages, url \in NavUrls : tabs' = [tabs EXCEPT ![p].url = url]
          BY <3>4 DEF TabNavigates
      <4>2. Unborn' = Unborn /\ \A q \in Pages : tabs'[q].st = tabs[q].st
          BY <1>0, <4>1, LeadingKeeps, UrlsKnown DEF OpenPages
      <4> QED BY <4>2 DEF PagesInv, InOrder
    <3> QED BY <1>4, <3>1, <3>2, <3>3, <3>4 DEF TabMoves
  <2> QED BY <1>0, <2>0, <2>1 DEF PagesInv, PagesTyped, ClosedForGood, OwnBorn, PrimarySpared, Opening
<1>5. CASE Goes
  <2>1. PICK url \in Urls : tabs' = [tabs EXCEPT ![helpers].url = url]
      BY <1>5 DEF Goes
  <2>2. Unborn' = Unborn /\ \A q \in Pages : tabs'[q].st = tabs[q].st
      BY <1>0, <1>5, <2>1, LeadingKeeps DEF Goes, Open
  <2> QED BY <1>0, <1>5, <2>2
        DEF Goes, SameHold, PagesInv, PagesTyped, InOrder, ClosedForGood, OwnBorn, PrimarySpared, Opening
<1>6. CASE Adopts
  <2>1. primary' \notin guardClosed /\ primary' \notin Unborn
      BY <1>6, OpenSpared DEF Adopts, Adopt, PagesInv, OpenPages, Open, Unborn
  <2> QED BY <1>6, <2>1
        DEF Adopts, PagesInv, InOrder, ClosedForGood, OwnBorn, PrimarySpared, Opening, Unborn
<1>7. CASE OpensAnew
  <2>1. PICK p \in Pages :
            /\ OpensNext(p) /\ unseen' = unseen \cup {p}
            /\ tabs' = [tabs EXCEPT ![p] = [st |-> "open", url |-> "blank"]]
      BY <1>7 DEF OpensAnew, RecoverOpen
  <2>2. /\ InOrder' /\ OpenPages' = OpenPages \cup {p} /\ Unborn' = Unborn \ {p}
        /\ \A q \in Pages : tabs[q].st = "closed" => tabs'[q].st = "closed"
        /\ \A q \in Pages \ Unborn' : q <= p \/ q \notin Unborn
        /\ \A q \in Pages \ Unborn : q < p
      BY <1>0, <2>1, OpeningKeeps, UrlsKnown DEF PagesInv
  <2>3. OpenPages = {} /\ expected' = expected + 1 /\ UNCHANGED <<primary, guardClosed>>
      BY <1>7 DEF OpensAnew, RecoverOpen
  <2>4. primary \in Pages /\ p # primary
    <3>1. primary \in Pages \ Unborn
        BY <1>0, <1>7 DEF OpensAnew, Staged, PagesInv, OwnBorn
    <3> QED BY <2>1, <3>1 DEF OpensNext
  <2>5. Opening'
      BY <1>0, <2>1, <2>2, <2>3, <2>4, PagesFinite DEF Opening, PagesTyped
  <2> QED BY <1>0, <2>2, <2>3, <2>5 DEF PagesInv, PagesTyped, ClosedForGood, OwnBorn, PrimarySpared
<1>8. CASE AdoptsNewest
  <2>1. PICK r \in OpenPages : OpenPages = {r} /\ \A q \in Pages \ Unborn : q <= r
      BY <1>8 DEF AdoptsNewest, PagesInv, Opening
  <2>2. PICK p \in Pages \ Unborn : (\A q \in Pages \ Unborn : q <= p) /\ primary' = p
      BY <1>8 DEF AdoptsNewest, Adopt
  <2>3. r \in Pages \ Unborn
      BY DEF OpenPages, Open, Unborn
  <2>4. p = r
      BY <2>1, <2>2, <2>3, PagesFinite
  <2>5. primary' \notin guardClosed /\ primary' \notin Unborn
      BY <2>2, <2>4, OpenSpared DEF PagesInv
  <2> QED BY <1>8, <2>5
        DEF AdoptsNewest, PagesInv, InOrder, ClosedForGood, OwnBorn, PrimarySpared, Opening, Unborn
<1>9. CASE Starts
  <2>0. UNCHANGED guardClosed /\ guardClosed = {} /\ step' # "opening" /\ Unborn = Pages
      BY <1>0, <1>9 DEF Starts, Staged
  <2>1. CASE Adopt(1) /\ tabs' = [tabs EXCEPT ![1] = [st |-> "open", url |-> "blank"]]
    <3>1. OpensNext(1) /\ 1 \in Pages
        BY <2>0, PagesFinite, PagesAssumption DEF OpensNext
    <3>2. InOrder' /\ Unborn' = Unborn \ {1} /\ primary' = 1
        BY <1>0, <2>1, <3>1, OpeningKeeps, UrlsKnown DEF PagesInv, Adopt
    <3> QED BY <2>0, <3>2 DEF PagesInv, ClosedForGood, OwnBorn, PrimarySpared, Opening
  <2>2. CASE UNCHANGED <<tabs, primary, helpers>>
      BY <2>0, <2>2 DEF PagesInv, InOrder, ClosedForGood, OwnBorn, PrimarySpared, Opening, Unborn
  <2> QED BY <1>9, <2>1, <2>2 DEF Starts, Enter
<1>10. CASE Ends
  <2>1. tabs' = Closed(OpenPages) /\ primary' = NoPage /\ UNCHANGED guardClosed /\ step' # "opening"
      BY <1>10 DEF Ends, Exit
  <2>2. /\ Unborn' = Unborn
        /\ \A p \in Pages : tabs[p].st = "closed" => tabs'[p].st = "closed"
    <3>1. OpenPages \in SUBSET OpenPages
        OBVIOUS
    <3> QED BY <1>0, <2>1, <3>1, ClosingKeeps
  <2>3. InOrder' /\ Opening'
      BY <2>1, <2>2 DEF PagesInv, InOrder, Opening
  <2>4. ClosedForGood' /\ guardClosed \subseteq Pages
      BY <1>0, <2>1, <2>2 DEF PagesInv, PagesTyped, ClosedForGood
  <2>5. OwnBorn' /\ PrimarySpared'
      BY <2>1, <2>4, PagesFinite DEF OwnBorn, PrimarySpared, Unborn
  <2> QED BY <2>3, <2>4, <2>5 DEF PagesInv
<1> QED BY <1>1, <1>2, <1>3, <1>4, <1>5, <1>6, <1>7, <1>8, <1>9, <1>10 DEF PageStep

-----------------------------------------------------------------------------
(* The window: its locals at rest, and what an answer of the capture counts *)

LEMMA NoWinTyped ==
    /\ NoWin \in WindowRecord /\ NoWin.counted = 0 /\ NoWin.sample = 0
    /\ NoCapture \in Capture /\ ~NoCapture.on
    /\ NoClock \in Clocks
<1>1. NoCapture \in Capture /\ ~NoCapture.on
    BY DEF NoCapture, Capture
<1>2. NoWin \in WindowRecord /\ NoWin.counted = 0 /\ NoWin.sample = 0
    BY <1>1 DEF NoWin, WindowRecord
<1> QED BY <1>1, <1>2 DEF NoClock, Clocks, Gone

(* The answer of the capture: what has grown since the last one is counted.  *)
LEMMA WinCollects ==
    ASSUME win \in WindowRecord, store \in Nat, NEW w, w = Collected
    PROVE  /\ w \in WindowRecord
           /\ w.left = win.left /\ w.sample = win.sample /\ w.challenged = win.challenged
           /\ w.capture.cursor = win.capture.cursor
           /\ w.capture.prev = store - win.capture.cursor
           /\ w.counted = win.counted \/
                w.counted = win.counted + (store - win.capture.cursor - win.capture.prev)
<1> DEFINE now == store - win.capture.cursor
           more == IF now > win.capture.prev THEN now - win.capture.prev ELSE 0
           c == [win.capture EXCEPT !.prev = now]
<1>1. win.capture \in Capture /\ win.capture.cursor \in Nat /\ win.capture.prev \in Int
      /\ win.counted \in Nat
    BY DEF WindowRecord, Capture
<1>2. now \in Int /\ more \in Nat /\ (more = 0 \/ more = now - win.capture.prev)
    BY <1>1
<1>3. c \in Capture /\ c.cursor = win.capture.cursor /\ c.prev = now
    BY <1>1, <1>2 DEF Capture
<1>4. w = [win EXCEPT !.lastOn = TRUE, !.counted = @ + more, !.capture.prev = now]
    BY DEF Collected
<1>5. w.capture = c
    BY <1>1, <1>4 DEF WindowRecord, Capture
<1>6. /\ w.counted = win.counted + more
      /\ w.left = win.left /\ w.sample = win.sample /\ w.challenged = win.challenged
    BY <1>1, <1>4 DEF WindowRecord
<1>7. w \in WindowRecord
  <2> HIDE DEF now, more, c
  <2>1. win.counted + more \in Nat
      BY <1>1, <1>2
  <2>2. w = [win EXCEPT !.lastOn = TRUE, !.counted = win.counted + more, !.capture = c]
      BY <1>1, <1>4 DEF WindowRecord, c
  <2> QED BY <1>3, <2>1, <2>2 DEF WindowRecord
<1> QED BY <1>1, <1>2, <1>3, <1>5, <1>6, <1>7

-----------------------------------------------------------------------------
(* The window: the steps that are none of its own *)

LEMMA WindowConstants ==
    /\ Duration \in Nat \ {0} /\ Extension \in Nat \ {0} /\ Checks \in Nat \ {0}
    /\ Rounds \in Nat /\ Gone \notin Nat
<1>1. {Duration, Extension, Checks} \subseteq Nat \ {0} /\ Rounds \in Nat
    BY WindowAssumption
<1> QED BY <1>1 DEF Gone

LEMMA Allowances ==
    ASSUME NEW n \in Nat
    PROVE  /\ Allowance(n) \in Nat
           /\ Allowance(n + 1) >= Allowance(n) + (Checks - 2)
           /\ Allowance(n + 1) >= Allowance(n)
<1>1. Most(Checks - 2, 0) \in Nat /\ Most(Checks - 2, 0) >= Checks - 2
    BY WindowConstants DEF Most
<1>2. \A a, b \in Nat : a * b \in Nat /\ (a + 1) * b = a * b + b
    OBVIOUS
<1> QED BY <1>1, <1>2, WindowConstants DEF Allowance

(* A step outside the window neither opens one nor touches its settings.     *)
LEMMA ElsewhereKeeps ==
    ASSUME WindowTyped, WindowInv, store' \in Nat \cup {Gone},
           UNCHANGED <<conf, active, handlers, win, result, acts, clock, escaped>>,
           step \notin WindowSteps, step' \in GraceSteps \cup OtherSteps
    PROVE  WindowTyped' /\ WindowInv'
<1>1. step' \notin WindowSteps
    BY DEF WindowSteps, GraceSteps, OtherSteps
<1>2. WindowTyped'
    BY DEF WindowTyped
<1>3. Held'
    BY <1>1 DEF WindowInv, Held
<1>4. Fresh' /\ Sampling' /\ ClearSince' /\ Pending' /\ Charging' /\ ClearedMeansStable'
    BY <1>1 DEF WindowSteps, Fresh, Sampling, ClearSince, Pending, Charging, ClearedMeansStable
<1> QED BY <1>2, <1>3, <1>4 DEF WindowInv

(* The document of the capture may go at any time.                           *)
LEMMA StoreGoesKeeps ==
    ASSUME WindowTyped, WindowInv, store' \in {store, Gone},
           UNCHANGED <<conf, step, active, handlers, win, result, acts, clock, escaped>>
    PROVE  WindowTyped' /\ WindowInv'
<1>1. WindowTyped'
    BY DEF WindowTyped
<1>2. Held' /\ Fresh' /\ Sampling' /\ ClearSince' /\ ClearedMeansStable'
    BY DEF WindowInv, Held, Fresh, Sampling, ClearSince, ClearedMeansStable
<1>3. Pending'
    BY DEF WindowInv, Pending
<1>4. Charging'
    BY DEF WindowInv, Charging, Overruns, Uncharged
<1> QED BY <1>1, <1>2, <1>3, <1>4 DEF WindowInv

LEMMA BeginWindowKeeps ==
    ASSUME TypesInv, WindowInv, BeginWindow, step = "idle"
    PROVE  WindowTyped' /\ WindowInv'
<1>0. WindowTyped /\ step \notin WindowSteps
    BY DEF TypesInv, WindowSteps
<1>1. CASE UNCHANGED <<step, active, win, clock, result>>
    BY <1>0, <1>1, ElsewhereKeeps DEF BeginWindow, WindowTyped, OtherSteps
<1>2. CASE step' = "locked"
  <2> DEFINE mode(o) == IF o = "" THEN conf.mode ELSE o
             rounds(o) == IF mode(o) \in People THEN Rounds ELSE 0
  <2>0. active' = TRUE /\ clock' = NoClock /\ result' = "open"
      BY <1>2 DEF BeginWindow
  <2>1. \E force \in BOOLEAN, override \in Overrides :
            win' = [NoWin EXCEPT !.mode = mode(override),
                                 !.forced = force /\ conf.lastResort,
                                 !.challenged = Surface(primary),
                                 !.before = Url(primary),
                                 !.rounds = rounds(override)]
      BY <1>2 DEF BeginWindow
  <2>2. \A o \in Overrides : mode(o) \in {"off", "assist", "demo"} /\ rounds(o) \in Nat
      BY <1>0, WindowAssumption DEF WindowTyped
  <2>3. Url(primary) \in Urls \cup {"none"} /\ Surface(primary) \in BOOLEAN
      BY DEF TypesInv, PagesTyped, Url, Surface, Tab
  <2>4. \A force \in BOOLEAN : (force /\ conf.lastResort) \in BOOLEAN
      OBVIOUS
  <2>5. win' \in WindowRecord /\ win'.counted = 0 /\ win'.sample = 0
    <3> HIDE DEF mode, rounds
    <3>1. PICK m \in {"off", "assist", "demo"}, f \in BOOLEAN, n \in Nat :
              win' = [NoWin EXCEPT !.mode = m, !.forced = f, !.challenged = Surface(primary),
                                   !.before = Url(primary), !.rounds = n]
        BY <2>1, <2>2, <2>4
    <3>2. win' \in WindowRecord
        BY <2>3, <3>1, NoWinTyped DEF WindowRecord
    <3>3. win'.counted = 0 /\ win'.sample = 0
        BY <3>1, NoWinTyped DEF WindowRecord
    <3> QED BY <3>2, <3>3
  <2>6. WindowTyped'
    <3>1. UNCHANGED <<conf, handlers, store, acts, escaped>>
        BY DEF BeginWindow
    <3>2. active' = TRUE /\ clock' \in Clocks /\ result' \in Reasons
        BY <2>0, NoWinTyped DEF Reasons
    <3> QED BY <1>0, <1>2, <2>5, <3>1, <3>2 DEF WindowTyped, WindowSteps
  <2>7. Fresh'
      BY <2>0, <2>5 DEF Fresh
  <2>8. Held' /\ Sampling' /\ ClearSince' /\ Pending' /\ Charging' /\ ClearedMeansStable'
      BY <1>2 DEF Held, WindowSteps, Sampling, ClearSince, Pending, Charging, ClearedMeansStable
  <2> QED BY <2>6, <2>7, <2>8 DEF WindowInv
<1> QED BY <1>1, <1>2 DEF BeginWindow

(* A step that leaves the heartbeats, for the end of the window or for the   *)
(* place from which it is reached.                                           *)
LEMMA LeavingKeeps ==
    ASSUME WindowTyped, WindowInv, win' \in WindowRecord, result' \in Reasons,
           UNCHANGED <<conf, active, handlers, store, acts, clock, escaped>>,
           step' \in {"raised", "finally"},
           step' = "finally" => result' # "manual_challenge_cleared"
    PROVE  WindowTyped' /\ WindowInv'
<1>1. WindowTyped'
    BY DEF WindowTyped, WindowSteps
<1>2. Held' /\ Fresh' /\ Sampling' /\ ClearSince' /\ Pending' /\ Charging' /\ ClearedMeansStable'
    BY DEF Held, WindowSteps, Fresh, Sampling, ClearSince, Pending, Charging, ClearedMeansStable
<1> QED BY <1>1, <1>2 DEF WindowInv

(* A step to another heartbeat, whose account has to be drawn up again.      *)
LEMMA HeartbeatKeeps ==
    ASSUME WindowTyped, win' \in WindowRecord, clock' \in Clocks, result' \in Reasons,
           store' \in Nat \cup {Gone}, acts' \in Nat,
           UNCHANGED <<conf, active, handlers, escaped>>,
           step' \in {"beat", "probe", "wait"},
           Sampling', ClearSince', Pending', Charging'
    PROVE  WindowTyped' /\ WindowInv'
<1>1. WindowTyped'
    BY DEF WindowTyped, WindowSteps
<1>2. Held' /\ Fresh' /\ ClearedMeansStable'
    BY DEF Held, WindowSteps, Fresh, ClearedMeansStable
<1> QED BY <1>1, <1>2 DEF WindowInv

(* The fields of the window and of its clock, for arithmetic.                *)
LEMMA WindowFields ==
    ASSUME WindowTyped
    PROVE  /\ win \in WindowRecord /\ clock \in Clocks
           /\ win.left \in Nat /\ win.sample \in Nat /\ win.counted \in Nat
           /\ win.rounds \in Nat /\ win.reissues \in Nat
           /\ win.capture \in Capture /\ win.capture.on \in BOOLEAN
           /\ win.capture.cursor \in Nat /\ win.capture.prev \in Int
           /\ clock.spent \in Nat /\ clock.granted \in Nat /\ clock.grants \in Nat
           /\ clock.slow \in Nat /\ clock.rebinds \in Nat /\ Uncharged \in Nat
           /\ clock.clear \in Nat \cup {Gone}
           /\ acts \in Nat /\ store \in Nat \cup {Gone} /\ result \in Reasons
<1>1. win \in WindowRecord /\ clock \in Clocks
    BY DEF WindowTyped
<1>2. win.capture \in Capture
    BY <1>1 DEF WindowRecord
<1>3. clock.slow \in Nat /\ clock.rebinds \in Nat
    BY <1>1 DEF Clocks
<1>4. Uncharged \in Nat
    BY <1>3 DEF Uncharged, Waiting
<1> QED BY <1>1, <1>2, <1>3, <1>4 DEF WindowTyped, WindowRecord, Capture, Clocks

-----------------------------------------------------------------------------
(* The window: from the lock to the first heartbeat *)

LEMMA TakeSignalsKeeps ==
    ASSUME WindowTyped, WindowInv, TakeSignals
    PROVE  WindowTyped' /\ WindowInv'
<1> USE DEF TakeSignals
<1>1. WindowTyped'
    BY DEF WindowTyped, WindowSteps
<1>2. Fresh'
    BY DEF WindowInv, Fresh
<1>3. Held' /\ Sampling' /\ ClearSince' /\ Pending' /\ Charging' /\ ClearedMeansStable'
    BY DEF Held, WindowSteps, Sampling, ClearSince, Pending, Charging, ClearedMeansStable
<1> QED BY <1>1, <1>2, <1>3 DEF WindowInv

LEMMA InterruptEarlyKeeps ==
    ASSUME WindowTyped, WindowInv, InterruptEarly
    PROVE  WindowTyped' /\ WindowInv'
<1> USE DEF InterruptEarly
<1>1. WindowTyped'
    BY NoWinTyped DEF WindowTyped, OtherSteps, Reasons
<1>2. Held' /\ Fresh' /\ Sampling' /\ ClearSince' /\ Pending' /\ Charging' /\ ClearedMeansStable'
    BY DEF Held, WindowSteps, Fresh, Sampling, ClearSince, Pending, Charging, ClearedMeansStable
<1> QED BY <1>1, <1>2 DEF WindowInv

LEMMA CaptureStarts ==
    ASSUME store \in Nat \cup {Gone}
    PROVE  /\ Captured \in Capture /\ Captured.cursor = Stored /\ Captured.prev = 0
           /\ Stored \in Nat
<1>1. Stored \in Nat
    BY WindowConstants DEF Stored
<1> QED BY <1>1 DEF Captured, Capture, Stored

LEMMA OpenWindowKeeps ==
    ASSUME WindowTyped, WindowInv, OpenWindow
    PROVE  WindowTyped' /\ WindowInv'
<1>1. UNCHANGED <<conf, active, handlers, result, acts, escaped>> /\ step = "armed"
    BY DEF OpenWindow
<1>2. clock = NoClock /\ win.counted = 0 /\ win.sample = 0
    BY <1>1 DEF WindowInv, Fresh
<1>3. CASE Open(primary)
  <2> DEFINE c == IF win.mode \in People THEN Captured ELSE NoCapture
  <2>1. /\ step' = "beat" /\ win' = [win EXCEPT !.left = Duration, !.capture = c]
        /\ store' = (IF win.mode \in People THEN Stored ELSE store)
        /\ clock' = [clock EXCEPT !.granted = Duration, !.grants = 1]
      BY <1>3 DEF OpenWindow
  <2>2. c \in Capture /\ store' \in Nat \cup {Gone}
      BY <2>1, CaptureStarts, NoWinTyped, WindowFields
  <2>3. c.on => store' = c.cursor /\ c.prev = 0
      BY <2>1, CaptureStarts, NoWinTyped, WindowFields
  <2> HIDE DEF c
  <2>4. Duration \in Nat /\ Duration > 0
      BY WindowConstants
  <2>5. /\ win' \in WindowRecord /\ win'.left = Duration /\ win'.capture = c
        /\ win'.counted = 0 /\ win'.sample = 0
    <3>1. win \in WindowRecord
        BY WindowFields
    <3> QED BY <1>2, <2>1, <2>2, <2>4, <3>1 DEF WindowRecord
  <2>6. /\ clock' \in Clocks /\ clock'.granted = Duration /\ clock'.grants = 1
        /\ clock'.spent = 0 /\ Uncharged' = 0
    <3>1. NoClock.spent = 0 /\ NoClock.slow = 0 /\ NoClock.rebinds = 0
        BY DEF NoClock
    <3>2. clock \in Clocks
        BY WindowFields
    <3>3. /\ clock' \in Clocks /\ clock'.granted = Duration /\ clock'.grants = 1
          /\ clock'.spent = 0 /\ clock'.slow = 0 /\ clock'.rebinds = 0
        BY <1>2, <2>1, <2>4, <3>1, <3>2 DEF Clocks
    <3>4. Uncharged' = 0
        BY <3>3 DEF Uncharged, Waiting
    <3> QED BY <3>3, <3>4
  <2>7. Sampling' /\ ClearSince'
      BY <2>1, <2>5 DEF Sampling, ClearSince
  <2>8. Pending'
    <3>1. c.on \in BOOLEAN /\ c.cursor \in Nat /\ c.prev \in Int /\ acts \in Nat
        BY <2>2, WindowFields DEF Capture
    <3>2. win'.counted <= acts'
        BY <1>1, <2>5, <3>1
    <3>3. win'.capture.on =>
            win'.counted + (store' - win'.capture.cursor - win'.capture.prev) <= acts'
        BY <1>1, <2>3, <2>5, <3>1
    <3> QED BY <3>2, <3>3 DEF Pending
  <2>9. Charging'
    <3>1. Overruns' = 0
        BY <2>4, <2>5, <2>6 DEF Overruns
    <3>2. Allowance(0) \in Nat
        BY Allowances
    <3>3. Allowance(Overruns)' \in Nat
        BY <3>1, <3>2
    <3> QED BY <2>4, <2>5, <2>6, <3>3 DEF Charging
  <2> QED BY <1>1, <2>1, <2>2, <2>5, <2>6, <2>7, <2>8, <2>9, HeartbeatKeeps, WindowFields
<1>4. CASE ~Open(primary)
    BY <1>1, <1>4, LeavingKeeps, WindowFields DEF OpenWindow
<1> QED BY <1>3, <1>4

(* The end of the time: a grant that has been overrun gives way to the next. *)
LEMMA ExpireKeeps ==
    ASSUME WindowTyped, WindowInv, Expire
    PROVE  WindowTyped' /\ WindowInv'
<1>1. UNCHANGED <<conf, active, handlers, store, acts, escaped>> /\ step = "beat" /\ win.left = 0
    BY DEF Expire
<1>2. CASE Extends
  <2>0. win \in WindowRecord /\ clock \in Clocks /\ win.rounds \in Nat /\ win.rounds > 0
        /\ clock.spent \in Nat /\ clock.granted \in Nat /\ clock.grants \in Nat
        /\ Uncharged \in Nat
      BY <1>2, WindowFields DEF Extends
  <2>1. /\ step' = "beat" /\ win' = [win EXCEPT !.rounds = win.rounds - 1, !.left = Extension]
        /\ clock' = [clock EXCEPT !.granted = clock.granted + Extension,
                                  !.grants = clock.grants + 1]
        /\ UNCHANGED result
      BY <1>1, <1>2 DEF Expire
  <2>2. Extension \in Nat /\ Extension > 0 /\ win.rounds - 1 \in Nat
        /\ clock.granted + Extension \in Nat /\ clock.grants + 1 \in Nat
      BY <2>0, WindowConstants
  <2>3. /\ win' \in WindowRecord /\ win'.left = Extension /\ win'.sample = win.sample
        /\ win'.counted = win.counted /\ win'.capture = win.capture
      BY <2>0, <2>1, <2>2 DEF WindowRecord
  <2>4. /\ clock' \in Clocks /\ clock'.granted = clock.granted + Extension
        /\ clock'.grants = clock.grants + 1 /\ clock'.spent = clock.spent
        /\ Uncharged' = Uncharged
      BY <2>0, <2>1, <2>2 DEF Clocks, Uncharged
  <2>5. Sampling' /\ ClearSince' /\ win.sample = 0
      BY <1>1, <2>1, <2>3 DEF WindowInv, Sampling, ClearSince
  <2>6. Pending'
      BY <1>1, <2>1, <2>3 DEF WindowInv, Pending
  <2>7. Charging'
    <3>1. Overruns' = clock.grants /\ Overruns = clock.grants
        BY <1>1, <2>0, <2>2, <2>3, <2>4 DEF Overruns
    <3>2. Allowance(clock.grants) \in Nat
        BY <2>0, Allowances
    <3>3. clock.spent <= clock.granted + Allowance(clock.grants) + Uncharged
        BY <1>1, <2>0, <2>5, <3>1, <3>2 DEF WindowInv, Charging
    <3>4. Allowance(Overruns)' = Allowance(clock.grants)
        BY <3>1
    <3> QED BY <2>0, <2>2, <2>3, <2>4, <2>5, <3>2, <3>3, <3>4 DEF Charging
  <2> QED BY <1>1, <2>1, <2>3, <2>4, <2>5, <2>6, <2>7, HeartbeatKeeps, WindowFields
<1>3. CASE ~Extends
  <2>1. step' = "finally" /\ result' = "manual_window_elapsed" /\ UNCHANGED <<win, clock>>
      BY <1>3 DEF Expire, Elapse
  <2> QED BY <1>1, <2>1, LeavingKeeps, WindowFields DEF Reasons
<1> QED BY <1>2, <1>3

-----------------------------------------------------------------------------
(* The window: the heartbeat and what it counts *)

(* Whatever the capture answers, nothing is counted that has not been done.  *)
LEMMA CapturingCounts ==
    ASSUME WindowTyped, WindowInv, step = "beat", Capturing, UNCHANGED acts
    PROVE  /\ win' \in WindowRecord /\ store' \in Nat \cup {Gone}
           /\ win'.left = win.left /\ win'.sample = win.sample
           /\ win'.challenged = win.challenged
           /\ win'.counted <= acts
           /\ win'.capture.on /\ store' # Gone =>
                win'.counted + (store' - win'.capture.cursor - win'.capture.prev) <= acts
<1>0. /\ win.counted <= acts
      /\ win.capture.on /\ store # Gone =>
           win.counted + (store - win.capture.cursor - win.capture.prev) <= acts
    BY DEF WindowInv, Pending
<1>1. /\ win \in WindowRecord /\ store \in Nat \cup {Gone} /\ acts \in Nat
      /\ win.counted \in Nat /\ win.capture.cursor \in Nat /\ win.capture.prev \in Int
    BY WindowFields
<1>2. CASE Collectable /\ win' = Collected /\ UNCHANGED store
  <2>1. win.capture.on /\ store \in Nat /\ store # Gone
      BY <1>1, <1>2 DEF Collectable
  <2>2. /\ win' \in WindowRecord
        /\ win'.left = win.left /\ win'.sample = win.sample /\ win'.challenged = win.challenged
        /\ win'.capture.cursor = win.capture.cursor
        /\ win'.capture.prev = store - win.capture.cursor
        /\ win'.counted = win.counted \/
             win'.counted = win.counted + (store - win.capture.cursor - win.capture.prev)
      BY <1>1, <1>2, <2>1, WinCollects
  <2>3. win'.counted <= acts /\ win'.counted \in Int
      BY <1>0, <1>1, <2>1, <2>2
  <2>4. win'.counted + (store' - win'.capture.cursor - win'.capture.prev) = win'.counted
      BY <1>1, <1>2, <2>1, <2>2, <2>3
  <2> QED BY <1>1, <1>2, <2>2, <2>3, <2>4
<1>3. CASE win' = Rearmed /\ store' = Stored
  <2>1. Captured \in Capture /\ Captured.cursor = store' /\ Captured.prev = 0 /\ store' \in Nat
      BY <1>1, <1>3, CaptureStarts
  <2>2. win' = [win EXCEPT !.lastOn = TRUE, !.capture = Captured]
      BY <1>3 DEF Rearmed
  <2> HIDE <1>3
  <2>3. /\ win' \in WindowRecord /\ win'.capture = Captured /\ win'.counted = win.counted
        /\ win'.left = win.left /\ win'.sample = win.sample
        /\ win'.challenged = win.challenged
      BY <1>1, <2>1, <2>2 DEF WindowRecord
  <2>4. win'.counted + (store' - win'.capture.cursor - win'.capture.prev) = win.counted
      BY <1>1, <2>1, <2>3
  <2> QED BY <1>0, <1>1, <2>1, <2>3, <2>4
<1>4. CASE win' = [win EXCEPT !.lastOn = FALSE] /\ UNCHANGED store
  <2>1. /\ win' \in WindowRecord /\ win'.capture = win.capture /\ win'.counted = win.counted
        /\ win'.left = win.left /\ win'.sample = win.sample
        /\ win'.challenged = win.challenged
      BY <1>1, <1>4 DEF WindowRecord
  <2> QED BY <1>0, <1>1, <1>4, <2>1
<1> QED BY <1>2, <1>3, <1>4 DEF Capturing

LEMMA BeatKeeps ==
    ASSUME WindowTyped, WindowInv, Beat
    PROVE  WindowTyped' /\ WindowInv'
<1>1. /\ UNCHANGED <<conf, active, handlers, result, acts, escaped>>
      /\ step = "beat" /\ win.left > 0 /\ Capturing
    BY DEF Beat
<1>2. /\ win' \in WindowRecord /\ store' \in Nat \cup {Gone}
      /\ win'.left = win.left /\ win'.sample = win.sample
      /\ win'.counted <= acts
      /\ win'.capture.on /\ store' # Gone =>
           win'.counted + (store' - win'.capture.cursor - win'.capture.prev) <= acts
    BY <1>1, CapturingCounts
<1>3. /\ step' \in {"probe", "wait"}
      /\ \/ step' = "probe" /\ clock' = [clock EXCEPT !.clear = clock.spent]
         \/ step' = "wait" /\ UNCHANGED clock
    BY DEF Beat
<1>4. /\ clock' \in Clocks /\ clock'.granted = clock.granted /\ clock'.grants = clock.grants
      /\ clock'.spent = clock.spent /\ Uncharged' = Uncharged
      /\ step' = "probe" => clock'.clear = clock.spent
  <2>1. clock \in Clocks /\ clock.spent \in Nat
      BY WindowFields
  <2>2. CASE step' = "probe" /\ clock' = [clock EXCEPT !.clear = clock.spent]
      BY <2>1, <2>2 DEF Clocks, Uncharged
  <2>3. CASE step' = "wait" /\ UNCHANGED clock
      BY <2>1, <2>3 DEF Uncharged
  <2> QED BY <1>3, <2>2, <2>3
<1>5. win.sample = 0
    BY <1>1 DEF WindowInv, Sampling
<1>6. Sampling'
    BY <1>1, <1>2, <1>3, <1>5, WindowConstants DEF Sampling
<1>7. ClearSince'
    BY <1>2, <1>3, <1>4, <1>5, WindowConstants, WindowFields DEF ClearSince
<1>8. Pending'
    BY <1>1, <1>2 DEF Pending
<1>9. Charging'
  <2>1. Overruns' = Overruns
      BY <1>2, <1>4 DEF Overruns
  <2>2. Allowance(Overruns)' = Allowance(Overruns)
      BY <2>1
  <2> QED BY <1>1, <1>2, <1>4, <2>2 DEF WindowInv, Charging
<1> QED BY <1>1, <1>2, <1>3, <1>4, <1>6, <1>7, <1>8, <1>9, HeartbeatKeeps, WindowFields

LEMMA SlowKeeps ==
    ASSUME WindowTyped, WindowInv, Slow
    PROVE  WindowTyped' /\ WindowInv'
<1>1. /\ UNCHANGED <<conf, step, active, handlers, win, result, store, acts, escaped>>
      /\ step = "beat"
      /\ clock' = [clock EXCEPT !.spent = clock.spent + 1, !.slow = clock.slow + 1]
    BY DEF Slow
<1>2. /\ clock \in Clocks /\ win.left \in Nat /\ win.sample \in Nat
      /\ clock.spent \in Nat /\ clock.granted \in Nat /\ clock.grants \in Nat
      /\ clock.slow \in Nat /\ clock.rebinds \in Nat /\ Uncharged \in Nat
    BY WindowFields
<1>3. /\ clock' \in Clocks /\ clock'.spent = clock.spent + 1
      /\ Uncharged' = Uncharged + 1
      /\ clock'.granted = clock.granted /\ clock'.grants = clock.grants
  <2>1. clock.spent + 1 \in Nat /\ clock.slow + 1 \in Nat
      BY <1>2
  <2>2. /\ clock' \in Clocks /\ clock'.spent = clock.spent + 1
        /\ clock'.slow = clock.slow + 1 /\ clock'.rebinds = clock.rebinds
        /\ clock'.granted = clock.granted /\ clock'.grants = clock.grants
      BY <1>1, <1>2, <2>1 DEF Clocks
  <2>3. Uncharged' = Uncharged + 1
      BY <1>2, <2>2 DEF Uncharged, Waiting
  <2> QED BY <2>2, <2>3
<1>4. Sampling' /\ ClearSince' /\ Pending'
    BY <1>1 DEF WindowInv, Sampling, ClearSince, Pending
<1>5. Charging'
  <2>1. Overruns' = Overruns
      BY <1>1, <1>3 DEF Overruns
  <2>2. Allowance(Overruns)' = Allowance(Overruns) /\ Allowance(Overruns) \in Nat
    <3>1. Overruns \in Nat
        BY <1>1, <1>2 DEF WindowInv, Charging, Overruns
    <3> QED BY <2>1, <3>1, Allowances
  <2>3. /\ clock.grants > 0
        /\ clock.spent + win.left - win.sample
             <= clock.granted + Allowance(Overruns) + Uncharged
      BY <1>1 DEF WindowInv, Charging
  <2>4. clock.spent + 1 + win.left - win.sample
          <= clock.granted + Allowance(Overruns) + (Uncharged + 1)
      BY <1>2, <2>2, <2>3
  <2>5. clock'.spent + win'.left - win'.sample
          <= clock'.granted + Allowance(Overruns)' + Uncharged'
      BY <1>1, <1>3, <2>2, <2>4
  <2> QED BY <1>3, <2>3, <2>5 DEF Charging
<1> QED BY <1>1, <1>3, <1>4, <1>5, HeartbeatKeeps, WindowFields

-----------------------------------------------------------------------------
(* The window: the probe and what it is charged *)

LEMMA NextLookKeeps ==
    ASSUME WindowTyped, WindowInv, NextLook
    PROVE  WindowTyped' /\ WindowInv'
<1>1. /\ UNCHANGED <<conf, step, active, handlers, result, store, acts, escaped>>
      /\ step = "probe" /\ win.sample + 1 < Checks
      /\ win' = [win EXCEPT !.sample = win.sample + 1]
      /\ clock' = [clock EXCEPT !.spent = clock.spent + 1]
    BY DEF NextLook
<1>2. /\ win \in WindowRecord /\ clock \in Clocks /\ win.sample \in Nat /\ win.left \in Nat
      /\ clock.spent \in Nat /\ clock.clear \in Nat \cup {Gone}
      /\ clock.granted \in Nat /\ clock.grants \in Nat /\ Uncharged \in Nat
    BY WindowFields
<1>3. /\ win' \in WindowRecord /\ win'.sample = win.sample + 1 /\ win'.left = win.left
      /\ win'.counted = win.counted /\ win'.capture = win.capture
    BY <1>1, <1>2 DEF WindowRecord
<1>4. /\ clock' \in Clocks /\ clock'.spent = clock.spent + 1 /\ clock'.clear = clock.clear
      /\ clock'.granted = clock.granted /\ clock'.grants = clock.grants
      /\ Uncharged' = Uncharged
    BY <1>1, <1>2 DEF Clocks, Uncharged
<1>5. Sampling'
    BY <1>1, <1>3 DEF WindowInv, Sampling
<1>6. ClearSince'
  <2>1. clock.clear # Gone /\ clock.spent - clock.clear >= win.sample
      BY <1>1 DEF WindowInv, ClearSince
  <2>2. clock.clear \in Nat
      BY <1>2, <2>1
  <2>3. clock.spent + 1 - clock.clear >= win.sample + 1
      BY <1>2, <2>1, <2>2
  <2>4. clock'.spent - clock'.clear >= win'.sample
      BY <1>2, <1>3, <1>4, <2>2, <2>3
  <2>5. clock'.clear # Gone
      BY <1>4, <2>1
  <2> QED BY <2>4, <2>5 DEF ClearSince, Gone
<1>7. Pending'
    BY <1>1, <1>3 DEF WindowInv, Pending
<1>8. Charging'
  <2>1. Overruns' = Overruns
      BY <1>3, <1>4 DEF Overruns
  <2>2. Allowance(Overruns)' = Allowance(Overruns)
      BY <2>1
  <2>3. clock'.spent + win'.left - win'.sample = clock.spent + win.left - win.sample
      BY <1>2, <1>3, <1>4
  <2> QED BY <1>1, <1>4, <2>2, <2>3 DEF WindowInv, Charging
<1> QED BY <1>1, <1>3, <1>4, <1>5, <1>6, <1>7, <1>8, HeartbeatKeeps, WindowFields

(* What the probe took is taken off: what it took beyond the end of a grant  *)
(* is what a grant may be overrun by.                                        *)
LEMMA ProbeCharged ==
    ASSUME WindowTyped, WindowInv, step = "probe", win'.left = Charged(win.sample),
           win'.sample = 0, UNCHANGED <<clock.spent, clock.granted, clock.grants, Uncharged>>
    PROVE  /\ clock'.grants > 0
           /\ clock'.spent + win'.left - win'.sample
                <= clock'.granted + Allowance(Overruns') + Uncharged'
<1>0. /\ win.sample \in Nat /\ win.left \in Nat
      /\ clock.spent \in Nat /\ clock.granted \in Nat /\ clock.grants \in Nat
      /\ Uncharged \in Nat
    BY WindowFields
<1>1. win.left > 0 /\ win.sample < Checks
    BY DEF WindowInv, Sampling
<1>2. /\ clock.grants > 0
      /\ clock.spent + win.left - win.sample
           <= clock.granted + Allowance(clock.grants - 1) + Uncharged
    BY <1>0, <1>1 DEF WindowInv, Charging, Overruns
<1>3. clock.grants - 1 \in Nat
    BY <1>0, <1>2
<1>4. /\ Allowance(clock.grants - 1) \in Nat /\ Allowance(clock.grants) \in Nat
      /\ Allowance(clock.grants) >= Allowance(clock.grants - 1) + (Checks - 2)
      /\ Allowance(clock.grants) >= Allowance(clock.grants - 1)
  <2>1. (clock.grants - 1) + 1 = clock.grants
      BY <1>0
  <2> QED BY <1>0, <1>3, <2>1, Allowances
<1>5. CASE win.sample < win.left
  <2>1. win'.left = win.left - win.sample /\ win'.left > 0
      BY <1>0, <1>5 DEF Charged
  <2>2. Overruns' = clock.grants - 1
      BY <2>1 DEF Overruns
  <2> QED BY <1>0, <1>2, <1>4, <2>1, <2>2
<1>6. CASE ~(win.sample < win.left)
  <2>1. win'.left = 0
      BY <1>0, <1>6 DEF Charged
  <2>2. Overruns' = clock.grants
      BY <2>1 DEF Overruns
  <2>3. clock.spent <= clock.granted + Allowance(clock.grants) + Uncharged
      BY <1>0, <1>1, <1>2, <1>4, <1>6, WindowConstants
  <2>4. clock'.spent + win'.left - win'.sample = clock.spent
      BY <1>0, <2>1
  <2>5. Allowance(Overruns') = Allowance(clock.grants)
      BY <2>2
  <2> QED BY <1>2, <2>3, <2>4, <2>5
<1> QED BY <1>5, <1>6

LEMMA ChargedTyped ==
    ASSUME WindowTyped
    PROVE  Charged(win.sample) \in Nat
BY WindowFields DEF Charged

LEMMA UnstableKeeps ==
    ASSUME WindowTyped, WindowInv, Unstable
    PROVE  WindowTyped' /\ WindowInv'
<1>1. /\ UNCHANGED <<conf, active, handlers, result, store, acts, escaped>>
      /\ step = "probe" /\ step' = "beat"
      /\ win' = [win EXCEPT !.left = Charged(win.sample), !.sample = 0]
      /\ clock' = [clock EXCEPT !.clear = Gone]
    BY DEF Unstable
<1>2. win \in WindowRecord /\ clock \in Clocks /\ Charged(win.sample) \in Nat
    BY WindowFields, ChargedTyped
<1>3. /\ win' \in WindowRecord /\ win'.left = Charged(win.sample) /\ win'.sample = 0
      /\ win'.counted = win.counted /\ win'.capture = win.capture
    BY <1>1, <1>2 DEF WindowRecord
<1>4. /\ clock' \in Clocks
      /\ UNCHANGED <<clock.spent, clock.granted, clock.grants, Uncharged>>
    BY <1>1, <1>2 DEF Clocks, Uncharged
<1>5. Sampling' /\ ClearSince'
    BY <1>1, <1>3 DEF Sampling, ClearSince
<1>6. Pending'
    BY <1>1, <1>3 DEF WindowInv, Pending
<1>7. Charging'
    BY <1>1, <1>3, <1>4, ProbeCharged DEF Charging
<1> QED BY <1>1, <1>3, <1>4, <1>5, <1>6, <1>7, HeartbeatKeeps, WindowFields

LEMMA StableKeeps ==
    ASSUME WindowTyped, WindowInv, Stable
    PROVE  WindowTyped' /\ WindowInv'
<1>1. /\ UNCHANGED <<conf, active, handlers, store, acts, clock, escaped>>
      /\ step = "probe" /\ win.sample + 1 = Checks
    BY DEF Stable, StableNow
<1>2. win \in WindowRecord /\ clock \in Clocks /\ Charged(win.sample) \in Nat
    BY WindowFields, ChargedTyped
<1>3. CASE win.mode = "demo"
  <2>1. /\ step' = "beat" /\ UNCHANGED result
        /\ win' = [win EXCEPT !.left = Charged(win.sample), !.sample = 0,
                              !.challenged = FALSE]
      BY <1>3 DEF Stable
  <2>2. /\ win' \in WindowRecord /\ win'.left = Charged(win.sample) /\ win'.sample = 0
        /\ win'.counted = win.counted /\ win'.capture = win.capture
      BY <1>2, <2>1 DEF WindowRecord
  <2>3. Sampling' /\ ClearSince'
      BY <2>1, <2>2 DEF Sampling, ClearSince
  <2>4. Pending'
      BY <1>1, <2>1, <2>2 DEF WindowInv, Pending
  <2>6. UNCHANGED <<clock.spent, clock.granted, clock.grants, Uncharged>>
      BY <1>1 DEF Uncharged
  <2>5. Charging'
      BY <1>1, <2>2, <2>6, ProbeCharged DEF Charging
  <2> QED BY <1>1, <1>2, <2>1, <2>2, <2>3, <2>4, <2>5, HeartbeatKeeps, WindowFields
<1>4. CASE win.mode # "demo"
  <2>1. /\ step' = "finally" /\ result' = "manual_challenge_cleared"
        /\ win' = [win EXCEPT !.left = Charged(win.sample), !.sample = 0]
      BY <1>4 DEF Stable
  <2>2. win' \in WindowRecord
      BY <1>2, <2>1 DEF WindowRecord
  <2>3. WindowTyped'
      BY <1>1, <2>1, <2>2 DEF WindowTyped, WindowSteps, Reasons
  <2>4. ClearedMeansStable'
    <3>1. clock.clear # Gone /\ clock.spent - clock.clear >= win.sample
        BY <1>1 DEF WindowInv, ClearSince
    <3>2. win.sample = Checks - 1
        BY <1>1, WindowFields, WindowConstants
    <3> QED BY <1>1, <3>1, <3>2 DEF ClearedMeansStable
  <2>5. Held' /\ Fresh' /\ Sampling' /\ ClearSince' /\ Pending' /\ Charging'
      BY <2>1 DEF Held, WindowSteps, Fresh, Sampling, ClearSince, Pending, Charging
  <2> QED BY <2>3, <2>4, <2>5 DEF WindowInv
<1> QED BY <1>3, <1>4

LEMMA WaitKeeps ==
    ASSUME WindowTyped, WindowInv, Wait
    PROVE  WindowTyped' /\ WindowInv'
<1>1. /\ UNCHANGED <<conf, active, handlers, result, store, acts, escaped>>
      /\ step = "wait" /\ step' = "beat"
      /\ win' = [win EXCEPT !.left = win.left - WaitUnits]
      /\ clock' = [clock EXCEPT !.spent = clock.spent + WaitUnits]
    BY DEF Wait
<1>2. /\ win \in WindowRecord /\ clock \in Clocks /\ win.sample \in Nat /\ win.left \in Nat
      /\ clock.spent \in Nat /\ clock.granted \in Nat /\ clock.grants \in Nat
      /\ Uncharged \in Nat
    BY WindowFields
<1>3. WaitUnits \in Nat /\ win.left - WaitUnits \in Nat /\ clock.spent + WaitUnits \in Nat
    BY <1>2 DEF WaitUnits, Waiting
<1>4. /\ win' \in WindowRecord /\ win'.left = win.left - WaitUnits
      /\ win'.sample = win.sample /\ win'.counted = win.counted /\ win'.capture = win.capture
    BY <1>1, <1>2, <1>3 DEF WindowRecord
<1>5. /\ clock' \in Clocks /\ clock'.spent = clock.spent + WaitUnits
      /\ clock'.granted = clock.granted /\ clock'.grants = clock.grants
      /\ Uncharged' = Uncharged
    BY <1>1, <1>2, <1>3 DEF Clocks, Uncharged
<1>6. win.sample = 0 /\ win.left > 0
    BY <1>1 DEF WindowInv, Sampling
<1>7. Sampling' /\ ClearSince'
    BY <1>1, <1>4, <1>6 DEF Sampling, ClearSince
<1>8. Pending'
    BY <1>1, <1>4 DEF WindowInv, Pending
<1>9. Charging'
  <2>1. /\ clock.grants > 0
        /\ clock.spent + win.left - win.sample
             <= clock.granted + Allowance(clock.grants - 1) + Uncharged
      BY <1>1, <1>2, <1>6 DEF WindowInv, Charging, Overruns
  <2>2. clock.grants - 1 \in Nat /\ (clock.grants - 1) + 1 = clock.grants
      BY <1>2, <2>1
  <2>3. /\ Allowance(clock.grants - 1) \in Nat /\ Allowance(clock.grants) \in Nat
        /\ Allowance(clock.grants) >= Allowance(clock.grants - 1)
      BY <1>2, <2>2, Allowances
  <2>4. Overruns' \in {clock.grants - 1, clock.grants}
      BY <1>5 DEF Overruns
  <2>5. /\ Allowance(Overruns') \in Nat
        /\ Allowance(Overruns') >= Allowance(clock.grants - 1)
      BY <2>3, <2>4
  <2>6. clock'.spent + win'.left - win'.sample = clock.spent + win.left - win.sample
      BY <1>2, <1>3, <1>4, <1>5
  <2>7. clock'.spent + win'.left - win'.sample
          <= clock'.granted + Allowance(Overruns') + Uncharged'
      BY <1>2, <1>5, <2>1, <2>3, <2>5, <2>6
  <2> QED BY <1>5, <2>1, <2>7 DEF Charging
<1> QED BY <1>1, <1>4, <1>5, <1>7, <1>8, <1>9, HeartbeatKeeps, WindowFields

LEMMA PageGoneKeeps ==
    ASSUME WindowTyped, WindowInv, PageGone
    PROVE  WindowTyped' /\ WindowInv'
<1>1. UNCHANGED <<conf, active, handlers, win, result, acts, escaped>> /\ step = "wait"
    BY DEF PageGone
<1>2. CASE win.mode \in People /\ ~win.forced /\ RebindCandidates # {}
  <2>1. PICK waited \in 0 .. WaitUnits :
          /\ step' = "beat" /\ store' = Gone
          /\ clock' = [clock EXCEPT !.spent = clock.spent + waited + 1,
                                    !.rebinds = clock.rebinds + 1]
      BY <1>2 DEF PageGone
  <2>2. /\ clock \in Clocks /\ win.left \in Nat /\ win.sample \in Nat
        /\ clock.spent \in Nat /\ clock.granted \in Nat /\ clock.grants \in Nat
        /\ clock.slow \in Nat /\ clock.rebinds \in Nat /\ Uncharged \in Nat
      BY WindowFields
  <2>0. waited \in Nat /\ waited <= 2
      BY <2>1, <2>2 DEF WaitUnits, Waiting
  <2>3. /\ clock' \in Clocks /\ clock'.spent = clock.spent + waited + 1
        /\ Uncharged' = Uncharged + 3
        /\ clock'.granted = clock.granted /\ clock'.grants = clock.grants
    <3>1. clock.spent + waited + 1 \in Nat /\ clock.rebinds + 1 \in Nat
        BY <2>0, <2>2
    <3>2. /\ clock' \in Clocks /\ clock'.spent = clock.spent + waited + 1
          /\ clock'.slow = clock.slow /\ clock'.rebinds = clock.rebinds + 1
          /\ clock'.granted = clock.granted /\ clock'.grants = clock.grants
        BY <2>1, <2>2, <3>1 DEF Clocks
    <3>3. Uncharged' = Uncharged + 3
        BY <2>2, <3>2 DEF Uncharged, Waiting
    <3> QED BY <3>2, <3>3
  <2>4. Sampling' /\ ClearSince'
      BY <1>1, <2>1 DEF WindowInv, Sampling, ClearSince
  <2>5. Pending'
      BY <1>1, <2>1 DEF WindowInv, Pending
  <2>6. Charging'
    <3>1. Overruns' = Overruns
        BY <1>1, <2>3 DEF Overruns
    <3>2. Allowance(Overruns)' = Allowance(Overruns) /\ Allowance(Overruns) \in Nat
      <4>1. Overruns \in Nat
          BY <1>1, <2>2 DEF WindowInv, Charging, Overruns
      <4> QED BY <3>1, <4>1, Allowances
    <3>3. /\ clock.grants > 0
          /\ clock.spent + win.left - win.sample
               <= clock.granted + Allowance(Overruns) + Uncharged
        BY <1>1 DEF WindowInv, Charging
    <3>4. clock.spent + waited + 1 + win.left - win.sample
            <= clock.granted + Allowance(Overruns) + (Uncharged + 3)
        BY <2>0, <2>2, <3>2, <3>3
    <3>5. clock'.spent + win'.left - win'.sample
            <= clock'.granted + Allowance(Overruns)' + Uncharged'
        BY <1>1, <2>3, <3>2, <3>4
    <3> QED BY <2>3, <3>3, <3>5 DEF Charging
  <2> QED BY <1>1, <2>1, <2>3, <2>4, <2>5, <2>6, HeartbeatKeeps, WindowFields
<1>3. CASE ~(win.mode \in People /\ ~win.forced /\ RebindCandidates # {})
    BY <1>1, <1>3, LeavingKeeps, WindowFields DEF PageGone
<1> QED BY <1>2, <1>3

-----------------------------------------------------------------------------
(* The window: its end *)

LEMMA RaisedKeeps ==
    ASSUME WindowTyped, WindowInv, Raised
    PROVE  WindowTyped' /\ WindowInv'
<1>1. UNCHANGED <<conf, active, handlers, win, store, acts, clock, escaped>> /\ step' = "finally"
    BY DEF Raised
<1>2. result' \in Reasons /\ result' # "manual_challenge_cleared"
    BY DEF Raised, Reasons
<1> QED BY <1>1, <1>2, LeavingKeeps, WindowFields

LEMMA InterruptKeeps ==
    ASSUME WindowTyped, WindowInv, Interrupt
    PROVE  WindowTyped' /\ WindowInv'
BY LeavingKeeps, WindowFields DEF Interrupt, Reasons

LEMMA FinallyKeeps ==
    ASSUME WindowTyped, WindowInv, Finally
    PROVE  WindowTyped' /\ WindowInv'
<1> USE DEF Finally, WindowClosed
<1>1. WindowTyped'
    BY NoWinTyped DEF WindowTyped, OtherSteps, Reasons
<1>2. Held' /\ Fresh' /\ Sampling' /\ ClearSince' /\ Pending' /\ Charging' /\ ClearedMeansStable'
    BY DEF Held, WindowSteps, Fresh, Sampling, ClearSince, Pending, Charging, ClearedMeansStable
<1> QED BY <1>1, <1>2 DEF WindowInv

LEMMA InterruptFinallyKeeps ==
    ASSUME WindowTyped, WindowInv, InterruptFinally
    PROVE  WindowTyped' /\ WindowInv'
<1> USE DEF InterruptFinally
<1>1. WindowTyped'
    BY NoWinTyped DEF WindowTyped, OtherSteps, Reasons
<1>2. Held' /\ Fresh' /\ Sampling' /\ ClearSince' /\ Pending' /\ Charging' /\ ClearedMeansStable'
    BY DEF Held, WindowSteps, Fresh, Sampling, ClearSince, Pending, Charging, ClearedMeansStable
<1> QED BY <1>1, <1>2 DEF WindowInv

-----------------------------------------------------------------------------
(* The window: the person *)

LEMMA ActKeeps ==
    ASSUME WindowTyped, WindowInv, Act
    PROVE  WindowTyped' /\ WindowInv'
<1>1. /\ UNCHANGED <<conf, step, active, handlers, win, result, clock, escaped>>
      /\ step \in {"beat", "probe", "wait"} /\ store # Gone
      /\ store' = store + 1 /\ acts' = acts + 1
    BY DEF Act, InWindow
<1>2. /\ store \in Nat /\ acts \in Nat /\ win.counted \in Nat
      /\ win.capture.cursor \in Nat /\ win.capture.prev \in Int
    BY <1>1, WindowFields
<1>3. Sampling' /\ ClearSince' /\ Charging'
    BY <1>1 DEF WindowInv, Sampling, ClearSince, Charging, Overruns, Uncharged
<1>4. Pending'
  <2>1. /\ win.counted <= acts
        /\ win.capture.on =>
             win.counted + (store - win.capture.cursor - win.capture.prev) <= acts
      BY <1>1 DEF WindowInv, Pending
  <2>2. /\ win.counted <= acts + 1
        /\ win.capture.on =>
             win.counted + ((store + 1) - win.capture.cursor - win.capture.prev) <= acts + 1
      BY <1>2, <2>1
  <2> QED BY <1>1, <2>2 DEF Pending
<1> QED BY <1>1, <1>2, <1>3, <1>4, HeartbeatKeeps, WindowFields

LEMMA ReissueKeeps ==
    ASSUME WindowTyped, WindowInv, Reissue
    PROVE  WindowTyped' /\ WindowInv'
<1>1. /\ UNCHANGED <<conf, step, active, handlers, result, store, acts, clock, escaped>>
      /\ step \in {"beat", "probe", "wait"}
      /\ win' = [win EXCEPT !.reissues = win.reissues + 1]
    BY DEF Reissue, InWindow
<1>2. win \in WindowRecord /\ win.reissues + 1 \in Nat
    BY WindowFields
<1>3. /\ win' \in WindowRecord /\ win'.left = win.left /\ win'.sample = win.sample
      /\ win'.counted = win.counted /\ win'.capture = win.capture
    BY <1>1, <1>2 DEF WindowRecord
<1>4. Sampling' /\ ClearSince'
    BY <1>1, <1>3 DEF WindowInv, Sampling, ClearSince
<1>5. Pending'
    BY <1>1, <1>3 DEF WindowInv, Pending
<1>6. Charging'
    BY <1>1, <1>3 DEF WindowInv, Charging, Overruns, Uncharged
<1> QED BY <1>1, <1>3, <1>4, <1>5, <1>6, HeartbeatKeeps, WindowFields

-----------------------------------------------------------------------------
(* The grace period *)

LEMMA GraceConstants ==
    /\ GraceTime \in Nat /\ Hold \in Nat /\ Settle \in Nat /\ VisionTime \in Nat
    /\ Most(Settle, VisionTime) \in Nat
    /\ Most(Settle, VisionTime) >= Settle /\ Most(Settle, VisionTime) >= VisionTime
<1>1. {GraceTime, Hold, Settle, VisionTime} \subseteq Nat
    BY GraceAssumption
<1> QED BY <1>1 DEF Most

(* A press takes no more than what is left.                                  *)
LEMMA BudgetFits ==
    ASSUME NEW left \in Int
    PROVE  Budget(left) \in Nat /\ (left >= 0 => Budget(left) <= left)
                             /\ (Budget(left) > 0 => left > 0)
BY GraceConstants DEF Budget, Least, Most

(* A step of the grace period changes nothing but the step and the grace.    *)
LEMMA GraceStepKeeps ==
    ASSUME TypesInv, WindowInv, NEW to \in GraceSteps \cup {"idle"}, NEW meta \in Graces,
           GraceStep(to, meta), Leaves(to, meta), step \in GraceSteps, UNCHANGED calls
    PROVE  WindowTyped' /\ WindowInv' /\ GraceTyped' /\ TimeLeft'
<1>1. /\ UNCHANGED <<conf, active, handlers, win, result, store, acts, clock, escaped>>
      /\ step' = to
    BY DEF GraceStep
<1>2. WindowTyped' /\ WindowInv'
    BY <1>1, ElsewhereKeeps DEF TypesInv, WindowTyped, WindowSteps, GraceSteps, OtherSteps
<1>3. CASE to = "idle"
  <2>1. grace' = [NoGrace EXCEPT !.left = meta.left] /\ meta.left \in Int
      BY <1>3 DEF GraceStep, Reported, Graces
  <2>2. grace' \in Graces /\ grace'.left = meta.left
      BY <2>1 DEF NoGrace, Graces
  <2>3. TimeLeft'
    <3>1. step' = "idle" /\ meta.left >= 0 - Most(Settle, VisionTime)
        BY <1>1, <1>3 DEF Leaves
    <3> QED BY <2>2, <3>1 DEF TimeLeft, Leaves
  <2> QED BY <1>2, <2>2, <2>3 DEF GraceTyped, TypesInv
<1>4. CASE to # "idle"
  <2>1. step' = to /\ grace' = meta
      BY <1>1, <1>4 DEF GraceStep
  <2> QED BY <1>2, <2>1 DEF GraceTyped, TypesInv, TimeLeft
<1> QED BY <1>3, <1>4

(* Each step leads to a step that the time left is enough for.               *)
GraceStepTo(to) == \E meta \in Graces : GraceStep(to, meta) /\ Leaves(to, meta)

LEMMA GraceFields ==
    ASSUME TypesInv
    PROVE  /\ grace \in Graces /\ grace.left \in Int /\ grace.attempts \in Nat
           /\ grace.from \in {"first", "loop", "held", "guided"}
           /\ grace.executed \in BOOLEAN /\ grace.success \in BOOLEAN
           /\ grace.shell \in BOOLEAN
           /\ grace.nudged \in BOOLEAN /\ grace.held \in BOOLEAN
BY DEF TypesInv, GraceTyped, Graces

LEMMA ProbeLeaves ==
    ASSUME TypesInv, TimeLeft, Probe
    PROVE  \E to \in GraceSteps \cup {"idle"} : GraceStepTo(to)
<1>0. /\ grace \in Graces /\ grace.left \in Int /\ grace.attempts \in Nat
      /\ grace.from \in {"first", "loop", "held", "guided"}
      /\ Shell \in BOOLEAN
  <2>1. Shell \in BOOLEAN
      BY DEF Shell, Open, Surface
  <2> QED BY <2>1, GraceFields
<1>1. step = "grace" /\ grace.left >= (IF grace.from = "guided" THEN 0 - VisionTime ELSE 0)
      /\ grace.left >= 0 - Most(Settle, VisionTime)
    BY DEF Probe, TimeLeft, Leaves
<1> DEFINE Meta(wait, frame) ==
             [grace EXCEPT !.attempts = grace.attempts + 1, !.left = grace.left - wait,
                           !.shell = Shell, !.frame = frame]
<1>2. PICK wait \in ReadyWaits, frame \in BOOLEAN :
          \/ GraceStep("press", Meta(wait, frame)) /\ Budget(grace.left - wait) > 0
          \/ GraceStep(AfterProbe(grace.from), Meta(wait, frame))
  <2>1. \A found \in Findings : found.frame \in BOOLEAN
    <3>1. CASE Open(helpers)
        BY <3>1 DEF Findings
    <3>2. CASE ~Open(helpers)
      <4>1. Findings = {[frame |-> FALSE, target |-> FALSE]}
          BY <3>2 DEF Findings
      <4>2. [frame |-> FALSE, target |-> FALSE].frame \in BOOLEAN
          OBVIOUS
      <4> QED BY <4>1, <4>2
    <3> QED BY <3>1, <3>2
  <2> QED BY <2>1 DEF Probe
<1> DEFINE meta == Meta(wait, frame)
<1>3. wait \in {0, 1} /\ (wait = 1 => grace.left > 2)
    BY DEF ReadyWaits
<1>4. meta \in Graces /\ meta.left = grace.left - wait /\ meta.from = grace.from
  <2>1. grace.attempts + 1 \in Nat /\ grace.left - wait \in Int
      BY <1>0, <1>3
  <2> QED BY <1>0, <2>1 DEF Graces
<1> HIDE DEF Meta
<1>5. meta.left >= 0 - Most(Settle, VisionTime) /\ meta.left \in Int
      /\ meta.left >= (IF grace.from = "guided" THEN 0 - VisionTime ELSE 0)
    BY <1>0, <1>1, <1>3, <1>4, GraceConstants
<1>6. CASE GraceStep("press", meta) /\ Budget(grace.left - wait) > 0
  <2>1. meta.left > 0
      BY <1>4, <1>5, <1>6, BudgetFits
  <2> QED BY <1>4, <1>5, <1>6, <2>1 DEF GraceStepTo, Leaves, GraceSteps
<1>7. CASE GraceStep(AfterProbe(grace.from), meta)
  <2>1. Leaves(AfterProbe(grace.from), meta)
      BY <1>0, <1>5 DEF Leaves, AfterProbe
  <2>2. AfterProbe(grace.from) \in GraceSteps
      BY <1>0 DEF AfterProbe, GraceSteps
  <2> QED BY <1>4, <1>7, <2>1, <2>2 DEF GraceStepTo
<1> QED BY <1>2, <1>6, <1>7

LEMMA PressLeaves ==
    ASSUME TypesInv, TimeLeft, Press
    PROVE  \E to \in GraceSteps \cup {"idle"} : GraceStepTo(to)
<1>0. /\ grace \in Graces /\ grace.left \in Int
      /\ grace.from \in {"first", "loop", "held", "guided"} /\ grace.left > 0
    BY GraceFields DEF Press, TimeLeft, Leaves
<1>1. CASE Pressed
  <2> DEFINE Meta(settled, seen) ==
               [grace EXCEPT !.left = grace.left - Budget(grace.left) - settled,
                             !.executed = TRUE, !.success = seen]
  <2>1. PICK settled \in 0 .. Settle, seen \in BOOLEAN :
            GraceStep(IF grace.from # "first" THEN "rest"
                      ELSE IF grace.left - Budget(grace.left) - settled > 0 THEN "passive"
                           ELSE "idle",
                      Meta(settled, seen))
    <3>1. (grace.success \/ (grace.shell /\ ~Shell)) \in BOOLEAN
        OBVIOUS
    <3>2. PICK settled \in 0 .. Settle :
              LET left == grace.left - Budget(grace.left) - settled
                  meta == [grace EXCEPT !.left = left, !.executed = TRUE,
                                        !.success = @ \/ (grace.shell /\ ~Shell)]
              IN GraceStep(IF grace.from # "first" THEN "rest"
                           ELSE IF left > 0 THEN "passive" ELSE "idle", meta)
        BY <1>1 DEF Press
    <3>3. [grace EXCEPT !.left = grace.left - Budget(grace.left) - settled,
                        !.executed = TRUE, !.success = @ \/ (grace.shell /\ ~Shell)]
            = Meta(settled, (grace.success \/ (grace.shell /\ ~Shell)))
        BY <1>0 DEF Graces
    <3> QED BY <3>1, <3>2, <3>3
  <2> DEFINE meta == Meta(settled, seen)
  <2>2. Budget(grace.left) \in Nat /\ Budget(grace.left) <= grace.left
      BY <1>0, BudgetFits
  <2>3. settled \in Nat /\ settled <= Settle
      BY GraceConstants
  <2>4. grace.left - Budget(grace.left) - settled \in Int
      BY <1>0, <2>2, <2>3
  <2>5. meta \in Graces /\ meta.left = grace.left - Budget(grace.left) - settled
      BY <1>0, <2>4 DEF Graces
  <2> HIDE DEF Meta
  <2>6. meta.left >= 0 - Most(Settle, VisionTime)
      BY <1>0, <2>2, <2>3, <2>5, GraceConstants
  <2> DEFINE to == IF grace.from # "first" THEN "rest"
                   ELSE IF grace.left - Budget(grace.left) - settled > 0 THEN "passive"
                        ELSE "idle"
  <2>7. Leaves(to, meta)
      BY <2>4, <2>5, <2>6 DEF Leaves
  <2>8. to \in GraceSteps \cup {"idle"}
      BY DEF GraceSteps
  <2> HIDE DEF to
  <2>9. GraceStep(to, meta)
      BY <2>1 DEF to
  <2> QED BY <2>5, <2>7, <2>8, <2>9 DEF GraceStepTo
<1>2. CASE ~Pressed
  <2>1. GraceStep(AfterProbe(grace.from), grace)
      BY <1>2 DEF Press
  <2>2. AfterProbe(grace.from) \in GraceSteps \ {"grace", "press"}
      BY <1>0 DEF AfterProbe, GraceSteps
  <2>3. Leaves(AfterProbe(grace.from), grace)
      BY <1>0, <2>2, GraceConstants DEF Leaves
  <2> QED BY <1>0, <2>1, <2>2, <2>3 DEF GraceStepTo
<1> QED BY <1>1, <1>2

LEMMA PassiveLeaves ==
    ASSUME TypesInv, TimeLeft, Passive
    PROVE  \E to \in GraceSteps \cup {"idle"} : GraceStepTo(to)
<1>0. grace \in Graces /\ grace.left \in Int /\ grace.left >= 0
    BY GraceFields DEF Passive, TimeLeft, Leaves
<1> DEFINE Meta(spent, seen) ==
             [grace EXCEPT !.left = grace.left - spent, !.seen = seen, !.from = "loop"]
<1>1. PICK spent \in PassiveTimes :
          GraceStep(IF Meta(spent, Shell).left > 0 THEN "again" ELSE "idle", Meta(spent, Shell))
    BY DEF Passive
<1> DEFINE meta == Meta(spent, Shell)
<1>2. spent \in {0, 1} /\ (spent = 1 => grace.left > 1)
    BY DEF PassiveTimes
<1>3. meta \in Graces /\ meta.left = grace.left - spent
  <2>1. Shell \in BOOLEAN
      BY DEF Shell, Open, Surface
  <2>2. grace.left - spent \in Int
      BY <1>0, <1>2
  <2> QED BY <1>0, <2>1, <2>2 DEF Graces
<1> HIDE DEF Meta
<1>4. meta.left >= 0 /\ meta.left >= 0 - Most(Settle, VisionTime)
    BY <1>0, <1>2, <1>3, GraceConstants
<1>5. CASE meta.left > 0
    BY <1>1, <1>3, <1>4, <1>5 DEF GraceStepTo, Leaves, GraceSteps
<1>6. CASE ~(meta.left > 0)
    BY <1>1, <1>3, <1>4, <1>6 DEF GraceStepTo, Leaves
<1> QED BY <1>5, <1>6

LEMMA AgainLeaves ==
    ASSUME TypesInv, TimeLeft, Again
    PROVE  \E to \in GraceSteps \cup {"idle"} : GraceStepTo(to)
<1>0. grace \in Graces /\ grace.left \in Int /\ grace.left >= 0
      /\ grace.left >= 0 - Most(Settle, VisionTime)
    BY GraceFields DEF Again, TimeLeft, Leaves
<1>1. CASE GraceStep("grace", [grace EXCEPT !.from = "loop"])
  <2> DEFINE meta == [grace EXCEPT !.from = "loop"]
  <2>1. meta \in Graces /\ meta.left = grace.left /\ meta.from = "loop"
      BY <1>0 DEF Graces
  <2>2. GraceStep("grace", meta)
      BY <1>1
  <2> HIDE DEF meta
  <2> QED BY <1>0, <2>1, <2>2 DEF GraceStepTo, Leaves, GraceSteps
<1>2. CASE GraceStep("rest", Unpressed)
  <2>1. Unpressed \in Graces /\ Unpressed.left = grace.left
      BY <1>0 DEF Unpressed, Graces
  <2> QED BY <1>0, <1>2, <2>1 DEF GraceStepTo, Leaves, GraceSteps
<1> QED BY <1>1, <1>2 DEF Again

LEMMA ExtrasLeaves ==
    ASSUME TypesInv, TimeLeft, Extras
    PROVE  \E to \in GraceSteps \cup {"idle"} : GraceStepTo(to)
<1>0. /\ grace \in Graces /\ grace.left \in Int /\ grace.left >= 0
      /\ grace.left >= 0 - Most(Settle, VisionTime)
    BY GraceFields DEF Extras, TimeLeft, Leaves
<1>1. Budget(grace.left) \in Nat /\ Budget(grace.left) <= grace.left
    BY <1>0, BudgetFits
<1> DEFINE Meta(a, b) == [grace EXCEPT !.nudged = a, !.held = b]
<1>2. PICK a \in BOOLEAN, b \in BOOLEAN :
          \/ GraceStep("grace", [Meta(a, b) EXCEPT !.from = "held",
                                                  !.left = @ - Budget(grace.left)])
          \/ GraceStep("guide", Meta(a, b))
  <2>1. \A x, y : (x \/ y) \in BOOLEAN
      OBVIOUS
  <2>2. PICK nudges \in Nudges, holds \in Holds :
            LET meta == [grace EXCEPT !.nudged = @ \/ nudges, !.held = @ \/ holds]
            IN IF holds
               THEN GraceStep("grace", [meta EXCEPT !.from = "held",
                                                    !.left = @ - Budget(grace.left)])
               ELSE GraceStep("guide", meta)
      BY DEF Extras
  <2>3. [grace EXCEPT !.nudged = @ \/ nudges, !.held = @ \/ holds]
          = Meta(grace.nudged \/ nudges, grace.held \/ holds)
      BY <1>0 DEF Graces
  <2> QED BY <2>1, <2>2, <2>3
<1>3. Meta(a, b) \in Graces /\ Meta(a, b).left = grace.left
    BY <1>0 DEF Graces
<1> HIDE DEF Meta
<1>4. CASE GraceStep("guide", Meta(a, b))
    BY <1>0, <1>3, <1>4 DEF GraceStepTo, Leaves, GraceSteps
<1>5. CASE GraceStep("grace", [Meta(a, b) EXCEPT !.from = "held", !.left = @ - Budget(grace.left)])
  <2> DEFINE meta == [Meta(a, b) EXCEPT !.from = "held", !.left = @ - Budget(grace.left)]
  <2>1. grace.left - Budget(grace.left) \in Int /\ grace.left - Budget(grace.left) >= 0
        /\ 0 >= 0 - Most(Settle, VisionTime)
      BY <1>0, <1>1, GraceConstants
  <2>2. meta \in Graces /\ meta.left = grace.left - Budget(grace.left) /\ meta.from = "held"
      BY <1>3, <2>1 DEF Graces
  <2>3. GraceStep("grace", meta)
      BY <1>5
  <2> HIDE DEF meta
  <2>4. meta.left >= 0 - Most(Settle, VisionTime)
      BY <2>1, <2>2, GraceConstants
  <2> QED BY <2>1, <2>2, <2>3, <2>4 DEF GraceStepTo, Leaves, GraceSteps
<1> QED BY <1>2, <1>4, <1>5

LEMMA GuideLeaves ==
    ASSUME TypesInv, TimeLeft, Guide
    PROVE  \E to \in GraceSteps \cup {"idle"} : GraceStepTo(to)
<1>0. /\ grace \in Graces /\ grace.left \in Int /\ grace.left >= 0
      /\ grace.left >= 0 - Most(Settle, VisionTime)
    BY GraceFields DEF Guide, TimeLeft, Leaves
<1>1. Budget(grace.left) \in Nat /\ Budget(grace.left) <= grace.left
    BY <1>0, BudgetFits
<1>2. CASE GraceStep("pause", [grace EXCEPT !.guided = TRUE])
  <2> DEFINE meta == [grace EXCEPT !.guided = TRUE]
  <2>1. meta \in Graces /\ meta.left = grace.left
      BY <1>0 DEF Graces
  <2>2. GraceStep("pause", meta)
      BY <1>2
  <2> HIDE DEF meta
  <2> QED BY <1>0, <2>1, <2>2 DEF GraceStepTo, Leaves, GraceSteps
<1>3. CASE \E asked \in 0 .. VisionTime :
             LET meta == [grace EXCEPT !.guided = TRUE, !.left = grace.left - asked]
             IN \/ GraceStep("grace", [meta EXCEPT !.from = "guided",
                                                   !.left = @ - Budget(grace.left)])
                \/ GraceStep("pause", meta)
  <2> DEFINE Meta(asked) == [grace EXCEPT !.guided = TRUE, !.left = grace.left - asked]
  <2>1. PICK asked \in 0 .. VisionTime :
            \/ GraceStep("grace", [Meta(asked) EXCEPT !.from = "guided",
                                                     !.left = @ - Budget(grace.left)])
            \/ GraceStep("pause", Meta(asked))
      BY <1>3
  <2>2. asked \in Nat /\ asked <= VisionTime /\ grace.left - asked \in Int
        /\ grace.left - asked >= 0 - VisionTime
        /\ grace.left - asked - Budget(grace.left) >= 0 - VisionTime
        /\ grace.left - asked - Budget(grace.left) \in Int
        /\ 0 - VisionTime >= 0 - Most(Settle, VisionTime)
        /\ grace.left - asked >= 0 - Most(Settle, VisionTime)
        /\ grace.left - asked - Budget(grace.left) >= 0 - Most(Settle, VisionTime)
      BY <1>0, <1>1, GraceConstants
  <2>3. Meta(asked) \in Graces /\ Meta(asked).left = grace.left - asked
      BY <1>0, <2>2 DEF Graces
  <2> HIDE DEF Meta
  <2>4. CASE GraceStep("pause", Meta(asked))
      BY <2>2, <2>3, <2>4 DEF GraceStepTo, Leaves, GraceSteps
  <2>5. CASE GraceStep("grace", [Meta(asked) EXCEPT !.from = "guided",
                                                   !.left = @ - Budget(grace.left)])
    <3> DEFINE meta == [Meta(asked) EXCEPT !.from = "guided", !.left = @ - Budget(grace.left)]
    <3>1. /\ meta \in Graces /\ meta.left = grace.left - asked - Budget(grace.left)
          /\ meta.from = "guided"
        BY <2>2, <2>3 DEF Graces
    <3>2. GraceStep("grace", meta)
        BY <2>5
    <3> HIDE DEF meta
    <3> QED BY <2>2, <3>1, <3>2 DEF GraceStepTo, Leaves, GraceSteps
  <2> QED BY <2>1, <2>4, <2>5
<1> QED BY <1>2, <1>3 DEF Guide

LEMMA PauseLeaves ==
    ASSUME TypesInv, TimeLeft, Pause \/ Rest
    PROVE  \E to \in GraceSteps \cup {"idle"} : GraceStepTo(to)
<1>0. /\ grace \in Graces /\ grace.left \in Int
      /\ grace.left >= 0 - Most(Settle, VisionTime)
    BY GraceFields DEF TimeLeft, Leaves
<1>1. CASE GraceStep("rest", Unpressed)
  <2>1. Unpressed \in Graces /\ Unpressed.left = grace.left
      BY <1>0 DEF Unpressed, Graces
  <2> QED BY <1>0, <1>1, <2>1 DEF GraceStepTo, Leaves, GraceSteps
<1>2. CASE GraceStep("rest", grace)
    BY <1>0, <1>2 DEF GraceStepTo, Leaves, GraceSteps
<1>3. CASE GraceStep("again", [grace EXCEPT !.left = @ - 1]) /\ ~(grace.left < 1)
  <2> DEFINE meta == [grace EXCEPT !.left = @ - 1]
  <2>1. meta \in Graces /\ meta.left = grace.left - 1
      BY <1>0 DEF Graces
  <2>2. GraceStep("again", meta)
      BY <1>3
  <2> HIDE DEF meta
  <2>3. meta.left >= 0 /\ meta.left >= 0 - Most(Settle, VisionTime)
      BY <1>0, <1>3, <2>1, GraceConstants
  <2> QED BY <2>1, <2>2, <2>3 DEF GraceStepTo, Leaves, GraceSteps
<1>4. CASE Rest
  <2> DEFINE n == IF Open(helpers) /\ grace.left > 0 THEN 0 ELSE grace.left
             meta == [grace EXCEPT !.left = n]
  <2>1. n \in Int /\ n >= 0 - Most(Settle, VisionTime)
      BY <1>0, GraceConstants
  <2>2. GraceStep("idle", meta)
    <3>1. [grace EXCEPT !.left = IF Open(helpers) /\ @ > 0 THEN 0 ELSE @] = meta
        BY <1>0 DEF Graces
    <3> QED BY <1>4, <3>1 DEF Rest
  <2>3. meta \in Graces /\ meta.left = n
      BY <1>0, <2>1 DEF Graces
  <2> HIDE DEF meta, n
  <2> QED BY <2>1, <2>2, <2>3 DEF GraceStepTo, Leaves
<1> QED BY <1>1, <1>2, <1>3, <1>4 DEF Pause

LEMMA GraceKeeps ==
    ASSUME TypesInv, WindowInv, TimeLeft, GraceNext, UNCHANGED calls
    PROVE  WindowTyped' /\ WindowInv' /\ GraceTyped' /\ TimeLeft'
<1>1. \E to \in GraceSteps \cup {"idle"} : GraceStepTo(to)
    BY ProbeLeaves, PressLeaves, PassiveLeaves, AgainLeaves, ExtrasLeaves, GuideLeaves,
       PauseLeaves DEF GraceNext
<1>2. step \in GraceSteps
    BY DEF GraceNext, Probe, Press, Passive, Again, Extras, Guide, Pause, Rest, GraceSteps
<1> QED BY <1>1, <1>2, GraceStepKeeps DEF GraceStepTo

-----------------------------------------------------------------------------
(* Every step *)

LEMMA WindowNextKeeps ==
    ASSUME WindowTyped, WindowInv, WindowNext
    PROVE  WindowTyped' /\ WindowInv' /\ step' \notin GraceSteps
<1>1. step' \in WindowSteps \cup {"idle"}
  <2>1. CASE TakeSignals \/ OpenWindow \/ Expire \/ Beat \/ NextLook \/ Unstable
      BY <2>1 DEF TakeSignals, OpenWindow, Expire, Elapse, Beat, NextLook, Unstable, WindowSteps
  <2>2. CASE Stable \/ Wait \/ PageGone \/ Raised \/ Finally
      BY <2>2 DEF Stable, Wait, PageGone, Raised, Finally, WindowClosed, WindowSteps
  <2> QED BY <2>1, <2>2 DEF WindowNext
<1>2. WindowTyped' /\ WindowInv'
    BY TakeSignalsKeeps, OpenWindowKeeps, ExpireKeeps, BeatKeeps, NextLookKeeps, UnstableKeeps,
       StableKeeps, WaitKeeps, PageGoneKeeps, RaisedKeeps, FinallyKeeps DEF WindowNext
<1> QED BY <1>1, <1>2 DEF WindowSteps, GraceSteps

(* The grace period is left alone, and not entered.                          *)
LEMMA GraceSpared ==
    ASSUME GraceTyped, TimeLeft, UNCHANGED grace, calls' \in Nat,
           UNCHANGED step \/ step' \notin GraceSteps
    PROVE  GraceTyped' /\ TimeLeft'
<1>1. GraceTyped'
    BY DEF GraceTyped
<1>2. CASE UNCHANGED step
    BY <1>1, <1>2 DEF TimeLeft
<1>3. CASE step' \notin GraceSteps
  <2>1. /\ grace'.left >= 0 - Most(Settle, VisionTime)
        /\ step' \notin {"passive", "again", "extras", "guide"}
        /\ step' # "grace" /\ step' # "press"
      BY <1>3 DEF TimeLeft, Leaves, GraceSteps
  <2> QED BY <1>1, <2>1 DEF TimeLeft, Leaves
<1> QED BY <1>2, <1>3

LEMMA CallKeeps ==
    ASSUME TypesInv, WindowInv, TimeLeft,
           Enters \/ Goto \/ Window \/ Grace \/ Recover \/ Leave
    PROVE  WindowTyped' /\ WindowInv' /\ GraceTyped' /\ TimeLeft'
<1>0. WindowTyped /\ GraceTyped /\ calls \in Nat /\ store \in Nat \cup {Gone}
    BY DEF TypesInv, WindowTyped, GraceTyped
<1>1. CASE Enters
  <2>1. /\ UNCHANGED <<conf, active, handlers, win, result, store, acts, clock, escaped>>
        /\ step \notin WindowSteps /\ step' \in {"idle", "over"} /\ UNCHANGED <<grace, calls>>
      BY <1>1 DEF Enters, WindowSteps
  <2> QED BY <1>0, <2>1, ElsewhereKeeps, GraceSpared DEF OtherSteps, GraceSteps
<1>2. CASE Goto \/ Recover \/ Leave
  <2>1. /\ UNCHANGED <<conf, active, handlers, win, result, acts, clock, escaped>>
        /\ store' = Gone /\ step = "idle" /\ UNCHANGED grace
        /\ step' \in {"idle", "navigate", "opening", "over"}
      BY <1>2 DEF Goto, Recover, Leave, Calling
  <2>2. calls' \in Nat
      BY <1>0, <1>2 DEF Goto, Recover, Leave, Calling
  <2> QED BY <1>0, <2>1, <2>2, ElsewhereKeeps, GraceSpared DEF OtherSteps, GraceSteps, WindowSteps
<1>3. CASE Window
  <2>1. step = "idle" /\ BeginWindow /\ calls' \in Nat /\ UNCHANGED grace
      BY <1>0, <1>3 DEF Window, Calling
  <2>2. step' \notin GraceSteps
      BY <2>1 DEF BeginWindow, GraceSteps
  <2> QED BY <1>0, <2>1, <2>2, BeginWindowKeeps, GraceSpared
<1>4. CASE Grace
  <2>1. /\ UNCHANGED <<conf, active, handlers, win, result, store, acts, clock, escaped>>
        /\ step = "idle" /\ step' = "grace" /\ grace' = [NoGrace EXCEPT !.left = GraceTime]
        /\ calls' \in Nat
      BY <1>0, <1>4 DEF Grace, BeginGrace, Calling
  <2>2. WindowTyped' /\ WindowInv'
      BY <1>0, <2>1, ElsewhereKeeps DEF GraceSteps, WindowSteps
  <2>3. grace' \in Graces /\ grace'.left = GraceTime /\ grace'.from = "first"
    <3>1. GraceTime \in Int
        BY GraceConstants
    <3>2. NoGrace \in Graces /\ NoGrace.from = "first"
        BY DEF NoGrace, Graces
    <3> QED BY <2>1, <3>1, <3>2 DEF Graces
  <2>4. TimeLeft'
    <3>1. GraceTime >= 0 /\ GraceTime >= 0 - Most(Settle, VisionTime)
        BY GraceConstants
    <3> QED BY <2>1, <2>3, <3>1 DEF TimeLeft, Leaves
  <2> QED BY <2>1, <2>2, <2>3, <2>4 DEF GraceTyped
<1> QED BY <1>1, <1>2, <1>3, <1>4

LEMMA OutsideKeeps ==
    ASSUME TypesInv, WindowInv, TimeLeft, Outside
    PROVE  WindowTyped' /\ WindowInv' /\ GraceTyped' /\ TimeLeft'
<1>0. WindowTyped /\ GraceTyped /\ calls' \in Nat /\ UNCHANGED grace
    BY DEF TypesInv, GraceTyped, Outside
<1>1. CASE InterruptEarly
  <2>1. step' \notin GraceSteps
      BY <1>1 DEF InterruptEarly, GraceSteps
  <2> QED BY <1>0, <1>1, <2>1, InterruptEarlyKeeps, GraceSpared
<1>2. CASE Interrupt
  <2>1. step' \notin GraceSteps
      BY <1>2 DEF Interrupt, GraceSteps
  <2> QED BY <1>0, <1>2, <2>1, InterruptKeeps, GraceSpared
<1>3. CASE Act
    BY <1>0, <1>3, ActKeeps, GraceSpared DEF Act
<1>4. CASE Reissue
    BY <1>0, <1>4, ReissueKeeps, GraceSpared DEF Reissue
<1>5. CASE Led
    BY <1>0, <1>5, StoreGoesKeeps, GraceSpared DEF Led
<1>6. CASE InterruptFinally
  <2>1. step' \notin GraceSteps
      BY <1>6 DEF InterruptFinally, GraceSteps
  <2> QED BY <1>0, <1>6, <2>1, InterruptFinallyKeeps, GraceSpared
<1>7. CASE Slow
    BY <1>0, <1>7, SlowKeeps, GraceSpared DEF Slow
<1>8. CASE UNCHANGED winVars
    BY <1>0, <1>8, StoreGoesKeeps, GraceSpared DEF winVars
<1> QED BY <1>1, <1>2, <1>3, <1>4, <1>5, <1>6, <1>7, <1>8 DEF Outside

LEMMA StepKeeps ==
    ASSUME TypesInv, WindowInv, TimeLeft, [Next]_vars
    PROVE  WindowTyped' /\ WindowInv' /\ GraceTyped' /\ TimeLeft'
<1>0. WindowTyped /\ GraceTyped /\ calls \in Nat /\ store \in Nat \cup {Gone}
    BY DEF TypesInv, WindowTyped, GraceTyped
<1>1. CASE WindowNext /\ UNCHANGED <<grace, calls>>
    BY <1>0, <1>1, WindowNextKeeps, GraceSpared
<1>2. CASE GraceNext /\ UNCHANGED calls
    BY <1>2, GraceKeeps
<1>3. CASE Announce \/ UNCHANGED vars
    BY <1>0, <1>3, StoreGoesKeeps, GraceSpared DEF Announce, vars, winVars
<1>4. CASE RecoverAdopt \/ RecoverNavigate
  <2>1. /\ UNCHANGED <<conf, active, handlers, win, result, store, acts, clock, escaped>>
        /\ step \in {"opening", "navigate"} /\ step' \in {"navigate", "idle"}
        /\ UNCHANGED <<grace, calls>>
      BY <1>4 DEF RecoverAdopt, RecoverNavigate
  <2> QED BY <1>0, <2>1, ElsewhereKeeps, GraceSpared DEF OtherSteps, GraceSteps, WindowSteps
<1> QED BY <1>1, <1>2, <1>3, <1>4, CallKeeps, OutsideKeeps DEF Next, Steps

LEMMA Starting ==
    ASSUME Init
    PROVE  IInv
<1> USE DEF Init
<1>1. Unborn = Pages /\ OpenPages = {} /\ tabs \in [Pages -> Tab]
  <2>1. [st |-> "unborn", url |-> "blank"] \in Tab
      BY UrlsKnown DEF Tab
  <2>2. \A p \in Pages : tabs[p].st = "unborn"
      OBVIOUS
  <2>3. Unborn = Pages
      BY <2>2 DEF Unborn
  <2>4. OpenPages = {}
      BY <2>2 DEF OpenPages, Open
  <2> QED BY <2>1, <2>3, <2>4
<1>2. PagesTyped
    BY <1>1, PagesAssumption DEF PagesTyped
<1>3. WindowTyped
    BY NoWinTyped DEF WindowTyped, OtherSteps, Reasons
<1>4. GraceTyped
    BY PagesAssumption DEF GraceTyped, NoGrace, Graces
<1>5. Staged
    BY <1>1 DEF Staged
<1>6. PagesInv
    BY <1>1, PagesFinite DEF PagesInv, InOrder, ClosedForGood, OwnBorn, Opening, PrimarySpared
<1>7. WindowInv
    BY DEF WindowInv, Held, Fresh, Sampling, ClearSince, Pending, Charging, ClearedMeansStable
<1>8. TimeLeft
    BY GraceConstants DEF TimeLeft, Leaves, NoGrace
<1> QED BY <1>2, <1>3, <1>4, <1>5, <1>6, <1>7, <1>8 DEF IInv, TypesInv

LEMMA Stepping ==
    ASSUME IInv, [Next]_vars
    PROVE  IInv'
<1>1. TypesInv /\ PagesInv /\ WindowInv /\ TimeLeft /\ PageStep
    BY EveryPageStep DEF IInv
<1>2. PagesTyped' /\ Staged' /\ PagesInv'
    BY <1>1, PagesTypedNext, StagedNext, PagesInvNext
<1>3. WindowTyped' /\ WindowInv' /\ GraceTyped' /\ TimeLeft'
    BY <1>1, StepKeeps
<1> QED BY <1>2, <1>3 DEF IInv, TypesInv

(* What a session never leaves: its types and its stage, its pages, the      *)
(* account of its window, and the time of its grace period.                  *)
THEOREM SessionInvariance == Spec => []IInv
<1>1. Init => IInv
    BY Starting
<1>2. IInv /\ [Next]_vars => IInv'
    BY Stepping
<1> QED BY <1>1, <1>2, PTL DEF Spec

(* The session's variables keep their types, and a session that has been     *)
(* entered and not left drives a page.                                       *)
THEOREM SessionTypeCorrect == Spec => []TypesInv
<1>1. IInv => TypesInv
    BY DEF IInv
<1> QED BY <1>1, SessionInvariance, PTL

(* No guard of the session closes the session's own page, whatever people    *)
(* open, lead and close, and whichever page it has adopted or opened in the  *)
(* place of one that went (_handle_new_page, _enforce_single_page_policy).   *)
THEOREM OwnPageSpared == Spec => []PrimarySpared
<1>1. IInv => PrimarySpared
    BY DEF IInv, PagesInv
<1> QED BY <1>1, SessionInvariance, PTL

(* A window that ends as cleared has seen the page open and without the      *)
(* challenge over a whole probe (_confirm_verification_clear_stable).        *)
THEOREM ClearedIsStable == Spec => []ClearedMeansStable
<1>1. IInv => ClearedMeansStable
    BY DEF IInv, WindowInv
<1> QED BY <1>1, SessionInvariance, PTL

(* A window overruns what it was granted by no more than its heartbeats      *)
(* leave uncharged: the last probe of each grant, a unit for every slow      *)
(* heartbeat, and for each rebinding that and the wait that was broken off.  *)
THEOREM WindowTimeCharged == Spec => []TimeIsCharged
<1>1. ASSUME IInv PROVE TimeIsCharged
  <2>1. WindowTyped /\ WindowInv
      BY <1>1 DEF IInv, TypesInv
  <2>2. SUFFICES ASSUME step \in {"beat", "probe", "wait"}
                 PROVE  clock.spent + win.left - win.sample
                          <= clock.granted + Allowance(clock.grants) + Uncharged
      BY DEF TimeIsCharged, Allowance
  <2>3. /\ win.left \in Nat /\ win.sample \in Nat /\ clock.spent \in Nat
        /\ clock.granted \in Nat /\ clock.grants \in Nat /\ Uncharged \in Nat
      BY <2>1, WindowFields
  <2>4. /\ clock.grants > 0
        /\ clock.spent + win.left - win.sample
             <= clock.granted + Allowance(Overruns) + Uncharged
      BY <2>1, <2>2 DEF WindowInv, Charging
  <2>5. clock.grants - 1 \in Nat /\ (clock.grants - 1) + 1 = clock.grants
      BY <2>3, <2>4
  <2>6. /\ Allowance(clock.grants - 1) \in Nat /\ Allowance(clock.grants) \in Nat
        /\ Allowance(clock.grants) >= Allowance(clock.grants - 1)
      BY <2>3, <2>5, Allowances
  <2>7. Overruns \in {clock.grants - 1, clock.grants}
      BY DEF Overruns
  <2>8. Allowance(Overruns) \in Nat /\ Allowance(Overruns) <= Allowance(clock.grants)
      BY <2>6, <2>7
  <2> QED BY <2>3, <2>4, <2>6, <2>8
<1> QED BY <1>1, SessionInvariance, PTL

(* A running window never counts more acts of a person than they have done,  *)
(* however often its capture is armed anew or loses its document.            *)
THEOREM ActsCountedOnce == Spec => []CountedOnce
<1>1. IInv => CountedOnce
    BY DEF IInv, WindowInv, Pending, CountedOnce
<1> QED BY <1>1, SessionInvariance, PTL

(* Between calls the automation is free and the runner has its signals back, *)
(* unless an interrupt has left a window before its try or within its        *)
(* finally, and a session that is over has no page open.                     *)
THEOREM SessionHandsBack == Spec => []NothingHeldBack
<1>1. IInv => NothingHeldBack
    BY DEF IInv, TypesInv, WindowInv, Held, Staged, WindowSteps, NothingHeldBack
<1> QED BY <1>1, SessionInvariance, PTL

(* The grace period overruns its deadline by one pause or one question to    *)
(* the vision model at most, along every path through its probes.            *)
THEOREM GraceKeepsDeadline == Spec => []GraceBounded
<1>1. IInv => GraceBounded
    BY DEF IInv, TimeLeft, Leaves, GraceBounded
<1> QED BY <1>1, SessionInvariance, PTL
=============================================================================

---------------------------- MODULE ScenarioProofs ----------------------------
(***************************************************************************)
(* Proofs about ScenarioLoop, for any settings, any bounds on attempts and  *)
(* turns, and any limits of the recoveries: what is handed over as ready,   *)
(* what a spent budget still allows, how often a page is recovered, and     *)
(* that every step of a scenario is a step of ScenarioContract.             *)
(*                                                                         *)
(* IInv has four parts.  TypeOK bounds the counters of an attempt and the   *)
(* round.  Rounds says where a further turn is promised.  Judgement says    *)
(* where the verdict speaks of the page at hand.  Counted ties the          *)
(* history to the counters it is compared with, and Late the history of the *)
(* budget to the places a turn has left behind.                             *)
(***************************************************************************)
EXTENDS ScenarioLoop, TLAPS

Places ==
    {"open", "opened", "agent", "probe", "pageState", "rebind", "pageState2",
     "visionKind", "planning", "attempt", "grace", "validate", "fallback",
     "reloadWindow", "lastResort", "rearm", "blocked", "handle", "escalate",
     "exhausted"} \cup TrySteps \cup Over

GateType == [manual : Windows \cup {"no"}, tries : 0..3, lost : BOOLEAN]

OnceType ==
    [reload : 0..1, reset : 0..1, rewind : 0..1, force : 0..1, pageState : 0..1,
     refilled : BOOLEAN]

Bounds == {"yes", "no", "unknown", "unread", "doubted"}

VerdictType ==
    [ready : BOOLEAN, bound : Bounds,
     trace : {"none", "mismatch"}, collab : Plans, suppressed : BOOLEAN,
     rebound : BOOLEAN]

UsedType ==
    [px : 0..PxMax, manual : 0..ManualMax, model : Nat, vlm : 0..CollabMax,
     repair : 0..CollabMax, planner : 0..CollabMax]

SeenType == [late : 0..1, px : Nat, windows : Nat]

TypeOK ==
    /\ conf \in Settings
    /\ at \in Places
    /\ low \in BOOLEAN /\ capped \in BOOLEAN
    /\ html \in Shown /\ vouched \in BOOLEAN /\ plan \in Plans
    /\ recovery \in BOOLEAN /\ handoff \in BOOLEAN
    /\ attempt \in 1..conf.attempts /\ turn \in 1..conf.turns
    /\ gate \in GateType
    /\ once \in OnceType
    /\ verdict \in VerdictType
    /\ used \in UsedType
    /\ repeats \in 0..2
    /\ seen \in SeenType

\* A turn that is to be followed by another one is not the last, and the second
\* error in a row is the end.
Rounds ==
    /\ verdict.rebound => turn < conf.turns
    /\ at = "followup" => turn < conf.turns
    /\ repeats = 2 => at \in Over

\* The page the verdict is about is the one at hand.  Skyscanner's is captured
\* again after its evidence, and judged again when it has settled.
Judgement ==
    /\ verdict.ready /\ at \in {"judged", "evidence"} => vouched
    /\ verdict.ready /\ at = "scope" /\ Google => vouched
    /\ at = "settle" /\ Google => vouched
    /\ ReadyAsJudged

\* What was done is what was counted.
Counted == seen.px = used.px /\ seen.windows = used.manual

\* A plan carried out on a spent budget was that of the turn at hand: no turn gets
\* past its gate after it.
Late == seen.late = 1 => low /\ at \notin {"handoff", "surface", "execute"}

IInv == TypeOK /\ Rounds /\ Judgement /\ Counted /\ Late

-----------------------------------------------------------------------------
(* Typing of what the steps have in common *)

\* A setting is of its type, and the bounds on its rounds are positive.
LEMMA SettingTyped ==
    ASSUME conf \in Settings
    PROVE  /\ conf \in SettingType
           /\ conf.attempts \in 1..MaxAttempts /\ conf.turns \in 1..MaxTurns
BY ScenarioAssumption, SettingsAssumption DEF SettingType

\* A round that is not the last leaves room for one more.
LEMMA RoundsLeft ==
    ASSUME TypeOK
    PROVE  /\ ~LastTurn => turn < conf.turns
           /\ ~LastAttempt => attempt + 1 \in 1..conf.attempts
BY SettingTyped, ScenarioAssumption DEF TypeOK, LastTurn, LastAttempt

\* What an attempt forgets is of its type.
LEMMA FreshTyped ==
    /\ NoGate \in GateType /\ Fresh \in OnceType /\ NoVerdict \in VerdictType
    /\ ~NoVerdict.rebound /\ ~NoVerdict.ready /\ NoVerdict.collab = "none"
BY DEF NoGate, GateType, Windows, Fresh, OnceType, NoVerdict, VerdictType, Plans, Bounds

\* The counters of an attempt that are still unused may be used.
LEMMA OnceCounts ==
    ASSUME NEW o \in OnceType
    PROVE  /\ o.reload < 1 => [o EXCEPT !.reload = @ + 1] \in OnceType
           /\ o.pageState < 1 => [o EXCEPT !.pageState = @ + 1] \in OnceType
           /\ [o EXCEPT !.refilled = TRUE] \in OnceType
           /\ \A n \in {0, 1} : o.reset < 1 \/ n = 0 => [o EXCEPT !.reset = @ + n] \in OnceType
           /\ \A r \in {o.rewind, 1}, f \in {o.force, 1} :
                 [o EXCEPT !.rewind = r, !.force = f] \in OnceType
<1>1. o.reload < 1 => [o EXCEPT !.reload = @ + 1] \in OnceType
  BY DEF OnceType
<1>2. o.pageState < 1 => [o EXCEPT !.pageState = @ + 1] \in OnceType
  BY DEF OnceType
<1>3. [o EXCEPT !.refilled = TRUE] \in OnceType
  BY DEF OnceType
<1>4. ASSUME NEW n \in {0, 1}, o.reset < 1 \/ n = 0
      PROVE  [o EXCEPT !.reset = @ + n] \in OnceType
  BY <1>4 DEF OnceType
<1>5. ASSUME NEW r \in {o.rewind, 1}, NEW f \in {o.force, 1}
      PROVE  [o EXCEPT !.rewind = r, !.force = f] \in OnceType
  <2>1. r \in 0..1 /\ f \in 0..1
    BY DEF OnceType
  <2>2. QED
    BY <2>1 DEF OnceType
<1>6. QED
  BY <1>1, <1>2, <1>3, <1>4, <1>5

\* What the gate notes of its windows and reloads.
LEMMA GateUpdates ==
    ASSUME NEW g \in GateType
    PROVE  /\ \A how \in Windows : [g EXCEPT !.manual = how] \in GateType
           /\ \A how \in Windows : [g EXCEPT !.manual = how, !.tries = 3] \in GateType
           /\ g.tries < 3 => [g EXCEPT !.tries = @ + 1] \in GateType
           /\ [g EXCEPT !.lost = TRUE] \in GateType
<1>1. \A how \in Windows : [g EXCEPT !.manual = how] \in GateType
  BY DEF GateType
<1>2. \A how \in Windows : [g EXCEPT !.manual = how, !.tries = 3] \in GateType
  <2>1. \A h \in GateType : [h EXCEPT !.tries = 3] \in GateType
    BY DEF GateType
  <2>2. QED
    BY <1>1, <2>1
<1>3. g.tries < 3 => [g EXCEPT !.tries = @ + 1] \in GateType
  BY DEF GateType
<1>4. [g EXCEPT !.lost = TRUE] \in GateType
  BY DEF GateType
<1>5. QED
  BY <1>1, <1>2, <1>3, <1>4

\* The counters the history follows, and what the judgement reads of a verdict.
SameActs(u, w) == u.px = w.px /\ u.manual = w.manual
SameHopes(v, w) == v.ready = w.ready /\ v.rebound = w.rebound

\* What the recoveries of a turn count, and what the history notes of them.
LEMMA UsedUpdates ==
    ASSUME NEW u \in UsedType
    PROVE  /\ \A w : u.px < PxMax /\ w = [u EXCEPT !.px = @ + 1] =>
                 w \in UsedType /\ w.px = u.px + 1 /\ w.manual = u.manual
           /\ \A w : u.manual < ManualMax /\ w = [u EXCEPT !.manual = @ + 1] =>
                 w \in UsedType /\ w.px = u.px /\ w.manual = u.manual + 1
           /\ \A w : u.vlm < CollabMax /\ w = [u EXCEPT !.vlm = @ + 1] =>
                 w \in UsedType /\ SameActs(w, u)
           /\ \A w : u.repair < CollabMax /\ w = [u EXCEPT !.repair = @ + 1] =>
                 w \in UsedType /\ SameActs(w, u)
           /\ \A w : u.planner < CollabMax /\ w = [u EXCEPT !.planner = @ + 1] =>
                 w \in UsedType /\ SameActs(w, u)
           /\ \A w : \A n \in {0, 1} : w = [u EXCEPT !.model = @ + n] =>
                 w \in UsedType /\ SameActs(w, u)
<1> USE ScenarioAssumption DEF UsedType, SameActs
<1>1. \A w : u.px < PxMax /\ w = [u EXCEPT !.px = @ + 1] =>
      w \in UsedType /\ w.px = u.px + 1 /\ w.manual = u.manual
  OBVIOUS
<1>2. \A w : u.manual < ManualMax /\ w = [u EXCEPT !.manual = @ + 1] =>
      w \in UsedType /\ w.px = u.px /\ w.manual = u.manual + 1
  OBVIOUS
<1>3. \A w : u.vlm < CollabMax /\ w = [u EXCEPT !.vlm = @ + 1] =>
      w \in UsedType /\ SameActs(w, u)
  OBVIOUS
<1>4. \A w : u.repair < CollabMax /\ w = [u EXCEPT !.repair = @ + 1] =>
      w \in UsedType /\ SameActs(w, u)
  OBVIOUS
<1>5. \A w : u.planner < CollabMax /\ w = [u EXCEPT !.planner = @ + 1] =>
      w \in UsedType /\ SameActs(w, u)
  OBVIOUS
<1>6. \A w : \A n \in {0, 1} : w = [u EXCEPT !.model = @ + n] =>
      w \in UsedType /\ SameActs(w, u)
  OBVIOUS
<1>7. QED
  BY <1>1, <1>2, <1>3, <1>4, <1>5, <1>6

LEMMA SeenUpdates ==
    ASSUME NEW s \in SeenType
    PROVE  /\ \A w : w = [s EXCEPT !.px = @ + 1] =>
                 w \in SeenType /\ w.px = s.px + 1 /\ w.windows = s.windows /\ w.late = s.late
           /\ \A w : w = [s EXCEPT !.windows = @ + 1] =>
                 w \in SeenType /\ w.px = s.px /\ w.windows = s.windows + 1 /\ w.late = s.late
           /\ \A w : \A n \in {0, 1} : (s.late = 0 \/ n = 0) /\ w = [s EXCEPT !.late = @ + n] =>
                 w \in SeenType /\ w.px = s.px /\ w.windows = s.windows /\ w.late = s.late + n
<1> USE DEF SeenType
<1>1. \A w : w = [s EXCEPT !.px = @ + 1] =>
      w \in SeenType /\ w.px = s.px + 1 /\ w.windows = s.windows /\ w.late = s.late
  OBVIOUS
<1>2. \A w : w = [s EXCEPT !.windows = @ + 1] =>
      w \in SeenType /\ w.px = s.px /\ w.windows = s.windows + 1 /\ w.late = s.late
  OBVIOUS
<1>3. \A w : \A n \in {0, 1} : (s.late = 0 \/ n = 0) /\ w = [s EXCEPT !.late = @ + n] =>
      w \in SeenType /\ w.px = s.px /\ w.windows = s.windows /\ w.late = s.late + n
  OBVIOUS
<1>4. QED
  BY <1>1, <1>2, <1>3

\* What a turn finds out.
LEMMA VerdictUpdates ==
    ASSUME NEW v \in VerdictType
    PROVE  /\ \A w : \A p \in Plans : w = [v EXCEPT !.collab = p] =>
                 w \in VerdictType /\ SameHopes(w, v)
           /\ \A w : w = [v EXCEPT !.suppressed = TRUE] =>
                 w \in VerdictType /\ SameHopes(w, v)
           /\ \A w : w = [v EXCEPT !.rebound = TRUE] =>
                 w \in VerdictType /\ w.ready = v.ready /\ w.rebound
           /\ \A w : \A t \in {"none", "mismatch"} : w = [v EXCEPT !.trace = t] =>
                 w \in VerdictType /\ SameHopes(w, v)
           /\ \A w : \A r \in BOOLEAN : w = [v EXCEPT !.ready = r] =>
                 w \in VerdictType /\ w.ready = r /\ w.rebound = v.rebound
           /\ \A w : \A b \in Bounds : w = [v EXCEPT !.bound = b] =>
                 w \in VerdictType /\ SameHopes(w, v)
<1> USE DEF VerdictType, Bounds, SameHopes
<1>1. \A w : \A p \in Plans : w = [v EXCEPT !.collab = p] =>
      w \in VerdictType /\ SameHopes(w, v)
  OBVIOUS
<1>2. \A w : w = [v EXCEPT !.suppressed = TRUE] =>
      w \in VerdictType /\ SameHopes(w, v)
  OBVIOUS
<1>3. \A w : w = [v EXCEPT !.rebound = TRUE] =>
      w \in VerdictType /\ w.ready = v.ready /\ w.rebound
  OBVIOUS
<1>4. \A w : \A t \in {"none", "mismatch"} : w = [v EXCEPT !.trace = t] =>
      w \in VerdictType /\ SameHopes(w, v)
  OBVIOUS
<1>5. \A w : \A r \in BOOLEAN : w = [v EXCEPT !.ready = r] =>
      w \in VerdictType /\ w.ready = r /\ w.rebound = v.rebound
  OBVIOUS
<1>6. \A w : \A b \in Bounds : w = [v EXCEPT !.bound = b] =>
      w \in VerdictType /\ SameHopes(w, v)
  OBVIOUS
<1>7. QED
  BY <1>1, <1>2, <1>3, <1>4, <1>5, <1>6

LEMMA InitHolds == Init => IInv
<1> SUFFICES ASSUME Init PROVE IInv
  OBVIOUS
<1>1. TypeOK
  <2>1. seen \in SeenType
    BY DEF Init, SeenType
  <2>2. used \in UsedType
    BY ScenarioAssumption DEF Init, Unused, UsedType
  <2>3. attempt \in 1..conf.attempts /\ turn \in 1..conf.turns
    BY SettingTyped, ScenarioAssumption DEF Init
  <2>4. at \in Places /\ html \in Shown /\ vouched \in BOOLEAN /\ plan \in Plans
    BY DEF Init, Places, Shown, Surfaces, Plans
  <2>5. gate \in GateType /\ once \in OnceType /\ verdict \in VerdictType
    BY FreshTyped DEF Init
  <2>6. conf \in Settings /\ low \in BOOLEAN /\ capped \in BOOLEAN
    BY DEF Init
  <2>7. recovery \in BOOLEAN /\ handoff \in BOOLEAN
    BY DEF Init
  <2>8. repeats \in 0..2
    BY DEF Init
  <2>9. QED
    BY <2>1, <2>2, <2>3, <2>4, <2>5, <2>6, <2>7, <2>8 DEF TypeOK
<1>2. Rounds /\ Judgement /\ Counted /\ Late
  BY FreshTyped DEF Init, Rounds, Judgement, ReadyAsJudged, Counted, Late, Unused, Over
<1>3. QED
  BY <1>1, <1>2 DEF IInv

\* The recovery of the page's state is counted once, and whatever it hands over
\* as ready was probed.
LEMMA PageStateHolds ==
    ASSUME IInv, NEW next \in {"rebind", "visionKind"},
           PageStateRecovery(next), at \notin Over, UNCHANGED <<startKeeps, plan, recovery>>
    PROVE  IInv'
<1> USE SettingTyped, FreshTyped DEF startKeeps, page, clocks, place, local, Go, Return, Forget,
     Captures, Shown, Surfaces, IInv, TypeOK, Places, Over, TrySteps, Rounds,
     Judgement, ReadyAsJudged, Counted, Late, Google, Demo, Recaptures, CapturesJudged
<1>1. CASE CapturesJudged(TRUE) /\ Return(TRUE)
  BY <1>1
<1>2. CASE Recaptures /\ Return(FALSE)
  BY <1>2
<1>3. CASE /\ once.pageState < 1
           /\ Recaptures
           /\ at' = next /\ once' = [once EXCEPT !.pageState = @ + 1]
           /\ UNCHANGED <<gate, handoff, verdict>>
  <2>1. once' \in OnceType
    BY <1>3, OnceCounts
  <2>2. QED
    BY <1>3, <2>1
<1>4. CASE UNCHANGED page /\ Go(next)
  BY <1>4
<1>5. QED
  BY <1>1, <1>2, <1>3, <1>4 DEF PageStateRecovery

LEMMA StartHolds == IInv /\ Start => IInv'
<1> SUFFICES ASSUME IInv, Start PROVE IInv'
  OBVIOUS
<1> USE SettingTyped, FreshTyped DEF startKeeps, page, clocks, place, local, Go, Return, Forget,
     Escape, Captures, CapturesJudged, Shown, Surfaces, IInv, TypeOK, Places, Over, TrySteps, Rounds,
     Judgement, ReadyAsJudged, Counted, Late, Google, Demo
<1>1. CASE Open
  BY <1>1 DEF Open
<1>2. CASE Opened
  BY <1>2 DEF Opened
<1>3. CASE TryAgent
  <2>1. CASE Skyscanner /\ UNCHANGED page /\ Go("planning")
    BY <1>3, <2>1 DEF TryAgent
  <2>2. CASE \E ready \in BOOLEAN :
                /\ CapturesJudged(ready)
                /\ IF ready THEN Return(TRUE)
                   ELSE Go(IF conf.deeplink THEN "probe" ELSE "planning")
    <3>1. CASE CapturesJudged(TRUE) /\ Return(TRUE)
      BY <1>3, <3>1 DEF TryAgent
    <3>2. CASE CapturesJudged(FALSE) /\ at' \in {"probe", "planning"} /\ UNCHANGED local
      BY <1>3, <3>2 DEF TryAgent
    <3>3. QED
      BY <2>2, <3>1, <3>2
  <2>3. QED
    BY <1>3, <2>1, <2>2 DEF TryAgent
<1>4. CASE ProbeDeeplink
  BY <1>4 DEF ProbeDeeplink
<1>5. CASE RecoverPageState
  BY <1>5, PageStateHolds DEF RecoverPageState
<1>6. CASE QuickRebind
  BY <1>6 DEF QuickRebind
<1>7. CASE RecoverPageStateAgain
  BY <1>7, PageStateHolds DEF RecoverPageStateAgain
<1>8. CASE VisionKind
  <2>1. CASE CapturesJudged(TRUE) /\ Return(TRUE)
    BY <1>8, <2>1 DEF VisionKind
  <2>2. CASE Recaptures /\ (Return(FALSE) \/ Go("planning"))
    <3>1. html' \in Shown /\ vouched' \in BOOLEAN
      BY <2>2 DEF Recaptures
    <3>2. at = "visionKind" /\ UNCHANGED <<startKeeps, plan, recovery>>
      BY <1>8 DEF VisionKind
    <3>3. CASE Return(FALSE)
      BY <3>1, <3>2, <3>3
    <3>4. CASE Go("planning")
      BY <3>1, <3>2, <3>4
    <3>5. QED
      BY <2>2, <3>3, <3>4
  <2>3. QED
    BY <1>8, <2>1, <2>2 DEF VisionKind
<1>9. CASE ChoosePlan
  BY <1>9 DEF ChoosePlan, FirstPlans, Plans
<1>10. CASE NoPlan
  BY <1>10 DEF NoPlan
<1>11. QED
  BY <1>1, <1>2, <1>3, <1>4, <1>5, <1>6, <1>7, <1>8, <1>9, <1>10 DEF Start

LEMMA GateHolds == IInv /\ Gate => IInv'
<1> SUFFICES ASSUME IInv, Gate PROVE IInv'
  OBVIOUS
<1> USE SettingTyped, FreshTyped DEF gateKeeps, gateLocals, page, setting, clocks, place, local,
     Go, Return, Forget, CapturesSafely, CapturesJudged, Shown, Surfaces, IInv, TypeOK, Places, Over,
     TrySteps, Rounds, Judgement, ReadyAsJudged, Counted, Late, Google, Demo
<1>1. CASE BeginAttempt
  BY <1>1 DEF BeginAttempt
<1>2. CASE NoGrace
  BY <1>2 DEF NoGrace
<1>3. CASE GraceWait
  BY <1>3 DEF GraceWait
<1>4. CASE GraceWindows
  BY <1>4, GateUpdates DEF GraceWindows
<1>5. CASE Reload
  BY <1>5, GateUpdates DEF Reload, MayReload, AfterReload
<1>6. CASE ReloadWindow
  <2>1. gate' \in GateType
    BY <1>6, GateUpdates DEF ReloadWindow, Windows
  <2>2. html' \in Shown /\ vouched' \in BOOLEAN /\ at' \in {"fallback", "validate"}
    BY <1>6 DEF ReloadWindow, Recaptures, Captures
  <2>3. at = "reloadWindow" /\ UNCHANGED <<gateKeeps, gateLocals>>
    BY <1>6 DEF ReloadWindow
  <2>4. QED
    BY <2>1, <2>2, <2>3
<1>7. CASE EndFallback
  BY <1>7 DEF EndFallback
<1>8. CASE LastResort
  BY <1>8, GateUpdates DEF LastResort
<1>9. CASE Validate
  BY <1>9, GateUpdates DEF Validate, BeginTurns
<1>10. CASE Rearm
  BY <1>10 DEF Rearm
<1>11. CASE Blocked
  BY <1>11 DEF Blocked
<1>12. QED
  BY <1>1, <1>2, <1>3, <1>4, <1>5, <1>6, <1>7, <1>8, <1>9, <1>10, <1>11 DEF Gate

LEMMA CollabHolds == IInv /\ Collab => IInv'
<1> SUFFICES ASSUME IInv, Collab PROVE IInv'
  OBVIOUS
<1> USE DEF SameActs, SameHopes, collabKeeps, page, Shown, setting, clocks, place, Follow, IInv, TypeOK, Places, Over,
     TrySteps, Rounds, Judgement, ReadyAsJudged, Counted, Late, Google, Demo
<1>1. CASE CollabVision
  <2>1. used' \in UsedType /\ SameActs(used', used)
    BY <1>1, UsedUpdates DEF CollabVision
  <2>2. verdict' \in VerdictType /\ SameHopes(verdict', verdict)
    BY <1>1, VerdictUpdates DEF CollabVision, Plans
  <2>3. QED
    BY <1>1, <2>1, <2>2 DEF CollabVision
<1>2. CASE CollabRepair
  <2>1. used' \in UsedType /\ SameActs(used', used)
    BY <1>2, UsedUpdates DEF CollabRepair
  <2>2. verdict' \in VerdictType /\ SameHopes(verdict', verdict)
    BY <1>2, VerdictUpdates DEF CollabRepair, Plans
  <2>3. QED
    BY <1>2, <2>1, <2>2 DEF CollabRepair
<1>3. CASE CollabPlanner
  <2>1. used' \in UsedType /\ SameActs(used', used)
    BY <1>3, UsedUpdates DEF CollabPlanner
  <2>2. verdict' \in VerdictType /\ SameHopes(verdict', verdict)
    BY <1>3, VerdictUpdates DEF CollabPlanner, Plans
  <2>3. QED
    BY <1>3, <2>1, <2>2 DEF CollabPlanner
<1>4. QED
  BY <1>1, <1>2, <1>3 DEF Collab

LEMMA ShellHolds == IInv /\ Shell => IInv'
<1> SUFFICES ASSUME IInv, Shell PROVE IInv'
  OBVIOUS
<1> USE SettingTyped DEF SameActs, SameHopes, shellKeeps, page, setting, clocks, place, Leaves, Captures, Shown, Surfaces, IInv, TypeOK,
     Places, Over, TrySteps, Rounds, Judgement, ReadyAsJudged, Counted, Late,
     Google, Demo
<1>1. CASE ShellWait
  BY <1>1 DEF ShellWait
<1>2. CASE ShellChallenge
  <2>1. CASE at' = "home" /\ UNCHANGED <<used, seen, page>>
    BY <1>2, <2>1 DEF ShellChallenge
  <2>2. CASE /\ used.px < PxMax
             /\ used' = [used EXCEPT !.px = @ + 1]
             /\ seen' = [seen EXCEPT !.px = @ + 1]
             /\ Leaves("home")
    <3>1. used' \in UsedType /\ used'.px = used.px + 1 /\ used'.manual = used.manual
      BY <2>2, UsedUpdates
    <3>2. /\ seen' \in SeenType /\ seen'.late = seen.late
          /\ seen'.px = seen.px + 1 /\ seen'.windows = seen.windows
      BY <2>2, SeenUpdates
    <3>3. QED
      BY <1>2, <2>2, <3>1, <3>2 DEF ShellChallenge
  <2>3. QED
    BY <1>2, <2>1, <2>2 DEF ShellChallenge
<1>3. CASE ShellHome
  <2> at = "home" /\ UNCHANGED <<shellKeeps, used, seen>>
    BY <1>3 DEF ShellHome
  <2>1. CASE at' = "window" /\ UNCHANGED <<page, verdict>>
    BY <2>1
  <2>2. CASE /\ verdict' = [verdict EXCEPT !.suppressed = TRUE]
             /\ at' = "window" /\ UNCHANGED page
    <3>1. verdict' \in VerdictType /\ SameHopes(verdict', verdict)
      BY <2>2, VerdictUpdates
    <3>2. QED
      BY <2>2, <3>1
  <2>3. CASE /\ ~LastTurn /\ html' = "form" /\ vouched' = FALSE /\ at' = "rejudge"
             /\ verdict' = [verdict EXCEPT !.rebound = TRUE]
    <3>1. verdict' \in VerdictType
      BY <2>3, VerdictUpdates
    <3>2. turn < conf.turns
      BY <2>3, RoundsLeft
    <3>3. html' \in Shown /\ vouched' = FALSE /\ at' = "rejudge"
      BY <2>3
    <3>4. TypeOK' /\ Rounds'
      BY <3>1, <3>2, <3>3
    <3>5. Judgement' /\ Counted' /\ Late'
      BY <3>3
    <3>6. QED
      BY <3>4, <3>5
  <2>4. QED
    BY <1>3, <2>1, <2>2, <2>3 DEF ShellHome
<1>4. CASE ShellWindow
  <2>1. CASE used.manual >= ManualMax /\ UNCHANGED <<used, seen, page>>
    BY <1>4, <2>1 DEF ShellWindow
  <2>2. CASE /\ used.manual < ManualMax
             /\ used' = [used EXCEPT !.manual = @ + 1]
             /\ seen' = [seen EXCEPT !.windows = @ + 1]
             /\ Recaptures
    <3>1. used' \in UsedType /\ used'.px = used.px /\ used'.manual = used.manual + 1
      BY <2>2, UsedUpdates
    <3>2. /\ seen' \in SeenType /\ seen'.late = seen.late
          /\ seen'.px = seen.px /\ seen'.windows = seen.windows + 1
      BY <2>2, SeenUpdates
    <3>3. QED
      BY <1>4, <2>2, <3>1, <3>2 DEF ShellWindow, Recaptures, Captures
  <2>3. QED
    BY <1>4, <2>1, <2>2 DEF ShellWindow
<1>5. QED
  BY <1>1, <1>2, <1>3, <1>4 DEF Shell

LEMMA RepairsTyped ==
    ASSUME once \in OnceType
    PROVE  PlannedRepairs \subseteq OnceType
<1>1. CASE Google
  <2> DEFINE Repaired(r, f) == [once EXCEPT !.rewind = r, !.force = f]
  <2>1. \A r \in {once.rewind, 1}, f \in {once.force, 1} : Repaired(r, f) \in OnceType
    BY OnceCounts
  <2>2. PlannedRepairs = {Repaired(r, f) : r \in {once.rewind, 1}, f \in {once.force, 1}}
    BY <1>1 DEF PlannedRepairs
  <2> HIDE DEF Repaired
  <2>3. QED
    BY <2>1, <2>2
<1>2. CASE ~Google
  BY <1>2 DEF PlannedRepairs
<1>3. QED
  BY <1>1, <1>2

\* The next attempt, or the end of the attempts.
LEMMA NextAttemptHolds ==
    ASSUME IInv, NextAttempt, at \notin Over, UNCHANGED <<setting, clocks, repeats, seen>>,
           html' \in Shown /\ vouched' \in BOOLEAN, plan' \in Plans,
           used' \in UsedType, SameActs(used', used)
    PROVE  IInv'
<1>1. attempt' \in 1..conf.attempts /\ turn' \in 1..conf.turns
  BY SettingTyped, ScenarioAssumption DEF NextAttempt, LastAttempt, place, IInv, TypeOK
<1>2. at' \in {"attempt", "exhausted"} /\ Forget
  BY DEF NextAttempt
<1>3. QED
  BY <1>1, <1>2, FreshTyped DEF page, Shown, Google, SameActs, Forget, setting, clocks, IInv, TypeOK, Places, Over,
     TrySteps, Rounds, Judgement, ReadyAsJudged, Counted, Late

\* The next turn, which only a turn that is not the last one is followed by.
LEMMA NextTurnHolds ==
    ASSUME IInv, NextTurn, turn < conf.turns, at \notin Over,
           UNCHANGED <<setting, clocks, repeats, seen, gate, handoff, used, page>>,
           plan' \in Plans, once' \in OnceType
    PROVE  IInv'
<1>1. attempt' \in 1..conf.attempts /\ turn' \in 1..conf.turns
  BY SettingTyped, ScenarioAssumption DEF NextTurn, IInv, TypeOK, setting
<1>2. at' = "turn" /\ verdict' = NoVerdict
  BY DEF NextTurn
<1>3. QED
  BY <1>1, <1>2, FreshTyped DEF page, Shown, Google, setting, clocks, IInv, TypeOK, Places, Over,
     TrySteps, Rounds, Judgement, ReadyAsJudged, Counted, Late

\* The judgement touches nothing of the verdict but its result.
LEMMA FindsIs ==
    ASSUME NEW ready \in BOOLEAN, verdict \in VerdictType, Finds(ready)
    PROVE  /\ verdict' \in VerdictType /\ verdict'.rebound = verdict.rebound
           /\ verdict'.ready = ready
BY VerdictUpdates DEF Finds

\* Looking for evidence leaves the typed verdict typed, promises no turn, and takes
\* no page for ready that was not.
Weaker(w, v) == w \in VerdictType /\ w.rebound = v.rebound /\ (w.ready => v.ready)

LEMMA EvidenceWeakens ==
    ASSUME verdict \in VerdictType
    PROVE  /\ \A v \in UNION {Corroborated(f) : f \in FormEvidence} : Weaker(v, verdict)
           /\ \A v \in UrlBound : /\ Weaker(v, verdict)
                                 /\ Weaker([v EXCEPT !.ready = FALSE], verdict)
           /\ Weaker([verdict EXCEPT !.ready = FALSE, !.bound = "no"], verdict)
<1>1. ASSUME NEW v \in VerdictType, NEW b \in Bounds
      PROVE  /\ Weaker([v EXCEPT !.bound = b], v)
             /\ Weaker([v EXCEPT !.ready = FALSE], v)
             /\ Weaker([v EXCEPT !.ready = FALSE, !.bound = b], v)
  <2>1. Weaker([v EXCEPT !.bound = b], v)
    BY DEF VerdictType, Weaker
  <2>2. \A u \in VerdictType : Weaker([u EXCEPT !.ready = FALSE], u)
    BY DEF VerdictType, Weaker
  <2>3. Weaker([v EXCEPT !.ready = FALSE, !.bound = b], v)
    BY DEF VerdictType, Weaker
  <2>4. QED
    BY <2>1, <2>2, <2>3
<1>2. \A v, w, u : Weaker(w, v) /\ Weaker(u, w) => Weaker(u, v)
  BY DEF Weaker
<1>3. Weaker(verdict, verdict)
  BY DEF Weaker
<1>4. \A f \in FormEvidence : Weaker(f, verdict)
  BY <1>1, <1>3 DEF FormEvidence, VisionReads, Bounds
<1>5. \A f \in VerdictType : \A v \in Corroborated(f) : Weaker(v, f)
  BY <1>1 DEF Corroborated, Bounds, Weaker
<1>6. \A v \in UrlBound : Weaker(v, verdict)
  BY <1>1, <1>3 DEF UrlBound, Bounds
<1>7. ASSUME NEW v \in UNION {Corroborated(f) : f \in FormEvidence}
      PROVE  Weaker(v, verdict)
  <2>1. PICK f \in FormEvidence : v \in Corroborated(f)
    OBVIOUS
  <2>2. Weaker(f, verdict) /\ f \in VerdictType
    BY <1>4 DEF Weaker
  <2>3. Weaker(v, f)
    BY <1>5, <2>1, <2>2
  <2>4. QED
    BY <1>2, <2>2, <2>3
<1>8. ASSUME NEW v \in UrlBound
      PROVE  Weaker([v EXCEPT !.ready = FALSE], verdict)
  <2>1. Weaker(v, verdict) /\ v \in VerdictType
    BY <1>6 DEF Weaker
  <2>2. Weaker([v EXCEPT !.ready = FALSE], v)
    BY <1>1, <2>1 DEF Bounds
  <2>3. QED
    BY <1>2, <2>1, <2>2
<1>9. QED
  BY <1>1, <1>6, <1>7, <1>8 DEF Bounds

\* A step within a turn keeps the invariant when what it finds is typed, promises no
\* turn, and the page fits the verdict.
LEMMA WithinTurn ==
    ASSUME IInv, at \notin Over, UNCHANGED turnGoesOn, html' \in Shown /\ vouched' \in BOOLEAN,
           at' \in Places \ {"followup", "handoff", "surface", "execute"},
           gate' \in GateType, handoff' \in BOOLEAN, once' \in OnceType,
           verdict' \in VerdictType, verdict'.rebound => verdict.rebound, Judgement'
    PROVE  IInv'
BY DEF page, Shown, Google, IInv, TypeOK, turnGoesOn, turnKeeps, setting, clocks, place, Rounds, Counted, Late, Over

\* Where the judgement is not looked at, any page will do.
Judging == {"judged", "evidence", "scope", "settle", "accept", "credit", "ready page"}

LEMMA UnjudgedHolds == at' \notin Judging => Judgement'
BY DEF Judging, Judgement, ReadyAsJudged

\* Where it is, the page at hand has passed, or is on its way to be settled.
LEMMA JudgedHolds ==
    ASSUME UNCHANGED conf,
           \/ at' \in {"judged", "evidence"} /\ (verdict'.ready => vouched')
           \/ at' = "settle" /\ (Google => vouched')
    PROVE  Judgement'
BY DEF Judgement, ReadyAsJudged, Google

\* A capture handed over as it is.
LEMMA ReturnHolds ==
    ASSUME IInv, at \notin Over, UNCHANGED turnGoesOn, html' \in Shown /\ vouched' \in BOOLEAN,
           NEW ready \in BOOLEAN, Return(ready),
           ready => vouched'
    PROVE  IInv'
<1>1. Judgement'
  BY DEF Judgement, ReadyAsJudged, Return
<1>2. at' \in {"page", "ready page"} /\ Forget
  BY DEF Return
<1>3. QED
  BY <1>1, <1>2, WithinTurn, FreshTyped DEF Forget, Places, Over

LEMMA TurnHolds == IInv /\ Turn => IInv'
<1> SUFFICES ASSUME IInv, Turn PROVE IInv'
  OBVIOUS
<1> USE SettingTyped, FreshTyped DEF turnGoesOn, turnKeeps, page, Google, setting, clocks, place, local, Go,
     Return, Forget, Captures, Shown, Surfaces, IInv, TypeOK, Places, Over, TrySteps,
     Rounds, Judgement, ReadyAsJudged, Counted, Late
<1>1. CASE TurnGate
  <2>1. at = "turn" /\ UNCHANGED turnGoesOn
    BY <1>1 DEF TurnGate
  <2>2. CASE Captures /\ Return(FALSE)
    BY <2>1, <2>2, ReturnHolds
  <2>3. CASE ~low /\ UNCHANGED page /\ Go("handoff")
    BY <2>1, <2>3
  <2>4. QED
    BY <1>1, <2>2, <2>3 DEF TurnGate
<1>2. CASE Handoff
  <2>1. CASE NextAttempt /\ UNCHANGED plan
    <3>1. at = "handoff" /\ UNCHANGED <<turnKeeps, page, seen>>
      BY <1>2 DEF Handoff
    <3>2. QED
      BY <2>1, <3>1, NextAttemptHolds DEF SameActs
  <2>2. CASE ~handoff /\ Go("surface") /\ UNCHANGED <<plan, place>>
    BY <1>2, <2>2 DEF Handoff
  <2>3. CASE /\ at' = "surface" /\ handoff' = FALSE
             /\ UseResults \/ Refill
             /\ UNCHANGED <<place, gate, verdict>>
    <3>1. plan' \in Plans /\ once' \in OnceType
      BY <2>3, OnceCounts DEF UseResults, Refill, Plans
    <3>2. QED
      BY <1>2, <2>3, <3>1 DEF Handoff
  <2>4. QED
    BY <1>2, <2>1, <2>2, <2>3 DEF Handoff
<1>3. CASE Surface
  <2>1. at = "surface" /\ UNCHANGED <<turnKeeps, page, plan, seen>>
    BY <1>3 DEF Surface
  <2>2. CASE Go("execute") /\ UNCHANGED place
    BY <2>1, <2>2
  <2>3. CASE NextAttempt
    BY <2>1, <2>3, NextAttemptHolds DEF SameActs
  <2>4. QED
    BY <1>3, <2>2, <2>3 DEF Surface
<1>4. CASE ExecuteDemo
  <2>1. at = "execute" /\ UNCHANGED turnGoesOn
    BY <1>4 DEF ExecuteDemo
  <2>2. CASE Captures /\ Return(FALSE)
    BY <2>1, <2>2, ReturnHolds
  <2>3. CASE Go("trace") /\ UNCHANGED page
    BY <2>1, <2>3
  <2>4. QED
    BY <1>4, <2>2, <2>3 DEF ExecuteDemo
<1>5. CASE ExecutePlan
  <2>1. /\ seen' \in SeenType /\ seen'.px = seen.px /\ seen'.windows = seen.windows
        /\ seen'.late = 1 => low
    BY <1>5, SeenUpdates DEF ExecutePlan, SeenType
  <2>2. QED
    BY <1>5, <2>1 DEF ExecutePlan
<1>6. CASE Trace
  <2>1. at = "trace" /\ UNCHANGED turnGoesOn
    BY <1>6 DEF Trace
  <2>2. CASE Go("capture") /\ UNCHANGED page
    BY <2>1, <2>2
  <2>3. CASE Captures /\ Return(FALSE)
    BY <2>1, <2>3, ReturnHolds
  <2>4. CASE UNCHANGED page /\ at' \in {"collabVision", "date"} /\ UNCHANGED local
    BY <2>1, <2>4
  <2>5. CASE MismatchFound
    <3>1. once' \in OnceType
      BY <2>5, OnceCounts DEF MismatchFound
    <3>2. verdict' \in VerdictType /\ SameHopes(verdict', verdict)
      BY <2>5, VerdictUpdates DEF MismatchFound
    <3>3. at' = "capture" /\ UNCHANGED <<page, gate, handoff>>
      BY <2>5 DEF MismatchFound
    <3>4. QED
      BY <2>1, <3>1, <3>2, <3>3, WithinTurn, UnjudgedHolds DEF SameHopes, Judging
  <2>6. QED
    BY <1>6, <2>2, <2>3, <2>4, <2>5 DEF Trace, DateFound
<1>7. CASE DateFailure
  <2>1. at = "date" /\ UNCHANGED turnGoesOn
    BY <1>7 DEF DateFailure
  <2>2. CASE UNCHANGED page /\ Go("capture")
    BY <2>1, <2>2
  <2>3. CASE /\ once.reload < 1
             /\ once' = [once EXCEPT !.reload = @ + 1]
             /\ at' = "capture" /\ UNCHANGED <<page, gate, handoff, verdict>>
    <3>1. once' \in OnceType
      BY <2>3, OnceCounts
    <3>2. QED
      BY <2>1, <2>3, <3>1
  <2>4. CASE Captures /\ Return(FALSE)
    BY <2>1, <2>4, ReturnHolds
  <2>5. QED
    BY <1>7, <2>2, <2>3, <2>4 DEF DateFailure
<1>8. CASE Capture
  <2>1. at = "capture" /\ UNCHANGED turnGoesOn
    BY <1>8 DEF Capture
  <2>2. CASE UNCHANGED page /\ Return(FALSE)
    BY <2>1, <2>2, ReturnHolds
  <2>3. CASE /\ \E ready \in BOOLEAN :
                   /\ CapturesJudged(ready) /\ Finds(ready)
                   /\ at' = IF ~ready /\ html' = "shell" THEN "shell" ELSE "judged"
             /\ othersStay
    <3>1. PICK ready \in BOOLEAN :
             /\ CapturesJudged(ready) /\ Finds(ready)
             /\ at' = IF ~ready /\ html' = "shell" THEN "shell" ELSE "judged"
      BY <2>3
    <3>2. /\ verdict' \in VerdictType /\ verdict'.rebound = verdict.rebound
          /\ verdict'.ready = ready
      BY <3>1, FindsIs
    <3>3. html' \in Shown /\ vouched' = ready /\ at' \in {"shell", "judged"}
      BY <3>1 DEF CapturesJudged
    <3>4. Judgement'
      BY <2>1, <3>2, <3>3, JudgedHolds, UnjudgedHolds DEF Judging
    <3>5. QED
      BY <2>1, <2>3, <3>2, <3>3, <3>4, WithinTurn DEF othersStay
  <2>4. QED
    BY <1>8, <2>2, <2>3 DEF Capture
<1>9. CASE Rejudge
  <2>1. at = "rejudge" /\ at' = "judged" /\ UNCHANGED <<turnGoesOn, html>> /\ othersStay
    BY <1>9 DEF Rejudge
  <2>2. PICK ready \in BOOLEAN : vouched' = ready /\ Finds(ready)
    BY <1>9 DEF Rejudge
  <2>3. /\ verdict' \in VerdictType /\ verdict'.rebound = verdict.rebound
        /\ verdict'.ready = ready
    BY <2>2, FindsIs
  <2>4. Judgement'
    BY <2>1, <2>2, <2>3, JudgedHolds
  <2>5. QED
    BY <2>1, <2>2, <2>3, <2>4, WithinTurn DEF othersStay
<1>10. CASE AfterJudgement
  <2>1. at = "judged" /\ UNCHANGED <<turnKeeps, page, seen>>
    BY <1>10 DEF AfterJudgement
  <2>2. CASE Return(FALSE) /\ UNCHANGED <<plan, place>>
    BY <2>1, <2>2, ReturnHolds
  <2>3. CASE at' = "handle" /\ Forget /\ UNCHANGED <<plan, place>>
    BY <2>1, <2>3
  <2>4. CASE verdict.rebound /\ plan' = "local" /\ NextTurn /\ othersStay
    BY <2>1, <2>4, NextTurnHolds DEF othersStay, Plans
  <2>5. CASE Demo /\ Return(verdict.ready) /\ UNCHANGED <<plan, place>>
    <3>1. verdict.ready \in BOOLEAN
      BY DEF VerdictType
    <3>2. QED
      BY <2>1, <2>5, <3>1, ReturnHolds
  <2>6. CASE Go("evidence") /\ UNCHANGED <<plan, place>>
    <3>1. at' = "evidence" /\ UNCHANGED <<conf, local, page>>
      BY <2>1, <2>6
    <3>2. Judgement'
      BY <2>1, <3>1, JudgedHolds
    <3>3. QED
      BY <2>1, <2>6, <3>1, <3>2, WithinTurn
  <2>7. QED
    BY <1>10, <2>2, <2>3, <2>4, <2>5, <2>6 DEF AfterJudgement
<1>11. CASE GoogleEvidence
  BY <1>11, EvidenceWeakens DEF GoogleEvidence, othersStay, Weaker
<1>12. CASE SkyscannerEvidence
  <2>1. Weaker(verdict', verdict)
    BY <1>12, EvidenceWeakens DEF SkyscannerEvidence
  <2>2. html' \in Shown /\ vouched' \in BOOLEAN /\ at' = "scope" /\ Skyscanner /\ at = "evidence"
    BY <1>12 DEF SkyscannerEvidence, Recaptures
  <2>3. Judgement'
    BY <1>12, <2>2 DEF Google, Skyscanner, SkyscannerEvidence
  <2>4. QED
    BY <1>12, <2>1, <2>2, <2>3, WithinTurn DEF SkyscannerEvidence, othersStay, Weaker
<1>13. CASE ScopeUnready
  BY <1>13 DEF ScopeUnready, Recaptures
<1>14. CASE ScopeReady
  <2>1. at = "scope" /\ verdict.ready /\ othersStay /\ UNCHANGED <<turnGoesOn, page>>
    BY <1>14 DEF ScopeReady
  <2>2. PICK bound \in Probed :
          LET read == [verdict EXCEPT !.bound = bound]
          IN  \/ verdict' = [read EXCEPT !.ready = FALSE] /\ at' = "limit"
              \/ /\ RouteConsistent(bound)
                 /\ verdict' = read /\ at' = "settle"
    BY <1>14 DEF ScopeReady
  <2>3. bound \in Bounds
    BY DEF Probed, Bounds, VerdictType
  <2>4. verdict' \in VerdictType /\ verdict'.rebound = verdict.rebound
    <3> DEFINE read == [verdict EXCEPT !.bound = bound]
    <3>1. read \in VerdictType /\ read.rebound = verdict.rebound
      BY <2>3, VerdictUpdates DEF SameHopes
    <3>2. [read EXCEPT !.ready = FALSE].rebound = read.rebound
      BY <3>1 DEF VerdictType
    <3>3. QED
      BY <2>2, <3>1, <3>2, VerdictUpdates
  <2>5. at' \in {"limit", "settle"}
    BY <2>2
  <2>6. Judgement'
    BY <2>1, <2>5, JudgedHolds, UnjudgedHolds DEF Judging
  <2>7. QED
    BY <2>1, <2>4, <2>5, <2>6, WithinTurn DEF othersStay
<1>15. CASE Settle
  <2>1. at = "settle" /\ othersStay /\ UNCHANGED turnGoesOn
    BY <1>15 DEF Settle
  <2>2. at' = IF verdict'.ready THEN "accept" ELSE "limit"
    BY <1>15 DEF Settle
  <2>3. CASE Google /\ UNCHANGED <<page, verdict>>
    BY <2>1, <2>2, <2>3 DEF othersStay
  <2>4. CASE Skyscanner /\ \E ready \in BOOLEAN : Settles(ready)
    <3>1. PICK ready \in BOOLEAN : Settles(ready)
      BY <2>4
    <3>2. /\ verdict' \in VerdictType /\ verdict'.rebound = verdict.rebound
          /\ verdict'.ready = ready
      BY <3>1, FindsIs DEF Settles
    <3>3. html' \in Shown /\ vouched' = ready /\ (ready => html' # "shell")
      BY <3>1 DEF Settles
    <3>4. Judgement'
      BY <2>1, <2>2, <3>2, <3>3
    <3>5. QED
      BY <2>1, <2>2, <3>2, <3>3, <3>4, WithinTurn DEF othersStay
  <2>5. QED
    BY <1>15, <2>3, <2>4 DEF Settle
<1>16. CASE Accept
  BY <1>16 DEF Accept
<1>17. CASE Credit
  BY <1>17 DEF Credit
<1>18. CASE TurnLimit
  BY <1>18, RoundsLeft DEF TurnLimit
<1>19. CASE FollowUp
  <2>1. at = "followup" /\ UNCHANGED <<turnKeeps, page, seen>>
    BY <1>19 DEF FollowUp
  <2>2. CASE /\ plan' \in FollowUps /\ NextTurn
             /\ once' \in PlannedRepairs /\ UNCHANGED <<gate, handoff>>
    <3>1. once' \in OnceType
      BY <2>2, RepairsTyped
    <3>2. plan' \in Plans
      BY <2>2 DEF FollowUps, Plans, VerdictType
    <3>3. QED
      BY <2>1, <2>2, <3>1, <3>2, NextTurnHolds
  <2>3. CASE UNCHANGED <<plan, place>> /\ Return(FALSE)
    BY <2>1, <2>3, ReturnHolds
  <2>4. CASE UNCHANGED <<plan, place>> /\ at' = "handle" /\ Forget
    BY <2>1, <2>4
  <2>5. QED
    BY <1>19, <2>2, <2>3, <2>4 DEF FollowUp
<1>20. QED
  BY <1>1, <1>2, <1>3, <1>4, <1>5, <1>6, <1>7, <1>8, <1>9, <1>10, <1>11, <1>12, <1>13,
     <1>14, <1>15, <1>16, <1>17, <1>18, <1>19 DEF Turn

\* The handler of a failed attempt and what may follow it.
LEMMA EscalationHolds ==
    ASSUME IInv, at = "escalate", UNCHANGED <<handlerKeeps, page, repeats>>,
           NEW plans \in SUBSET Plans, NEW calls \in {0, 1}, Escalation(plans, calls)
    PROVE  IInv'
<1>1. used' \in UsedType /\ SameActs(used', used)
  BY UsedUpdates DEF Escalation, IInv, TypeOK
<1>2. html' \in Shown /\ vouched' \in BOOLEAN /\ plan \in Plans /\ at \notin Over
  BY DEF page, IInv, TypeOK, Over
<1>3. CASE NextAttempt /\ plan' \in Plans
  BY <1>1, <1>2, <1>3, NextAttemptHolds DEF handlerKeeps
<1>4. CASE Escape /\ UNCHANGED <<plan, place>>
  BY <1>1, <1>2, <1>4, FreshTyped DEF handlerKeeps, page, Shown, Google, Escape, Forget, setting, clocks, place,
     SameActs, IInv, TypeOK, Places, Over, Rounds, Judgement, ReadyAsJudged,
     Counted, Late
<1>5. QED
  BY <1>2, <1>3, <1>4 DEF Escalation

LEMMA EscalateHolds == IInv /\ Escalate => IInv'
<1> SUFFICES ASSUME IInv, Escalate PROVE IInv'
  OBVIOUS
<1>1. at = "escalate" /\ UNCHANGED <<handlerKeeps, page, repeats>>
  BY DEF Escalate
<1>2. \/ Escalation({"local"}, 0) \/ Escalation({}, 0)
      \/ Escalation({"model"}, 1)
  BY DEF Escalate, EscalateFast, EscalateModel, AskModel
<1>3. {"local"} \in SUBSET Plans /\ {"model"} \in SUBSET Plans /\ {} \in SUBSET Plans
  BY DEF Plans
<1>4. QED
  BY <1>1, <1>2, <1>3, EscalationHolds

\* Nothing but the clocks moves, and they only go on.
LEMMA WaitHolds ==
    ASSUME IInv, UNCHANGED <<conf, at, html, vouched, plan, recovery, attempt, turn>>,
           UNCHANGED <<gate, handoff, once, verdict, used, repeats, seen>>,
           low' \in BOOLEAN, capped' \in BOOLEAN, low => low'
    PROVE  IInv'
<1>1. TypeOK' /\ Rounds' /\ Counted' /\ Late'
  BY DEF Shown, Google, IInv, TypeOK, Rounds, Counted, Late
<1>2. Judgement'
  BY DEF IInv, Judgement, ReadyAsJudged, Google, Demo
<1>3. QED
  BY <1>1, <1>2 DEF IInv

LEMMA PassesIs ==
    ASSUME Passes, low \in BOOLEAN, capped \in BOOLEAN
    PROVE  low' \in BOOLEAN /\ capped' \in BOOLEAN /\ (low => low')
<1>1. CASE low' = TRUE /\ UNCHANGED capped
  BY <1>1
<1>2. CASE capped' = TRUE /\ UNCHANGED low
  BY <1>2
<1>3. QED
  BY <1>1, <1>2 DEF Passes

LEMMA CountErrorIs ==
    ASSUME CountError, repeats \in 0..1
    PROVE  /\ repeats' \in 0..2
           /\ (repeats' = 2 /\ Escape) \/ (repeats' < 2 /\ Go("escalate"))
<1>1. repeats' \in 0..2
  BY DEF CountError
<1>2. QED
  BY <1>1 DEF CountError

LEMMA HandlerHolds ==
    IInv /\ (HandleFailure \/ Exhausted \/ StepFails \/ Breaks \/ Passes \/ UNCHANGED vars)
        => IInv'
<1> SUFFICES ASSUME IInv,
                    HandleFailure \/ Exhausted \/ StepFails \/ Breaks \/ Passes \/ UNCHANGED vars
             PROVE  IInv'
  OBVIOUS
<1> USE SettingTyped, FreshTyped DEF handlerKeeps, page, setting, clocks, place, local, Go, Escape,
     Return, Forget, Captures, Shown, Surfaces, IInv, TypeOK, Places, Over, Rounds,
     Judgement, ReadyAsJudged, Counted, Late, Google, Demo
<1>1. CASE HandleFailure
  <2>1. at = "handle" /\ UNCHANGED <<handlerKeeps, place, plan, used>> /\ html' \in Shown /\ vouched' \in BOOLEAN
    BY <1>1 DEF HandleFailure, Recaptures
  <2>2. CASE Return(FALSE) /\ UNCHANGED repeats
    BY <2>1, <2>2
  <2>3. CASE CountError
    <3>1. repeats \in 0..1
      BY <2>1
    <3>2. /\ repeats' \in 0..2
          /\ (repeats' = 2 /\ Escape) \/ (repeats' < 2 /\ Go("escalate"))
      BY <2>3, <3>1, CountErrorIs
    <3>3. CASE repeats' = 2 /\ Escape
      BY <2>1, <3>2, <3>3
    <3>4. CASE repeats' < 2 /\ Go("escalate")
      BY <2>1, <3>2, <3>4
    <3>5. QED
      BY <3>2, <3>3, <3>4
  <2>4. QED
    BY <1>1, <2>2, <2>3 DEF HandleFailure, ReturnOwnError
<1>2. CASE Exhausted
  BY <1>2 DEF Exhausted, CapturesSafely
<1>3. CASE StepFails
  BY <1>3 DEF StepFails, TrySteps
<1>4. CASE Breaks
  BY <1>4 DEF Breaks
<1>5. CASE Passes
  <2>1. low' \in BOOLEAN /\ capped' \in BOOLEAN /\ (low => low')
    BY <1>5, PassesIs
  <2>2. QED
    BY <1>5, <2>1, WaitHolds DEF Passes
<1>6. CASE UNCHANGED vars
  BY <1>6, WaitHolds DEF vars
<1>7. QED
  BY <1>1, <1>2, <1>3, <1>4, <1>5, <1>6

LEMMA StepHolds == IInv /\ [Next]_vars => IInv'
BY StartHolds, GateHolds, CollabHolds, ShellHolds, TurnHolds, EscalateHolds, HandlerHolds
DEF Next, Steps

(* What every state of a scenario satisfies: the types, and what has been      *)
(* judged, counted and promised at each place of the turn.                     *)
THEOREM Inductive == Spec => []IInv
BY InitHolds, StepHolds, PTL DEF Spec

-----------------------------------------------------------------------------
(* The theorems *)

\* Every variable keeps its type: the counters of an attempt stay within one, those
\* of the scenario within their limits, the round within those asked for.
THEOREM ScenarioTypeCorrect == Spec => []TypeOK
<1>1. IInv => TypeOK
  BY DEF IInv
<1>2. QED
  BY <1>1, Inductive, PTL

\* Whatever the site shows and the tests say of it: what is handed over as ready is a
\* page such a test has passed as it is, with no capture in between, and what a turn
\* stores and credits is besides no shell (run_agentic_scenario.py 3260-4690).
THEOREM ReadyIsJudged == Spec => []ReadyAsJudged
<1>1. IInv => ReadyAsJudged
  BY DEF IInv, Judgement
<1>2. QED
  BY <1>1, Inductive, PTL

\* After the soft margin of the budget at most one more plan is carried out.
THEOREM BudgetEndsWork == Spec => []WorkEndsWithBudget
<1>1. IInv => WorkEndsWithBudget
  BY DEF IInv, TypeOK, SeenType, WorkEndsWithBudget
<1>2. QED
  BY <1>1, Inductive, PTL

\* The recoveries of the blank shell and the windows forced by it stay within their
\* limits over all attempts.
THEOREM RecoveriesStayBounded == Spec => []RecoveriesBounded
<1>1. IInv => RecoveriesBounded
  BY ScenarioAssumption DEF IInv, TypeOK, UsedType, Counted, RecoveriesBounded
<1>2. QED
  BY <1>1, Inductive, PTL

-----------------------------------------------------------------------------
(* The steps of the contract.  Every step of a scenario comes before its answer, *)
(* and leaves the round alone but for the two that begin another one.            *)

Moves ==
    /\ at \notin Over /\ UNCHANGED conf
    /\ UNCHANGED place \/ NextAttempt \/ (NextTurn /\ turn < conf.turns)

LEMMA StartMoves == Start => Moves
BY DEF Start, Open, Opened, TryAgent, ProbeDeeplink, RecoverPageState, QuickRebind,
   RecoverPageStateAgain, VisionKind, ChoosePlan, NoPlan, startKeeps, Moves, Over

LEMMA GateMoves == Gate => Moves
BY DEF Gate, BeginAttempt, NoGrace, GraceWait, GraceWindows, Reload, ReloadWindow,
   EndFallback, LastResort, Validate, Rearm, Blocked, gateKeeps, setting, Moves, Over

LEMMA RecoveryMoves == Collab \/ Shell => Moves
BY DEF Collab, CollabVision, CollabRepair, CollabPlanner, collabKeeps, Shell, ShellWait,
   ShellChallenge, ShellHome, ShellWindow, shellKeeps, setting, Moves, Over

LEMMA TurnMoves == IInv /\ Turn => Moves
<1> SUFFICES ASSUME IInv, Turn PROVE Moves
  OBVIOUS
<1> USE DEF Moves, Over, turnGoesOn, turnKeeps, setting
<1>1. CASE TurnGate \/ ExecuteDemo \/ ExecutePlan \/ Trace \/ DateFailure
  BY <1>1 DEF TurnGate, ExecuteDemo, ExecutePlan, Trace, DateFailure
<1>2. CASE Capture \/ Rejudge \/ GoogleEvidence \/ SkyscannerEvidence
  BY <1>2 DEF Capture, Rejudge, GoogleEvidence, SkyscannerEvidence
<1>3. CASE ScopeUnready \/ ScopeReady \/ Settle \/ Accept \/ Credit \/ TurnLimit
  BY <1>3 DEF ScopeUnready, ScopeReady, Settle, Accept, Credit, TurnLimit
<1>4. CASE Handoff \/ Surface
  BY <1>4 DEF Handoff, Surface
<1>5. CASE AfterJudgement
  BY <1>5 DEF AfterJudgement, IInv, Rounds
<1>6. CASE FollowUp
  BY <1>6 DEF FollowUp, IInv, Rounds
<1>7. QED
  BY <1>1, <1>2, <1>3, <1>4, <1>5, <1>6 DEF Turn

LEMMA HandlerMoves ==
    HandleFailure \/ Escalate \/ Exhausted \/ StepFails \/ Breaks \/ Passes => Moves
BY DEF HandleFailure, Escalate, EscalateFast, EscalateModel, AskModel, Escalation, Exhausted,
   StepFails, TrySteps, Breaks, Passes, handlerKeeps, setting, Moves, Over

LEMMA NextMoves == IInv /\ Next => Moves
BY StartMoves, GateMoves, RecoveryMoves, TurnMoves, HandlerMoves DEF Next, Steps

LEMMA MovesKeepContract ==
    ASSUME IInv, IInv', Moves
    PROVE  [Contract!Next]_(Contract!vars)
<1>1. at' \in Places /\ Over = {"page", "ready page", "exception"}
  BY DEF IInv, TypeOK, Over
<1>2. CASE UNCHANGED place
  BY <1>1, <1>2 DEF place, Moves, Contract!Next, Contract!Answer, Contract!vars
<1>3. CASE NextAttempt /\ LastAttempt
  BY <1>1, <1>3 DEF NextAttempt, place, Moves, Contract!vars
<1>4. CASE NextAttempt /\ ~LastAttempt
  <2>1. attempt < MaxAttempts
    BY <1>4, RoundsLeft, SettingTyped, ScenarioAssumption DEF IInv, TypeOK
  <2>2. at \notin Over /\ at' = "attempt" /\ attempt' = attempt + 1 /\ turn' = 1
    BY <1>4 DEF NextAttempt, Moves
  <2>3. QED
    BY <1>1, <2>1, <2>2 DEF Contract!Next, Contract!Work
<1>5. CASE NextTurn /\ turn < conf.turns
  <2>1. turn < MaxTurns
    BY <1>5, SettingTyped, ScenarioAssumption DEF IInv, TypeOK
  <2>2. at \notin Over /\ at' = "turn" /\ attempt' = attempt /\ turn' = turn + 1
    BY <1>5 DEF NextTurn, Moves
  <2>3. QED
    BY <1>1, <2>1, <2>2 DEF Contract!Next, Contract!Work
<1>6. QED
  BY <1>2, <1>3, <1>4, <1>5 DEF Moves

\* A scenario makes at most as many rounds as the contract allows, one after the
\* other, and gives one answer, after which nothing happens (run_agentic_scenario.py,
\* the loops at 2085 and 2371 and all its returns).
THEOREM ScenarioKeepsRounds == Spec => Contract!Safety
<1>1. Init => Contract!Init
  BY DEF Init, Contract!Init, Over
<1>2. IInv /\ IInv' /\ [Next]_vars => [Contract!Next]_(Contract!vars)
  <2>1. CASE UNCHANGED vars
    BY <2>1 DEF vars, Contract!vars
  <2>2. CASE IInv /\ IInv' /\ Next
    BY <2>2, NextMoves, MovesKeepContract
  <2>3. QED
    BY <2>1, <2>2
<1>3. QED
  BY <1>1, <1>2, Inductive, PTL DEF Spec, Contract!Safety
===============================================================================

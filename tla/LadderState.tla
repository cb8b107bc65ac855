---------------------------- MODULE LadderState ----------------------------
(***************************************************************************)
(* The state of one extraction (extract_price and extract_with_llm of      *)
(* core/extractor.py): its settings, the page snapshot it works on, what   *)
(* the extraction remembers between the means it tries, and its clock.     *)
(***************************************************************************)
EXTENDS Integers, FiniteSets, RouteBinding, ScopeGuard

CONSTANTS
    Settings,       \* the settings an extraction may run under, see SettingsType
    Pages,          \* the page snapshots it may be given, see PagesType
    TextOpinions,   \* what the scope probe of the text model may say
    VisionOpinions, \* what the scope probe of the vision model may say
    Variants,       \* image variants the screenshot is sent in
    TokenRetries    \* vlm_extract_token_cap_retries

(* A setting: google tells Google Flights from Skyscanner, known whether the *)
(* route is given, shot whether there is a screenshot, strong stands for     *)
(* scenario_route_bind_gate_requires_strong, closed for ..._fail_closed_on_  *)
(* mismatch, shut for the fail closed flags of the scope guards and the      *)
(* price verification, chunks for the attempts on semantic chunks of a long  *)
(* page, 0 when there are none, cap for extract_wall_clock_cap_sec in model  *)
(* calls, 0 when off.                                                        *)
SettingsType ==
    [google : BOOLEAN, light : BOOLEAN, skipText : BOOLEAN, lookLight : BOOLEAN,
     vlm : BOOLEAN, multi : {"off", "assist", "primary", "judge", "judge_primary"},
     plugin : BOOLEAN, known : BOOLEAN, shot : BOOLEAN, strong : BOOLEAN,
     closed : BOOLEAN, shut : BOOLEAN, chunks : Nat, cap : Nat]

(* A page: its form, whether it is a package page or shows no flights, and   *)
(* whether its text carries the words of the route.                          *)
PagesType ==
    [form : Forms, package : BOOLEAN, elsewhere : BOOLEAN, words : BOOLEAN]

ASSUME LadderAssumption ==
    /\ Settings \subseteq SettingsType
    /\ Pages \subseteq PagesType
    /\ TextOpinions \subseteq Opinions
    /\ VisionOpinions \subseteq Opinions \cup {NoOpinion}
    /\ Variants \in Nat \ {0}
    /\ TokenRetries \in Nat

Sources == {"none", "heuristic_skyscanner_service", "plugin", "heuristic_guard",
            "heuristic_embedded", "heuristic_html", "heuristic_chunk",
            "heuristic_dom_probe", "vlm", "vision_price_assist",
            "vlm_multimodal", "llm", "llm_chunk", "watchdog"}

(* A candidate or result: whether it has a price, its confidence (1 is low), *)
(* its source, the support of the route it was given, the state of the       *)
(* scope guard, whether its selector is brittle and whether it names a       *)
(* flight page itself.                                                       *)
Candidates ==
    [price : BOOLEAN, rank : 1..3, src : Sources, support : Supports,
     guard : {"skip", "pass", "fail", "conflict_resolved"},
     brittle : BOOLEAN, affirmed : BOOLEAN]

Found(src, rank) ==
    [price |-> TRUE, rank |-> rank, src |-> src, support |-> "none",
     guard |-> "skip", brittle |-> FALSE, affirmed |-> FALSE]
Unpriced(src) == [Found(src, 1) EXCEPT !.price = FALSE]

VARIABLES
    pc,       \* the rung of the ladder that comes next
    conf,     \* the settings of this extraction
    page,     \* the snapshot it works on
    verdict,  \* route_bind_verdict_cache
    tried,    \* the once flags: vlm_attempted, vision_assist_attempted, ...
    look,     \* the vision call in progress, NoLook when there is none
    left,     \* chunk attempts that are left on this rung
    spent,    \* model calls counted on the clock of the extraction
    out,      \* the result
    looks,    \* history: the calls that had the screenshot priced, by rung
    doubted   \* history: both scope probes spoke, and only against the page

vars == <<pc, conf, page, verdict, tried, look, left, spent, out,
          looks, doubted>>

NoLook == [asker |-> "none"]
NoVerdict == [support |-> "none", bound |-> FALSE, reason |-> "unasked"]

(* A model call may or may not take the time the cap is measured in.         *)
Spends == spent' \in {spent, IF spent < conf.cap THEN spent + 1 ELSE spent}

(* _extract_wall_cap_hit                                                     *)
CapHit == conf.cap > 0 /\ spent >= conf.cap

(* What the vision model may read off the filled form: it is asked when the  *)
(* DOM is not strong and there is a screenshot.                              *)
FormReadings ==
    IF DomSupport(page.form) # "strong" /\ conf.shot
      THEN VisionReadings ELSE {"lost"}

(* What becomes of the reading: counting the call against the budget of the  *)
(* extraction reads an attribute the budget does not have, and the exception *)
(* is taken for no reading.  Without a budget the reading is used.           *)
Heard(reading, budgeted) == IF budgeted THEN "lost" ELSE reading

(* _compute_google_route_bind_verdict                                        *)
VerdictOf(reading, budgeted) ==
    Fuse(page.form, Heard(reading, budgeted), conf.strong, conf.closed)

(* _get_route_bind_verdict_cached: computed once in an extraction.           *)
Cached(reading) ==
    IF verdict # NoVerdict THEN verdict ELSE VerdictOf(reading, TRUE)

RouteAsked(reading) == verdict' = Cached(reading)

-----------------------------------------------------------------------------
(* Letting a candidate out                                                   *)

(* should_enforce_route_context                                              *)
Enforced == conf.known /\ (~conf.light \/ conf.shot)

(* load_vlm_scope_probe and load_llm_scope_probe: whom there is to ask.      *)
VisionSays == IF conf.shot THEN VisionOpinions ELSE {NoOpinion}
TextSays == IF conf.known \/ conf.shot THEN TextOpinions ELSE {NoOpinion}

Doubts(vision, text) ==
    /\ NonFlight(vision.says) /\ NonFlight(text.says)
    /\ "flight" \notin vision.says \cup text.says

(* A candidate of Google Flights through its scope guard: a price from the   *)
(* embedded data of the page passes unasked.                                 *)
Guarded(c, vision, text, support, bound, grounded) ==
    IF c.src = "heuristic_embedded" THEN Passed(c, "pass")
    ELSE PostGuard(c, vision, text, support, grounded, bound, Enforced, conf.shut)

(* _emit of a payload without a price, or with one nothing guards.           *)
Give(c) ==
    /\ out' = Normalized(c)
    /\ pc' = "return"
    /\ UNCHANGED <<verdict, doubted>>

(* A rung has a price and hands it to _emit.                                 *)
Offer(c) ==
    /\ out' = c
    /\ pc' = "emit"
    /\ UNCHANGED <<verdict, doubted>>

(* _emit of a price: scope guard, route gate, normalisation.                 *)
Guards ==
    \E reading \in FormReadings, vision \in VisionSays, text \in TextSays,
       grounded \in BOOLEAN :
      LET v == IF conf.known THEN Cached(reading) ELSE verdict
          g == Guarded(out, vision, text, v.support,
                       AcceptedBound(v, conf.strong), grounded)
      IN  /\ IF conf.known THEN RouteAsked(reading)
                           ELSE UNCHANGED verdict
          /\ out' = Normalized(
                IF conf.known /\ g.price
                  THEN RouteGate(g, v, conf.strong, conf.closed) ELSE g)
          /\ doubted' = (out.src # "heuristic_embedded" /\ Doubts(vision, text))
          /\ pc' = "return"

Emit ==
    /\ pc = "emit"
    /\ IF conf.google THEN Guards /\ Spends ELSE Give(out) /\ UNCHANGED spent
    /\ UNCHANGED <<conf, page, tried, look, left, looks>>
=============================================================================

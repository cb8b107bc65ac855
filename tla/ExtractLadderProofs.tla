------------------------- MODULE ExtractLadderProofs -------------------------
(***************************************************************************)
(* Proofs about ExtractLadder, for every set of settings, pages and        *)
(* opinions of the models, every number of image variants and retries.     *)
(*                                                                         *)
(* A price leaves the ladder through the guards of _emit or through those  *)
(* behind the plugin router.  Sound says what both let through; OnTheWay   *)
(* says what is known before.  A candidate is described by its fields, as  *)
(* the guards rewrite it field by field.                                   *)
(***************************************************************************)
EXTENDS ExtractLadder, TLAPS

Over == {"return", "done"}
Followers == {"light_text", "chunks", "look"}

(* A vision call is followed by one of these rungs.                          *)
Followed(l) ==
    /\ DOMAIN l = {"asker", "next", "round", "variant", "retry", "budgeted"}
    /\ l.next \in Followers

Keys == {"price", "rank", "src", "support", "guard", "brittle", "affirmed"}

(* A record with the fields of a candidate.                                  *)
Shaped(c) ==
    /\ DOMAIN c = Keys
    /\ c.price \in BOOLEAN /\ c.rank \in 1..3 /\ c.support \in Supports
    /\ c.brittle \in BOOLEAN /\ c.affirmed \in BOOLEAN

(* What may be let out.                                                      *)
Sound ==
    out.price =>
        /\ conf.google /\ conf.known /\ out.rank > 1 => out.support = "strong"
        /\ conf.google /\ conf.known /\ conf.closed => Contradicted(page.form) = {}
        /\ doubted => out.support = "strong" \/ (out.src = "plugin" /\ page.words)

Types ==
    /\ conf \in Settings /\ page \in Pages
    /\ Shaped(out) /\ doubted \in BOOLEAN /\ spent \in Nat
    /\ pc = "asking" => Followed(look)

OnTheWay ==
    /\ verdict \in {NoVerdict} \cup (IF conf.known THEN {VerdictOf("lost", TRUE)} ELSE {})
    /\ pc \notin Over => doubted = FALSE
    /\ pc \in Over => Sound

IInv == Types /\ OnTheWay /\ LadderNeverLate

-----------------------------------------------------------------------------
(* The guards                                                              *)

LEMMA SettingIs ==
    ASSUME NEW s \in Settings
    PROVE  /\ s.google \in BOOLEAN /\ s.known \in BOOLEAN /\ s.light \in BOOLEAN
           /\ s.shot \in BOOLEAN /\ s.strong \in BOOLEAN /\ s.closed \in BOOLEAN
           /\ s.shut \in BOOLEAN /\ s.plugin \in BOOLEAN
           /\ s.chunks \in Nat /\ s.cap \in Nat
<1>1. s \in SettingsType
  BY LadderAssumption
<1>. QED  BY <1>1 DEF SettingsType

LEMMA FoundIs ==
    ASSUME NEW src, NEW rank \in 1..3
    PROVE  /\ Shaped(Found(src, rank)) /\ Shaped(Unpriced(src))
           /\ Found(src, rank).price /\ ~Unpriced(src).price
           /\ Found(src, rank).src = src
           /\ Found(src, rank).rank = rank
BY DEF Found, Unpriced, Shaped, Keys, Supports

\* What the fused verdict can be: a mismatch that closes is none, and bound is
\* never said without support.
LEMMA FuseIs ==
    ASSUME NEW form, NEW reading, NEW strongOnly \in BOOLEAN, NEW closed
    PROVE  LET v == Fuse(form, reading, strongOnly, closed)
           IN  /\ v.support \in Supports /\ v.bound \in BOOLEAN /\ v # NoVerdict
               /\ v.bound => v.support # "none"
               /\ closed /\ Contradicted(form) # {} => v.reason = "explicit_mismatch"
BY DEF Fuse, Supports, NoVerdict

\* What the route gate lets through: a low price, or one of a strongly bound route.
LEMMA GateIs ==
    ASSUME NEW c, Shaped(c), NEW form, NEW reading,
           NEW strongOnly \in BOOLEAN, NEW closed \in BOOLEAN
    PROVE  LET v == Fuse(form, reading, strongOnly, closed)
               g == RouteGate(c, v, strongOnly, closed)
           IN  /\ Shaped(g) /\ g.src = c.src /\ g.support = v.support
               /\ g.price => c.price
               /\ g.price /\ g.rank > 1 => g.support = "strong"
               /\ g.price /\ closed => Contradicted(form) = {}
<1>. DEFINE v == Fuse(form, reading, strongOnly, closed)
            g == RouteGate(c, v, strongOnly, closed)
<1>1. /\ v.support \in Supports /\ v.bound \in BOOLEAN
      /\ v.bound => v.support # "none"
      /\ closed /\ Contradicted(form) # {} => v.reason = "explicit_mismatch"
  BY FuseIs
<1>. HIDE DEF v
<1>2. Shaped(g) /\ g.src = c.src /\ g.support = v.support /\ (g.price => c.price)
  <2>1. CASE g = NotBound(c, v)
    <3>. HIDE DEF g
    <3>. QED  BY <1>1, <2>1 DEF NotBound, Shaped, Keys
  <2>2. ASSUME NEW r \in {1, c.rank}, g = [c EXCEPT !.support = v.support, !.rank = r]
        PROVE  Shaped(g) /\ g.src = c.src /\ g.support = v.support /\ (g.price => c.price)
    <3>. HIDE DEF g
    <3>. QED  BY <1>1, <2>2 DEF Shaped, Keys
  <2>. QED  BY <2>1, <2>2 DEF RouteGate
<1>3. g.price => ~(closed /\ v.reason = "explicit_mismatch")
  BY DEF RouteGate, NotBound, Shaped, Keys
<1>4. g.price /\ g.rank > 1 => g.support = "strong"
  BY <1>1 DEF RouteGate, NotBound, Shaped, Keys, AcceptedBound, Supports
<1>. QED  BY <1>1, <1>2, <1>3, <1>4 DEF v

LEMMA NormalizedIs ==
    ASSUME NEW c, Shaped(c)
    PROVE  /\ Shaped(Normalized(c))
           /\ Normalized(c).price = c.price /\ Normalized(c).src = c.src
           /\ Normalized(c).support = c.support /\ Normalized(c).rank <= c.rank
BY DEF Normalized, Shaped, Keys

\* A price both probes doubt passes the scope guard only with the route behind it.
LEMMA GuardIs ==
    ASSUME NEW c, Shaped(c), NEW vision, NEW text, NEW support, NEW bound, NEW grounded
    PROVE  LET g == Guarded(c, vision, text, support, bound, grounded)
           IN  /\ Shaped(g) /\ g.src = c.src /\ g.support = c.support
               /\ g.price => c.price
               /\ g.price /\ c.src # "heuristic_embedded" /\ Doubts(vision, text)
                    => support = "strong"
<1>. DEFINE g == Guarded(c, vision, text, support, bound, grounded)
<1>1. g \in {Failed(c), Passed(c, "pass"), Passed(c, "conflict_resolved")}
  BY DEF Guarded, PostGuard
<1>2. Shaped(g) /\ g.src = c.src /\ g.support = c.support /\ (g.price => c.price)
  <2>. HIDE DEF g
  <2>1. CASE g = Failed(c)
    BY <2>1 DEF Failed, Shaped, Keys
  <2>2. ASSUME NEW how, g = Passed(c, how)
        PROVE  Shaped(g) /\ g.src = c.src /\ g.support = c.support /\ (g.price => c.price)
    BY <2>2 DEF Passed, Shaped, Keys
  <2>. QED  BY <1>1, <2>1, <2>2
<1>3. ASSUME g.price, c.src # "heuristic_embedded", Doubts(vision, text)
      PROVE  support = "strong"
  <2>1. ~ConflictResolved(c, vision, text, support, grounded)
    BY <1>3 DEF ConflictResolved, Doubts
  <2>2. NonFlight(vision.says) /\ "flight" \notin vision.says \cup text.says
    BY <1>3 DEF Doubts
  <2>3. g # Failed(c)
    BY <1>3 DEF Failed, Shaped, Keys
  <2>. QED  BY <1>3, <2>1, <2>2, <2>3 DEF Guarded, PostGuard
<1>. QED  BY <1>2, <1>3

-----------------------------------------------------------------------------
(* Steps                                                                   *)

LEMMA InitHolds == Init => IInv
<1>. SUFFICES ASSUME Init PROVE IInv
  OBVIOUS
<1>. USE DEF Init
<1>1. Types
  <2>1. Shaped(Unpriced("none"))
    BY FoundIs
  <2>. QED  BY <2>1 DEF Types
<1>2. OnTheWay /\ LadderNeverLate
  BY DEF OnTheWay, LadderNeverLate, Published, Over
<1>. QED  BY <1>1, <1>2 DEF IInv

\* The verdict stays the one of this page, whoever asks for it.
LEMMA VerdictIs ==
    ASSUME IInv, conf.known, NEW reading
    PROVE  /\ Cached(reading) = VerdictOf("lost", TRUE)
           /\ Cached(reading) = Fuse(page.form, "lost", conf.strong, conf.closed)
BY DEF IInv, OnTheWay, Cached, VerdictOf, Heard

\* Spending keeps the clock a number.
LEMMA SpendIs == ASSUME Types, Spends PROVE spent' \in Nat
<1>1. conf.cap \in Nat
  BY SettingIs DEF Types
<1>. QED  BY <1>1 DEF Types, Spends

\* What the verdict may become while the page is worked on.
Unasked == verdict' = verdict \/ (conf.known /\ \E reading : RouteAsked(reading))

LEMMA VerdictStays ==
    ASSUME IInv, Fixed, Unasked
    PROVE  verdict' \in {NoVerdict}
               \cup (IF conf'.known THEN {VerdictOf("lost", TRUE)'} ELSE {})
<1>1. VerdictOf("lost", TRUE)' = VerdictOf("lost", TRUE) /\ conf' = conf
  BY DEF Fixed, VerdictOf
<1>2. CASE verdict' = verdict
  BY <1>1, <1>2 DEF IInv, OnTheWay
<1>3. ASSUME conf.known, NEW reading, RouteAsked(reading)
      PROVE  verdict' = VerdictOf("lost", TRUE)
  BY <1>3, VerdictIs DEF RouteAsked
<1>. QED  BY <1>1, <1>2, <1>3 DEF Unasked

\* A step that lets nothing out.
LEMMA Onward ==
    ASSUME IInv, Fixed, Unasked, UNCHANGED doubted, Shaped(out'), spent' \in Nat,
           pc \notin Over, pc' \notin Over, pc' # "start",
           pc' = "asking" => Followed(look')
    PROVE  IInv'
<1>1. Types'
  BY DEF IInv, Types, Fixed
<1>2. OnTheWay'
  BY VerdictStays DEF IInv, OnTheWay
<1>3. LadderNeverLate'
  BY DEF LadderNeverLate, Published, Over
<1>. QED  BY <1>1, <1>2, <1>3 DEF IInv

\* A step that lets something out.
LEMMA LetOut ==
    ASSUME IInv, Fixed, Unasked, Shaped(out'), doubted' \in BOOLEAN, spent' \in Nat,
           pc' \in Over, Sound',
           pc' = "done" => out'.src \in BeforeLadder \/ ~out'.price \/ ~CapHit'
    PROVE  IInv'
<1>1. Types'
  BY DEF IInv, Types, Fixed, Over
<1>2. OnTheWay'
  BY VerdictStays DEF OnTheWay, Over
<1>3. LadderNeverLate'
  BY DEF LadderNeverLate, Published
<1>. QED  BY <1>1, <1>2, <1>3 DEF IInv

LEMMA MovesOn ==
    ASSUME IInv, Fixed, spent' \in Nat, NEW rung, MovesTo(rung),
           pc \notin Over, rung \notin Over \cup {"start", "asking"}
    PROVE  IInv'
<1>1. Shaped(out') /\ Unasked /\ UNCHANGED doubted /\ pc' = rung
  BY DEF IInv, Types, MovesTo, NothingLetOut, Unasked
<1>. QED  BY <1>1, Onward

LEMMA Offers ==
    ASSUME IInv, Fixed, spent' \in Nat, NEW c, Shaped(c), Offer(c), pc \notin Over
    PROVE  IInv'
<1>1. Shaped(out') /\ Unasked /\ UNCHANGED doubted /\ pc' = "emit"
  BY DEF Offer, Unasked
<1>. QED  BY <1>1, Onward DEF Over

LEMMA Gives ==
    ASSUME IInv, Fixed, spent' \in Nat, NEW c, Shaped(c), Give(c),
           ~c.price \/ ~conf.google, pc \notin Over
    PROVE  IInv'
<1>1. Shaped(out') /\ out'.price = c.price
  BY NormalizedIs DEF Give
<1>2. doubted' = FALSE /\ conf' = conf /\ Unasked /\ pc' = "return"
  BY DEF IInv, OnTheWay, Give, Fixed, Unasked
<1>3. Sound'
  BY <1>1, <1>2 DEF Sound
<1>. QED  BY <1>1, <1>2, <1>3, LetOut DEF Over

-----------------------------------------------------------------------------
(* The rungs                                                               *)

LEMMA ParserStep == ASSUME IInv, ServiceParser PROVE IInv'
<1>1. Fixed /\ spent' \in Nat /\ pc \notin Over
  BY SpendIs DEF ServiceParser, IInv, Over
<1>2. CASE MovesTo("guards")
  BY <1>1, <1>2, MovesOn DEF Over
<1>3. CASE /\ out' = [Found("heuristic_skyscanner_service", 2) EXCEPT !.guard = "pass"]
           /\ pc' = "done"
           /\ UNCHANGED <<verdict, doubted>>
  <2>1. Shaped(out') /\ out'.src \in BeforeLadder
    BY <1>3, FoundIs DEF Shaped, Keys, BeforeLadder
  <2>2. ~conf'.google /\ ~doubted' /\ doubted' \in BOOLEAN /\ Unasked
    BY <1>1, <1>3 DEF ServiceParser, IInv, OnTheWay, Fixed, Unasked
  <2>4. Sound'
    BY <2>2 DEF Sound
  <2>. QED  BY <1>1, <1>3, <2>1, <2>2, <2>4, LetOut DEF Over
<1>. QED  BY <1>2, <1>3 DEF ServiceParser

LEMMA RouterOffStep == ASSUME IInv, RouterOff PROVE IInv'
<1>1. Fixed /\ spent' \in Nat /\ pc \notin Over /\ MovesTo("guards")
  BY DEF RouterOff, IInv, Types, Over
<1>. QED  BY <1>1, MovesOn DEF Over

\* The price of the plugin router and the two guards it has passed.
LEMMA RouterGuardedIs ==
    ASSUME NEW c, Shaped(c), c.src = "plugin", NEW vision, NEW text, NEW grounded
    PROVE  LET g == RouterGuarded(c, vision, text, grounded)
           IN  /\ Shaped(g) /\ g.src = "plugin"
               /\ g.price /\ Doubts(vision, text) => conf.known /\ page.words
<1>1. CASE page.elsewhere
  BY <1>1 DEF RouterGuarded, Failed, Shaped, Keys
<1>2. CASE ~page.elsewhere
  <2>. DEFINE g == Guarded(c, vision, text, RouterSupport, RouterSupport = "strong",
                           grounded)
  <2>1. /\ Shaped(g) /\ g.src = "plugin"
        /\ g.price /\ Doubts(vision, text) => RouterSupport = "strong"
    BY GuardIs
  <2>2. RouterGuarded(c, vision, text, grounded) = g
    BY <1>2 DEF RouterGuarded
  <2>. HIDE DEF g
  <2>. QED  BY <2>1, <2>2 DEF RouterSupport
<1>. QED  BY <1>1, <1>2

LEMMA RouterGatedIs ==
    ASSUME IInv, NEW c, Shaped(c), c.src = "plugin", NEW reading
    PROVE  LET o == RouterGated(c, reading)
           IN  /\ Shaped(o) /\ o.src = "plugin" /\ (o.price => c.price)
               /\ o.price /\ conf.known /\ o.rank > 1 => o.support = "strong"
               /\ o.price /\ conf.known /\ conf.closed => Contradicted(page.form) = {}
<1>1. CASE conf.known /\ c.price
  <2>. DEFINE v == Fuse(page.form, reading, conf.strong, conf.closed)
              o == RouteGate(c, v, conf.strong, conf.closed)
  <2>1. conf.strong \in BOOLEAN /\ conf.closed \in BOOLEAN
    BY SettingIs DEF IInv, Types
  <2>2. VerdictOf(reading, FALSE) = v
    BY DEF VerdictOf, Heard
  <2>3. RouterGated(c, reading) = o
    BY <1>1, <2>2 DEF RouterGated
  <2>4. /\ Shaped(o) /\ o.src = c.src /\ (o.price => c.price)
        /\ o.price /\ o.rank > 1 => o.support = "strong"
        /\ o.price /\ conf.closed => Contradicted(page.form) = {}
    BY <2>1, GateIs
  <2>. HIDE DEF o
  <2>. QED  BY <1>1, <2>3, <2>4
<1>2. CASE ~(conf.known /\ c.price)
  BY <1>2 DEF RouterGated, Shaped
<1>. QED  BY <1>1, <1>2

LEMMA RouterStep == ASSUME IInv, PluginRouter PROVE IInv'
<1>1. Fixed /\ spent' \in Nat /\ pc \notin Over /\ conf' = conf /\ page' = page
  BY SpendIs DEF PluginRouter, IInv, Over, Fixed
<1>2. CASE MovesTo("capped_or_guards")
  BY <1>1, <1>2, MovesOn DEF Over
<1>3. ASSUME NEW rank \in 1..3, NEW brittle \in BOOLEAN, NEW vision \in VisionSays,
             NEW text \in TextSays, NEW grounded \in BOOLEAN,
             NEW reading \in FormReadings,
             out' = RouterGated(Normalized(RouterGuarded(
                        [Found("plugin", rank) EXCEPT !.brittle = brittle],
                        vision, text, grounded)), reading),
             pc' = "done", doubted' = Doubts(vision, text), UNCHANGED verdict
      PROVE  IInv'
  <2>. DEFINE c == [Found("plugin", rank) EXCEPT !.brittle = brittle]
              g == RouterGuarded(c, vision, text, grounded)
              n == Normalized(g)
  <2>1. Shaped(c) /\ c.src = "plugin"
    BY FoundIs DEF Shaped, Keys
  <2>2. out' = RouterGated(n, reading)
    BY <1>3
  <2>3. /\ Shaped(g) /\ g.src = "plugin"
        /\ g.price /\ Doubts(vision, text) => conf.known /\ page.words
    <3>. HIDE DEF c
    <3>. QED  BY <2>1, RouterGuardedIs
  <2>. HIDE DEF g
  <2>4. Shaped(n) /\ n.src = "plugin" /\ n.price = g.price
    BY <2>3, NormalizedIs
  <2>. HIDE DEF n
  <2>5. /\ Shaped(out') /\ out'.src = "plugin" /\ (out'.price => n.price)
        /\ out'.price /\ conf.known /\ out'.rank > 1 => out'.support = "strong"
        /\ out'.price /\ conf.known /\ conf.closed => Contradicted(page.form) = {}
    BY <2>2, <2>4, RouterGatedIs
  <2>6. doubted' \in BOOLEAN /\ Unasked
    BY <1>3 DEF Doubts, Unasked
  <2>7. Sound'
    BY <1>1, <1>3, <2>3, <2>4, <2>5 DEF Sound
  <2>. QED  BY <1>1, <1>3, <2>5, <2>6, <2>7, LetOut DEF Over, BeforeLadder
<1>. QED  BY <1>2, <1>3 DEF PluginRouter

LEMMA AfterRouterStep == ASSUME IInv, AfterRouter PROVE IInv'
<1>1. Fixed /\ spent' \in Nat /\ pc \notin Over
  BY DEF AfterRouter, IInv, Types, Over
<1>2. CASE MovesTo("guards")
  BY <1>1, <1>2, MovesOn DEF Over
<1>3. CASE out' = Unpriced("watchdog") /\ pc' = "done" /\ UNCHANGED <<verdict, doubted>>
  <2>1. Shaped(out') /\ ~out'.price /\ Unasked /\ doubted' \in BOOLEAN
    BY <1>3, FoundIs DEF Unasked, IInv, Types
  <2>2. Sound'
    BY <2>1 DEF Sound
  <2>. QED  BY <1>1, <1>3, <2>1, <2>2, LetOut DEF Over
<1>. QED  BY <1>2, <1>3 DEF AfterRouter

\* What fails at a guard has no price.
LEMMA FailedIs == ASSUME NEW c, Shaped(c) PROVE Shaped(Failed(c)) /\ ~Failed(c).price
BY DEF Failed, Shaped, Keys

LEMMA PageGuardsStep == ASSUME IInv, PageGuards PROVE IInv'
<1>1. Fixed /\ spent' \in Nat /\ pc \notin Over
  BY SpendIs DEF PageGuards, IInv, Types, Over
<1>2. CASE MovesTo("text")
  BY <1>1, <1>2, MovesOn DEF Over
<1>3. CASE Give(Failed(Unpriced("heuristic_guard")))
  BY <1>1, <1>3, FoundIs, FailedIs, Gives
<1>. QED  BY <1>2, <1>3 DEF PageGuards

LEMMA PageTextStep == ASSUME IInv, PageText PROVE IInv'
<1>1. Fixed /\ spent' \in Nat /\ pc \notin Over
  BY SpendIs DEF PageText, IInv, Over
<1>2. CASE MovesTo("probe")
  BY <1>1, <1>2, MovesOn DEF Over
<1>3. ASSUME NEW src, Offer(Found(src, 1)) PROVE IInv'
  BY <1>1, <1>3, FoundIs, Offers
<1>. QED  BY <1>2, <1>3 DEF PageText

LEMMA DomProbeStep == ASSUME IInv, DomProbe PROVE IInv'
<1>1. Fixed /\ spent' \in Nat /\ pc \notin Over
  BY SpendIs DEF DomProbe, IInv, Over
<1>2. AfterProbe \notin Over \cup {"start", "asking"}
  BY DEF AfterProbe, Over
<1>3. CASE ~(conf.google /\ conf.known)
  BY <1>1, <1>2, <1>3, MovesOn DEF DomProbe
<1>4. CASE conf.google /\ conf.known
  <2>1. Unasked /\ pc' \in {"emit", AfterProbe} /\ UNCHANGED doubted
    BY <1>4 DEF DomProbe, Unasked
  <2>2. Shaped(out')
    <3>1. out' = Found("heuristic_dom_probe", 1) \/ out' = out
      BY <1>4 DEF DomProbe
    <3>. QED  BY <3>1, FoundIs DEF IInv, Types
  <2>. QED  BY <1>1, <1>2, <2>1, <2>2, Onward DEF Over
<1>. QED  BY <1>3, <1>4

LEMMA MultimodalStep ==
    ASSUME IInv, pc \notin Over, NEW next, next \notin Over \cup {"start", "asking"},
           Multimodal(next)
    PROVE  IInv'
<1>1. Fixed /\ spent' \in Nat
  BY SpendIs DEF Multimodal, IInv
<1>2. CASE MovesTo(next)
  BY <1>1, <1>2, MovesOn
<1>3. ASSUME NEW rank \in 1..3, NEW brittle \in BOOLEAN, NEW affirmed \in BOOLEAN,
             Offer([Found("vlm_multimodal", rank) EXCEPT !.brittle = brittle,
                                                        !.affirmed = affirmed])
      PROVE  IInv'
  <2>1. Shaped([Found("vlm_multimodal", rank) EXCEPT !.brittle = brittle,
                                                     !.affirmed = affirmed])
    BY FoundIs DEF Shaped, Keys
  <2>. QED  BY <1>1, <1>3, <2>1, Offers
<1>. QED  BY <1>2, <1>3 DEF Multimodal

LEMMA VisionRungStep ==
    ASSUME IInv, pc \notin Over, NEW next \in Followers, VisionRung(next)
    PROVE  IInv'
<1>1. Fixed /\ spent' \in Nat
  BY DEF VisionRung, IInv, Types
<1>2. CASE MovesTo(next)
  BY <1>1, <1>2, MovesOn DEF Followers, Over
<1>3. CASE BeginLook("look", next) /\ NothingLetOut
  <2>1. pc' = "asking" /\ Followed(look') /\ Unasked /\ UNCHANGED <<out, doubted>>
    BY <1>3 DEF BeginLook, Look, Followed, NothingLetOut, Unasked
  <2>. QED  BY <1>1, <2>1, Onward DEF IInv, Types, Over
<1>. QED  BY <1>2, <1>3 DEF VisionRung

\* A price the text model read.
LEMMA TextPrice ==
    ASSUME IInv, Fixed, spent' \in Nat, pc \notin Over, NEW src, NEW rank \in 1..3,
           NEW brittle \in BOOLEAN,
           Offer([Found(src, rank) EXCEPT !.brittle = brittle])
    PROVE  IInv'
<1>1. Shaped([Found(src, rank) EXCEPT !.brittle = brittle])
  BY FoundIs DEF Shaped, Keys
<1>. QED  BY <1>1, Offers

LEMMA AskTextStep ==
    ASSUME IInv, pc \notin Over, NEW miss, NEW failure, AskText(miss, failure),
           {miss, failure} \cap (Over \cup {"start", "asking"}) = {}
    PROVE  IInv'
<1>1. Fixed /\ spent' \in Nat
  BY SpendIs DEF AskText, IInv
<1>2. CASE MovesTo(miss) \/ MovesTo(failure)
  BY <1>1, <1>2, MovesOn
<1>3. ASSUME NEW rank \in 1..3, NEW brittle \in BOOLEAN,
             Offer([Found("llm", rank) EXCEPT !.brittle = brittle])
      PROVE  IInv'
  BY <1>1, <1>3, TextPrice
<1>. QED  BY <1>2, <1>3 DEF AskText

LEMMA AskChunkStep ==
    ASSUME IInv, pc \notin Over \cup {"start", "asking"}, NEW next, AskChunk(next),
           next \notin Over \cup {"start", "asking"}
    PROVE  IInv'
<1>1. Fixed /\ spent' \in Nat
  BY SpendIs DEF AskChunk, IInv, Types
<1>2. CASE MovesTo(next)
  BY <1>1, <1>2, MovesOn
<1>3. CASE UNCHANGED pc /\ NothingLetOut
  <2>1. Unasked /\ UNCHANGED <<out, doubted>>
    BY <1>3 DEF NothingLetOut, Unasked
  <2>. QED  BY <1>1, <1>3, <2>1, Onward DEF IInv, Types
<1>4. ASSUME NEW rank \in 1..3, NEW brittle \in BOOLEAN,
             Offer([Found("llm_chunk", rank) EXCEPT !.brittle = brittle])
      PROVE  IInv'
  BY <1>1, <1>4, TextPrice
<1>. QED  BY <1>2, <1>3, <1>4 DEF AskChunk

LEMMA LightEndStep == ASSUME IInv, LightEnd PROVE IInv'
<1>1. Fixed /\ spent' \in Nat /\ pc \notin Over
  BY DEF LightEnd, IInv, Types, Over
<1>2. CASE MovesTo("text_model")
  BY <1>1, <1>2, MovesOn DEF Over
<1>3. CASE Give(Unpriced("heuristic_html"))
  BY <1>1, <1>3, FoundIs, Gives
<1>. QED  BY <1>2, <1>3 DEF LightEnd

LEMMA NothingFoundStep == ASSUME IInv, NothingFound PROVE IInv'
<1>1. Fixed /\ spent' \in Nat /\ pc \notin Over /\ Give(Unpriced("llm"))
  BY DEF NothingFound, IInv, Types, Over
<1>. QED  BY <1>1, FoundIs, Gives

LEMMA VisionAssistStep == ASSUME IInv, VisionAssist PROVE IInv'
<1>1. /\ Fixed /\ spent' \in Nat /\ pc \notin Over
      /\ UNCHANGED doubted /\ Shaped(out')
  BY SpendIs DEF VisionAssist, IInv, Types, Over
<1>2. Unasked
  BY DEF VisionAssist, Unasked
<1>3. pc' = "look" \/ (pc' = "asking" /\ look' = Look("assist", "look"))
  BY DEF VisionAssist, BeginLook
<1>4. Followed(Look("assist", "look"))
  BY DEF Look, Followed, Followers
<1>. QED  BY <1>1, <1>2, <1>3, <1>4, Onward DEF Over

\* What a call of the vision model may become.
LEMMA LookIs ==
    ASSUME NEW l, Followed(l)
    PROVE  /\ Followed([l EXCEPT !.round = 2, !.variant = 1, !.retry = 0])
           /\ Followed([l EXCEPT !.variant = @ + 1, !.retry = 0])
           /\ Followed([l EXCEPT !.retry = @ + 1])
           /\ Followed([Look(l.asker, l.next) EXCEPT !.budgeted = FALSE])
           /\ l.next \notin Over \cup {"start", "asking"}
BY DEF Followed, Look, Followers, Over

LEMMA AskVisionStep == ASSUME IInv, AskVision PROVE IInv'
<1>1. /\ Fixed /\ spent' \in Nat /\ pc = "asking" /\ pc \notin Over
      /\ Followed(look) /\ Shaped(out)
  BY SpendIs DEF AskVision, Asking, PriceSeen, NoPriceSeen, VariantFails, TokenCapHit,
                 CallTimesOut, IInv, Types, Over, Fixed
<1>2. CASE NothingSeen
  <2>1. MovesTo(look.next)
    BY <1>2 DEF NothingSeen, MovesTo, NothingLetOut
  <2>. QED  BY <1>1, <2>1, LookIs, MovesOn
<1>3. ASSUME Followed(look'), UNCHANGED <<pc, verdict, out, doubted>> PROVE IInv'
  BY <1>1, <1>3, Onward DEF Unasked
<1>4. ASSUME NEW c, Shaped(c), c.price, Offer(c) PROVE IInv'
  BY <1>1, <1>4, Offers
<1>5. ASSUME NEW c, Shaped(c), ~c.price, Give(c) PROVE IInv'
  BY <1>1, <1>5, Gives
<1>6. CASE PriceSeen
  <2>1. PICK rank \in 1..3, shown \in ShownPrices,
             judged \in {"accept", "reject", "unknown"} :
          LET found == Candidate(rank, shown, judged)
          IN  IF found = {} THEN NothingSeen
              ELSE \A c \in found : IF c.price THEN Offer(c) ELSE Give(c)
    BY <1>6 DEF PriceSeen
  <2>. DEFINE f == Found(Source, rank)
  <2>2. Shaped(f) /\ f.price /\ Shaped(Failed(f)) /\ ~Failed(f).price
    BY FoundIs, FailedIs
  <2>3. Candidate(rank, shown, judged) \in {{}, {f}, {Failed(f)}}
    BY DEF Candidate, Validated
  <2>. HIDE DEF f
  <2>. QED  BY <1>2, <1>4, <1>5, <2>1, <2>2, <2>3
<1>7. CASE NoPriceSeen
  <2>1. CASE Give(IF conf.google THEN Failed(Unpriced("vlm")) ELSE Unpriced("vlm"))
    <3>1. /\ Shaped(Unpriced("vlm")) /\ ~Unpriced("vlm").price
          /\ Shaped(Failed(Unpriced("vlm"))) /\ ~Failed(Unpriced("vlm")).price
      BY FoundIs, FailedIs
    <3>. QED  BY <1>5, <2>1, <3>1
  <2>2. CASE /\ look' = [look EXCEPT !.round = 2, !.variant = 1, !.retry = 0]
             /\ UNCHANGED <<pc, verdict, out, doubted>>
    BY <1>1, <1>3, <2>2, LookIs
  <2>. QED  BY <1>2, <1>7, <2>1, <2>2 DEF NoPriceSeen
<1>8. CASE VariantFails
  BY <1>1, <1>2, <1>3, <1>8, LookIs DEF VariantFails
<1>9. CASE TokenCapHit
  BY <1>1, <1>3, <1>9, LookIs DEF TokenCapHit
<1>10. CASE CallTimesOut
  BY <1>1, <1>2, <1>3, <1>10, LookIs DEF CallTimesOut
<1>. QED  BY <1>6, <1>7, <1>8, <1>9, <1>10 DEF AskVision

\* The guards of _emit: what they let out is sound.
LEMMA EmitStep == ASSUME IInv, Emit PROVE IInv'
<1>1. Fixed /\ spent' \in Nat /\ pc \notin Over /\ conf' = conf /\ page' = page
  BY SpendIs DEF Emit, IInv, Types, Fixed, Over
<1>2. CASE ~conf.google
  BY <1>1, <1>2, Gives DEF Emit, IInv, Types
<1>3. CASE conf.google
  <2>1. PICK reading \in FormReadings, vision \in VisionSays, text \in TextSays,
             grounded \in BOOLEAN :
          LET v == IF conf.known THEN Cached(reading) ELSE verdict
              g == Guarded(out, vision, text, v.support,
                           AcceptedBound(v, conf.strong), grounded)
          IN  /\ IF conf.known THEN RouteAsked(reading) ELSE UNCHANGED verdict
              /\ out' = Normalized(
                    IF conf.known /\ g.price
                      THEN RouteGate(g, v, conf.strong, conf.closed) ELSE g)
              /\ doubted' = (out.src # "heuristic_embedded" /\ Doubts(vision, text))
              /\ pc' = "return"
    BY <1>3 DEF Emit, Guards
  <2>. DEFINE v == IF conf.known THEN Cached(reading) ELSE verdict
              g == Guarded(out, vision, text, v.support,
                           AcceptedBound(v, conf.strong), grounded)
              o == IF conf.known /\ g.price
                     THEN RouteGate(g, v, conf.strong, conf.closed) ELSE g
  <2>2. Unasked /\ out' = Normalized(o) /\ pc' = "return" /\ doubted' \in BOOLEAN
    BY <2>1 DEF Unasked, Doubts
  <2>3. doubted' => out.src # "heuristic_embedded" /\ Doubts(vision, text)
    BY <2>1
  <2>4. ~conf.known => v.support # "strong"
    BY DEF IInv, OnTheWay, NoVerdict
  <2>5. conf.known => v = Fuse(page.form, "lost", conf.strong, conf.closed)
    BY VerdictIs
  <2>. HIDE DEF v
  <2>6. /\ Shaped(g) /\ (g.price => out.price)
        /\ g.price /\ doubted' => v.support = "strong"
    BY <2>3, GuardIs DEF IInv, Types
  <2>. HIDE DEF g
  <2>7. /\ Shaped(o) /\ (o.price => g.price)
        /\ o.price /\ conf.known /\ o.rank > 1 => o.support = "strong"
        /\ o.price /\ conf.known /\ conf.closed => Contradicted(page.form) = {}
        /\ o.price /\ conf.known => o.support = v.support
    <3>1. CASE conf.known /\ g.price
      <4>. DEFINE r == RouteGate(g, v, conf.strong, conf.closed)
      <4>1. conf.strong \in BOOLEAN /\ conf.closed \in BOOLEAN
        BY SettingIs DEF IInv, Types
      <4>2. o = r
        BY <3>1
      <4>3. /\ Shaped(r) /\ r.support = v.support
            /\ r.price /\ r.rank > 1 => r.support = "strong"
            /\ r.price /\ conf.closed => Contradicted(page.form) = {}
        BY <2>5, <2>6, <3>1, <4>1, GateIs
      <4>. HIDE DEF r, o
      <4>. QED  BY <3>1, <4>2, <4>3
    <3>2. CASE ~(conf.known /\ g.price)
      <4>1. o = g
        BY <3>2
      <4>. HIDE DEF o
      <4>. QED  BY <2>6, <3>2, <4>1
    <3>. QED  BY <3>1, <3>2
  <2>. HIDE DEF o
  <2>8. /\ Shaped(out') /\ out'.price = o.price /\ out'.support = o.support
        /\ (out'.rank > 1 => o.rank > 1)
    <3>1. Shaped(Normalized(o)) /\ Normalized(o).price = o.price
          /\ Normalized(o).support = o.support /\ Normalized(o).rank <= o.rank
      BY <2>7, NormalizedIs
    <3>2. Normalized(o).rank \in 1..3 /\ o.rank \in 1..3
      BY <2>7, <3>1 DEF Shaped
    <3>. QED  BY <2>2, <3>1, <3>2
  <2>9. Sound'
    BY <1>1, <2>4, <2>6, <2>7, <2>8 DEF Sound
  <2>. QED  BY <1>1, <2>2, <2>8, <2>9, LetOut DEF Over
<1>. QED  BY <1>2, <1>3 DEF IInv, Types

LEMMA ReturnStep == ASSUME IInv, Return PROVE IInv'
<1>1. /\ Fixed /\ spent' = spent /\ spent' \in Nat /\ Unasked /\ conf' = conf /\ page' = page
      /\ pc' = "done" /\ doubted' = doubted /\ doubted' \in BOOLEAN /\ Sound
  BY DEF Return, IInv, Types, OnTheWay, Fixed, Over, Unasked
<1>2. CASE CapHit
  <2>1. Shaped(out') /\ ~out'.price
    BY <1>2, FoundIs DEF Return
  <2>2. Sound'
    BY <2>1 DEF Sound
  <2>. QED  BY <1>1, <2>1, <2>2, LetOut DEF Over
<1>3. CASE ~CapHit
  <2>1. out' = out /\ Shaped(out') /\ ~CapHit'
    BY <1>1, <1>3 DEF Return, IInv, Types, CapHit
  <2>2. Sound'
    BY <1>1, <2>1 DEF Sound
  <2>. QED  BY <1>1, <2>1, <2>2, LetOut DEF Over
<1>. QED  BY <1>2, <1>3

LEMMA StepHolds == ASSUME IInv, [Next]_vars PROVE IInv'
<1>1. CASE ServiceParser \/ RouterOff \/ PluginRouter \/ AfterRouter
  BY <1>1, ParserStep, RouterOffStep, RouterStep, AfterRouterStep
<1>2. CASE PageGuards \/ PageText \/ DomProbe
  BY <1>2, PageGuardsStep, PageTextStep, DomProbeStep
<1>3. CASE MultimodalFirst
  BY <1>3, MultimodalStep DEF MultimodalFirst, Over
<1>4. CASE LightLook
  <2>1. CASE VisionRung("light_text")
    BY <1>4, <2>1, VisionRungStep DEF LightLook, Over, Followers
  <2>2. CASE MovesTo("light_text") /\ Fixed /\ UNCHANGED spent
    BY <1>4, <2>2, MovesOn DEF LightLook, Over, IInv, Types
  <2>. QED  BY <1>4, <2>1, <2>2 DEF LightLook
<1>5. CASE LightText
  <2>1. CASE AskText("light_chunks", "light_chunks")
    BY <1>5, <2>1, AskTextStep DEF LightText, Over
  <2>2. CASE MovesTo("light_multi") /\ Fixed /\ UNCHANGED spent
    BY <1>5, <2>2, MovesOn DEF LightText, Over, IInv, Types
  <2>. QED  BY <1>5, <2>1, <2>2 DEF LightText
<1>6. CASE LightChunks \/ Chunks
  BY <1>6, AskChunkStep DEF LightChunks, Chunks, Over
<1>7. ASSUME NEW rung \in {"light_multi", "multi"},
             NEW next \in {"light_end", "nothing"}, MultimodalAfter(rung, next)
      PROVE  IInv'
  <2>1. CASE Multimodal(next)
    BY <1>7, <2>1, MultimodalStep DEF MultimodalAfter, Over
  <2>2. CASE MovesTo(next) /\ Fixed /\ UNCHANGED spent
    BY <1>7, <2>2, MovesOn DEF MultimodalAfter, Over, IInv, Types
  <2>. QED  BY <1>7, <2>1, <2>2 DEF MultimodalAfter
<1>8. CASE LightMultimodal \/ MultimodalLast
  BY <1>7, <1>8 DEF LightMultimodal, MultimodalLast
<1>9. CASE TextModel
  BY <1>9, AskTextStep DEF TextModel, Over
<1>10. CASE VisionAfter
  BY <1>10, VisionRungStep DEF VisionAfter, Over, Followers
<1>11. CASE LightEnd \/ VisionAssist \/ NothingFound \/ AskVision \/ Emit \/ Return
  BY <1>11, LightEndStep, VisionAssistStep, NothingFoundStep, AskVisionStep, EmitStep,
     ReturnStep
<1>12. CASE UNCHANGED vars
  <2>1. /\ UNCHANGED <<pc, conf, page, verdict, look, spent, out, doubted>>
        /\ VerdictOf("lost", TRUE)' = VerdictOf("lost", TRUE)
    BY <1>12 DEF vars, VerdictOf
  <2>2. Types' /\ OnTheWay' /\ LadderNeverLate'
    BY <2>1 DEF IInv, Types, OnTheWay, Sound, LadderNeverLate, Published, CapHit
  <2>. QED  BY <2>2 DEF IInv
<1>. QED
  BY <1>1, <1>2, <1>3, <1>4, <1>5, <1>6, <1>8, <1>9, <1>10, <1>11, <1>12
     DEF Next, Rungs, Done

THEOREM LadderInvariant == Spec => []IInv
BY InitHolds, StepHolds, PTL DEF Spec

(* Whatever rung, model answer and page it comes from, a Google Flights price *)
(* with more than low confidence has its route strongly bound: _emit and the  *)
(* gate behind the plugin router never disagree on it.                        *)
THEOREM StrongPrices == Spec => []StrongPricesOnly
<1>1. IInv => StrongPricesOnly
  BY DEF IInv, OnTheWay, Sound, StrongPricesOnly, Published, Over
<1>. QED  BY <1>1, LadderInvariant, PTL

(* Where a mismatch closes the gate, a page whose form shows another route    *)
(* gives no price, whatever the vision model read off it.                     *)
THEOREM MisboundPages == Spec => []MisboundNeverPriced
<1>1. IInv => MisboundNeverPriced
  BY DEF IInv, OnTheWay, Sound, MisboundNeverPriced, Published, Over
<1>. QED  BY <1>1, LadderInvariant, PTL

(* A page both scope probes hold for no flight page gives a price only with   *)
(* the route behind it.                                                       *)
THEOREM DoubtedPages == Spec => []DoubtedPriceNeedsRoute
<1>1. IInv => DoubtedPriceNeedsRoute
  BY DEF IInv, OnTheWay, Sound, DoubtedPriceNeedsRoute, Published, Over
<1>. QED  BY <1>1, LadderInvariant, PTL

(* After the cap no rung of the ladder hands over a price, however the time   *)
(* was spent; only the plugin router and the parser of Skyscanner still do.   *)
THEOREM LatePrices == Spec => []LadderNeverLate
<1>1. IInv => LadderNeverLate
  BY DEF IInv
<1>. QED  BY <1>1, LadderInvariant, PTL

-----------------------------------------------------------------------------
(* Who has had the screenshot priced, and how often                         *)

CallsSoFar ==
    /\ looks \in [{"look", "assist", "multi"} -> Nat]
    /\ looks.look <= 2 /\ looks.assist <= 2 /\ looks.multi <= 1
    /\ \A rung \in {"look", "assist", "multi"} : rung \notin tried => looks[rung] = 0
    /\ looks.assist > 0 => "look" \in tried
    /\ pc = "asking" =>
         /\ look.asker \in {"look", "assist"} /\ look.budgeted \in BOOLEAN
         /\ look.budgeted => looks[look.asker] = 1
         /\ look.asker = "look" => looks.assist = 0

\* A step that has nothing priced and does not begin to.
LEMMA CallsStay ==
    ASSUME CallsSoFar, UNCHANGED looks, tried' = tried \/ \E r : tried' = tried \cup {r},
           pc' = "asking" =>
               /\ pc = "asking" /\ look'.asker = look.asker
               /\ look'.budgeted = look.budgeted
    PROVE  CallsSoFar'
BY DEF CallsSoFar

\* A rung that begins to ask has not asked before.
LEMMA CallsBegin ==
    ASSUME CallsSoFar, NEW rung \in {"look", "assist"}, NEW next, rung \notin tried,
           BeginLook(rung, next),
           tried' = IF rung = "look" THEN tried \cup {"look"}
                                     ELSE tried \cup {"assist", "look"}
    PROVE  CallsSoFar'
<1>1. looks' = [looks EXCEPT ![rung] = @ + 1] /\ looks[rung] = 0 /\ pc' = "asking"
      /\ look'.asker = rung /\ look'.budgeted
  BY DEF BeginLook, PricedBy, Look, CallsSoFar
<1>2. looks' \in [{"look", "assist", "multi"} -> Nat] /\ looks'[rung] = 1
      /\ \A r \in {"look", "assist", "multi"} : r # rung => looks'[r] = looks[r]
  BY <1>1 DEF CallsSoFar
<1>3. look'.budgeted = TRUE
  BY DEF BeginLook, Look
<1>4. rung = "look" => looks.assist = 0
  BY DEF CallsSoFar
<1>. QED  BY <1>1, <1>2, <1>3, <1>4 DEF CallsSoFar

LEMMA MultimodalCalls ==
    ASSUME CallsSoFar, NEW next, Multimodal(next), pc # "asking", next # "asking"
    PROVE  CallsSoFar'
<1>1. tried' = tried \cup {"multi"} /\ pc' # "asking" /\ UNCHANGED look
  BY DEF Multimodal, MovesTo, Offer
<1>2. CASE UNCHANGED looks
  BY <1>1, <1>2, CallsStay
<1>3. CASE AsksBoth /\ PricedBy("multi")
  <2>1. looks' = [looks EXCEPT !["multi"] = @ + 1] /\ looks["multi"] = 0
    BY <1>3 DEF PricedBy, AsksBoth, CallsSoFar
  <2>2. looks' \in [{"look", "assist", "multi"} -> Nat] /\ looks'["multi"] = 1
        /\ looks'["look"] = looks["look"] /\ looks'["assist"] = looks["assist"]
    BY <2>1 DEF CallsSoFar
  <2>. QED  BY <1>1, <2>2 DEF CallsSoFar
<1>. QED  BY <1>2, <1>3 DEF Multimodal

LEMMA VisionRungCalls ==
    ASSUME CallsSoFar, NEW next, next # "asking", VisionRung(next)
    PROVE  CallsSoFar'
<1>1. CASE "look" \in tried \/ ~conf.vlm \/ ~conf.shot
  BY <1>1, CallsStay DEF VisionRung, MovesTo, NoLooking
<1>2. CASE ~("look" \in tried \/ ~conf.vlm \/ ~conf.shot)
  BY <1>2, CallsBegin DEF VisionRung
<1>. QED  BY <1>1, <1>2

LEMMA AskVisionCalls == ASSUME IInv, CallsSoFar, AskVision PROVE CallsSoFar'
<1>1. /\ look.next \in Followers
      /\ DOMAIN look = {"asker", "next", "round", "variant", "retry", "budgeted"}
      /\ pc = "asking" /\ UNCHANGED tried
  BY DEF AskVision, Asking, PriceSeen, NoPriceSeen, VariantFails, TokenCapHit,
         CallTimesOut, IInv, Types, Followed
<1>2. CASE NothingSeen /\ UNCHANGED looks
  BY <1>1, <1>2, CallsStay DEF NothingSeen, Followers
<1>3. CASE pc' \in {"emit", "return"} /\ UNCHANGED looks
  BY <1>1, <1>3, CallsStay
<1>4. CASE PriceSeen
  <2>1. PICK rank \in 1..3, shown \in ShownPrices,
             judged \in {"accept", "reject", "unknown"} :
          LET found == Candidate(rank, shown, judged)
          IN  IF found = {} THEN NothingSeen
              ELSE \A c \in found : IF c.price THEN Offer(c) ELSE Give(c)
    BY <1>4 DEF PriceSeen
  <2>. DEFINE found == Candidate(rank, shown, judged)
  <2>2. UNCHANGED looks
    BY <1>4 DEF PriceSeen
  <2>3. CASE found = {}
    BY <1>2, <2>1, <2>2, <2>3
  <2>4. CASE found # {}
    <3>1. PICK c \in found : Offer(c) \/ Give(c)
      BY <2>1, <2>4
    <3>. QED  BY <1>3, <2>2, <3>1 DEF Offer, Give
  <2>. QED  BY <2>3, <2>4
<1>5. CASE NoPriceSeen
  <2>1. CASE look' = [look EXCEPT !.round = 2, !.variant = 1, !.retry = 0]
    BY <1>1, <1>5, <2>1, CallsStay DEF NoPriceSeen
  <2>. QED  BY <1>2, <1>3, <1>5, <2>1 DEF NoPriceSeen, Give
<1>6. CASE VariantFails
  BY <1>1, <1>2, <1>6, CallsStay DEF VariantFails
<1>7. CASE TokenCapHit
  BY <1>1, <1>7, CallsStay DEF TokenCapHit
<1>8. CASE CallTimesOut
  <2>1. CASE ~look.budgeted
    BY <1>2, <1>8, <2>1 DEF CallTimesOut
  <2>2. CASE look.budgeted
    <3>1. /\ look.asker \in {"look", "assist"} /\ looks[look.asker] = 1
          /\ look.asker = "look" => looks.assist = 0
      BY <1>1, <2>2 DEF CallsSoFar
    <3>2. looks' = [looks EXCEPT ![look.asker] = @ + 1] /\ UNCHANGED pc
          /\ look'.asker = look.asker /\ look'.budgeted = FALSE
      BY <1>8, <2>2 DEF CallTimesOut, PricedBy, Look
    <3>3. /\ looks' \in [{"look", "assist", "multi"} -> Nat] /\ looks'[look.asker] = 2
          /\ \A r \in {"look", "assist", "multi"} : r # look.asker => looks'[r] = looks[r]
      BY <3>1, <3>2 DEF CallsSoFar
    <3>4. look.asker \in tried
      BY <3>1 DEF CallsSoFar
    <3>6. \A rung \in {"look", "assist", "multi"} : rung \notin tried' => looks'[rung] = 0
      BY <1>1, <3>3, <3>4 DEF CallsSoFar
    <3>7. looks'.look <= 2 /\ looks'.assist <= 2 /\ looks'.multi <= 1
      <4>1. \A r \in {"look", "assist", "multi"} : looks'[r] = 2 \/ looks'[r] = looks[r]
        BY <3>3
      <4>2. looks'["multi"] = looks["multi"]
        BY <3>1, <3>3
      <4>. QED  BY <4>1, <4>2 DEF CallsSoFar
    <3>8. looks'.assist > 0 => "look" \in tried'
      BY <1>1, <3>1, <3>3, <3>4 DEF CallsSoFar
    <3>9. look.asker = "look" => looks'.assist = 0
      BY <3>1, <3>3
    <3>. QED  BY <1>1, <3>1, <3>2, <3>3, <3>6, <3>7, <3>8, <3>9 DEF CallsSoFar
  <2>. QED  BY <2>1, <2>2
<1>. QED  BY <1>4, <1>5, <1>6, <1>7, <1>8 DEF AskVision

LEMMA CallsStep == ASSUME IInv, CallsSoFar, [Next]_vars PROVE CallsSoFar'
<1>1. CASE \/ ServiceParser \/ RouterOff \/ PluginRouter \/ AfterRouter
           \/ PageGuards \/ PageText \/ DomProbe
  BY <1>1, CallsStay
     DEF ServiceParser, RouterOff, PluginRouter, AfterRouter, PageGuards, PageText, DomProbe,
         AfterProbe, MovesTo, NoLooking, Give, Offer
<1>2. CASE MultimodalFirst
  BY <1>2, MultimodalCalls DEF MultimodalFirst
<1>3. CASE LightLook
  <2>1. CASE conf.lookLight
    BY <1>3, <2>1, VisionRungCalls DEF LightLook
  <2>2. CASE ~conf.lookLight
    BY <1>3, <2>2, CallsStay DEF LightLook, MovesTo, NoLooking
  <2>. QED  BY <2>1, <2>2
<1>4. CASE LightText \/ TextModel \/ LightChunks \/ Chunks \/ LightEnd \/ NothingFound
  BY <1>4, CallsStay
     DEF LightText, TextModel, AskText, LightChunks, Chunks, AskChunk, LightEnd, NothingFound,
         MovesTo, NoLooking, Offer, Give
<1>5. ASSUME NEW rung \in {"light_multi", "multi"},
             NEW next \in {"light_end", "nothing"}, MultimodalAfter(rung, next)
      PROVE  CallsSoFar'
  <2>1. CASE Multimodal(next)
    BY <1>5, <2>1, MultimodalCalls DEF MultimodalAfter
  <2>2. CASE MovesTo(next) /\ NoLooking /\ UNCHANGED tried
    BY <1>5, <2>2, CallsStay DEF MovesTo, NoLooking
  <2>. QED  BY <1>5, <2>1, <2>2 DEF MultimodalAfter
<1>6. CASE LightMultimodal \/ MultimodalLast
  BY <1>5, <1>6 DEF LightMultimodal, MultimodalLast
<1>7. CASE VisionAssist
  <2>1. CASE BeginLook("assist", "look") /\ "assist" \notin tried /\ AssistFlags(TRUE)
    BY <2>1, CallsBegin DEF AssistFlags
  <2>2. CASE pc' = "look" /\ NoLooking /\ AssistFlags(FALSE)
    BY <2>2, CallsStay DEF NoLooking, AssistFlags
  <2>3. \/ BeginLook("assist", "look") /\ "assist" \notin tried /\ AssistFlags(TRUE)
        \/ pc' = "look" /\ NoLooking /\ AssistFlags(FALSE)
    BY <1>7 DEF VisionAssist, AssistFlags
  <2>. QED  BY <2>1, <2>2, <2>3
<1>8. CASE VisionAfter
  BY <1>8, VisionRungCalls DEF VisionAfter
<1>9. CASE AskVision
  BY <1>9, AskVisionCalls
<1>10. CASE Emit \/ Return
  BY <1>10, CallsStay DEF Emit, Guards, Return, Give
<1>11. CASE UNCHANGED vars
  BY <1>11, CallsStay DEF vars
<1>. QED
  BY <1>1, <1>2, <1>3, <1>4, <1>5, <1>6, <1>7, <1>8, <1>9, <1>10, <1>11 DEF Next, Rungs, Done

\* Only the vision rung and the retry of its own call have it priced by "look".
LEMMA LookKept ==
    ASSUME IInv, CallsSoFar, [Next]_vars, looks.assist > 0
    PROVE  looks'.look = looks.look
<1>1. "look" \in tried /\ (pc = "asking" => look.asker = "assist")
      /\ looks \in [{"look", "assist", "multi"} -> Nat]
  BY DEF CallsSoFar
<1>2. CASE UNCHANGED looks
  BY <1>2
<1>3. ASSUME NEW rung \in {"assist", "multi"}, PricedBy(rung) PROVE looks'.look = looks.look
  BY <1>1, <1>3 DEF PricedBy
<1>4. UNCHANGED looks \/ PricedBy("assist") \/ PricedBy("multi")
  <2>1. CASE \/ ServiceParser \/ RouterOff \/ PluginRouter \/ AfterRouter
             \/ PageGuards \/ PageText \/ DomProbe
    BY <2>1 DEF ServiceParser, RouterOff, PluginRouter, AfterRouter, PageGuards, PageText,
       DomProbe, NoLooking
  <2>2. CASE MultimodalFirst \/ LightMultimodal \/ MultimodalLast
    BY <2>2 DEF MultimodalFirst, LightMultimodal, MultimodalLast, MultimodalAfter, Multimodal,
       NoLooking
  <2>3. CASE LightLook \/ VisionAfter
    BY <1>1, <2>3 DEF LightLook, VisionAfter, VisionRung, NoLooking
  <2>4. CASE LightText \/ TextModel \/ LightChunks \/ Chunks \/ LightEnd \/ NothingFound
    BY <2>4 DEF LightText, TextModel, AskText, LightChunks, Chunks, AskChunk, LightEnd,
       NothingFound, NoLooking
  <2>5. CASE VisionAssist
    BY <2>5 DEF VisionAssist, BeginLook, NoLooking
  <2>6. CASE AskVision
    <3>1. pc = "asking"
      BY <2>6 DEF AskVision, PriceSeen, NoPriceSeen, VariantFails, TokenCapHit, CallTimesOut,
         Asking
    <3>2. CASE CallTimesOut
      BY <1>1, <3>1, <3>2 DEF CallTimesOut
    <3>3. CASE PriceSeen \/ NoPriceSeen \/ VariantFails \/ TokenCapHit
      BY <3>3 DEF PriceSeen, NoPriceSeen, VariantFails, TokenCapHit
    <3>. QED  BY <2>6, <3>2, <3>3 DEF AskVision
  <2>7. CASE Emit \/ Return \/ UNCHANGED vars
    BY <2>7 DEF Emit, Return, vars
  <2>. QED
    BY <2>1, <2>2, <2>3, <2>4, <2>5, <2>6, <2>7 DEF Next, Rungs, Done
<1>. QED  BY <1>2, <1>3, <1>4

(* Once the assist has had the screenshot priced the vision rung never does,  *)
(* whatever is retried; and no rung calls for a price more often than its own *)
(* retry allows.                                                              *)
THEOREM PaidLooks == Spec => NotPaidAgain
<1>1. Init => CallsSoFar
  BY DEF Init, CallsSoFar
<1>2. IInv /\ CallsSoFar /\ [Next]_vars => CallsSoFar'
  BY CallsStep
<1>3. CallsSoFar' => \A rung \in DOMAIN MostCalls : looks'[rung] <= MostCalls[rung]
  BY DEF CallsSoFar, MostCalls
<1>4. IInv /\ CallsSoFar /\ [Next]_vars =>
        [/\ looks.assist > 0 => looks'.look = looks.look
         /\ \A rung \in DOMAIN MostCalls : looks'[rung] <= MostCalls[rung]]_vars
  BY <1>2, <1>3, LookKept
<1>. QED  BY <1>1, <1>2, <1>4, LadderInvariant, PTL DEF Spec, NotPaidAgain

=============================================================================

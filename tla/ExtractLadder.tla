--------------------------- MODULE ExtractLadder ---------------------------
(***************************************************************************)
(* One extraction of a price from a page snapshot: extract_price and       *)
(* extract_with_llm of core/extractor.py.  The extraction climbs a ladder  *)
(* from what the page text says outright to ever dearer questions to the   *)
(* models; the first rung that has a candidate lets it out through the     *)
(* guards, and nothing below it is tried.                                  *)
(*                                                                         *)
(* What a model answers is the environment's choice, and so is what the    *)
(* text of the page yields.  Prices themselves are not told apart: a       *)
(* candidate has one or has not.                                           *)
(***************************************************************************)
EXTENDS VisionCall

Init ==
    /\ conf \in Settings
    /\ page \in Pages
    /\ pc = "start"
    /\ verdict = NoVerdict
    /\ tried = {}
    /\ look = NoLook
    /\ left = 0
    /\ spent = 0
    /\ out = Unpriced("none")
    /\ looks = [look |-> 0, assist |-> 0, multi |-> 0]
    /\ doubted = FALSE

(* What every rung leaves alone.                                             *)
Fixed == UNCHANGED <<conf, page>>
NoLooking == UNCHANGED <<look, looks>>
NothingLetOut == UNCHANGED <<verdict, out, doubted>>

MovesTo(rung) == pc' = rung /\ NothingLetOut

-----------------------------------------------------------------------------
(* Before the ladder                                                         *)

(* Skyscanner: the parser of the service goes first and takes its time; what *)
(* it finds is the result as it stands, and the clock is not looked at.      *)
ServiceParser ==
    /\ pc = "start" /\ ~conf.google
    /\ Spends
    /\ \/ /\ out' = [Found("heuristic_skyscanner_service", 2) EXCEPT !.guard = "pass"]
          /\ pc' = "done"
          /\ UNCHANGED <<verdict, doubted>>
       \/ MovesTo("guards")
    /\ Fixed /\ NoLooking /\ UNCHANGED <<tried, left>>

RouterOff ==
    /\ pc = "start" /\ conf.google /\ ~conf.plugin
    /\ MovesTo("guards")
    /\ Fixed /\ NoLooking /\ UNCHANGED <<tried, left, spent>>

(* The guard of the plugin router knows no verdict: a route is bound when    *)
(* the page carries its words.                                               *)
RouterSupport == IF conf.known /\ page.words THEN "strong" ELSE "none"

(* The candidate of the router through its scope guard.                      *)
RouterGuarded(c, vision, text, grounded) ==
    IF page.elsewhere THEN Failed(c)
    ELSE Guarded(c, vision, text, RouterSupport, RouterSupport = "strong", grounded)

(* And through the route gate behind the router, whose verdict is computed   *)
(* for it alone and without a budget.                                        *)
RouterGated(c, reading) ==
    IF conf.known /\ c.price
      THEN RouteGate(c, VerdictOf(reading, FALSE), conf.strong, conf.closed)
      ELSE c

(* run_plugin_extraction_router: a price that passes is returned at once;    *)
(* otherwise the clock is looked at.                                         *)
PluginRouter ==
    /\ pc = "start" /\ conf.google /\ conf.plugin
    /\ Spends
    /\ \/ \E rank \in 1..3, brittle \in BOOLEAN, vision \in VisionSays,
             text \in TextSays, grounded \in BOOLEAN, reading \in FormReadings :
            LET c == [Found("plugin", rank) EXCEPT !.brittle = brittle]
            IN  /\ out' = RouterGated(
                      Normalized(RouterGuarded(c, vision, text, grounded)), reading)
                /\ out'.price
                /\ pc' = "done"
                /\ doubted' = Doubts(vision, text)
                /\ UNCHANGED verdict
       \/ MovesTo("capped_or_guards")
    /\ Fixed /\ NoLooking /\ UNCHANGED <<tried, left>>

AfterRouter ==
    /\ pc = "capped_or_guards"
    /\ IF CapHit
         THEN /\ out' = Unpriced("watchdog") /\ pc' = "done"
              /\ UNCHANGED <<verdict, doubted>>
         ELSE MovesTo("guards")
    /\ Fixed /\ NoLooking /\ UNCHANGED <<tried, left, spent>>

-----------------------------------------------------------------------------
(* The page text                                                             *)

(* pre_guard and fast_scope_guard; in light mode the quality of a long page  *)
(* may have been put to the text model before.                               *)
PageGuards ==
    /\ pc = "guards"
    /\ IF conf.light THEN Spends ELSE UNCHANGED spent
    /\ IF page.package \/ (conf.google /\ page.elsewhere)
         THEN Give(Failed(Unpriced("heuristic_guard")))
         ELSE MovesTo("text")
    /\ Fixed /\ NoLooking /\ UNCHANGED <<tried, left>>

(* The embedded data, the text with the words of the route, the chunks.      *)
TextSources ==
    {"heuristic_html"} \cup (IF conf.google THEN {"heuristic_embedded"} ELSE {})
                       \cup (IF conf.chunks > 0 THEN {"heuristic_chunk"} ELSE {})

PageText ==
    /\ pc = "text"
    /\ Spends
    /\ \/ \E src \in TextSources : Offer(Found(src, 1))
       \/ MovesTo("probe")
    /\ Fixed /\ NoLooking /\ UNCHANGED <<tried, left>>

AfterProbe ==
    IF conf.multi \in {"primary", "judge_primary"} THEN "primary"
    ELSE IF conf.light THEN "light_look" ELSE "text_model"

(* _maybe_dom_price_probe: any price of the page, when the route is strongly *)
(* bound.  It runs here once; the later call finds its flag set.             *)
DomProbe ==
    /\ pc = "probe"
    /\ tried' = tried \cup {"probe"}
    /\ Spends
    /\ IF ~(conf.google /\ conf.known) THEN MovesTo(AfterProbe)
       ELSE \/ \E reading \in FormReadings :
                 /\ Cached(reading).support = "strong"
                 /\ RouteAsked(reading)
                 /\ out' = Found("heuristic_dom_probe", 1)
                 /\ pc' = "emit" /\ UNCHANGED doubted
            \/ /\ \E reading \in FormReadings : RouteAsked(reading)
               /\ pc' = AfterProbe
               /\ UNCHANGED <<out, doubted>>
    /\ Fixed /\ NoLooking /\ UNCHANGED left

-----------------------------------------------------------------------------
(* The models                                                                *)

(* _maybe_multimodal_extract: the screenshot together with the page; in the  *)
(* judge modes the text model must not reject the price.                     *)
AsksBoth == "multi" \notin tried /\ conf.multi # "off" /\ conf.shot

Multimodal(next) ==
    /\ tried' = tried \cup {"multi"}
    /\ IF AsksBoth THEN PricedBy("multi") ELSE UNCHANGED looks
    /\ Spends
    /\ \/ /\ AsksBoth
          /\ \E rank \in 1..3, brittle \in BOOLEAN, affirmed \in BOOLEAN,
                judged \in {"accept", "reject", "unknown"} :
               /\ conf.multi \in {"judge", "judge_primary"} =>
                    judged = "accept" \/ (judged = "unknown" /\ ~conf.shut)
               /\ Offer([Found("vlm_multimodal", rank) EXCEPT
                            !.brittle = brittle, !.affirmed = affirmed])
       \/ MovesTo(next)
    /\ Fixed /\ UNCHANGED <<look, left>>

MultimodalFirst == pc = "primary" /\ Multimodal(IF conf.light THEN "light_look"
                                                ELSE "text_model")

(* _maybe_vlm_extract: once in an extraction.                                *)
VisionRung(next) ==
    /\ tried' = tried \cup {"look"}
    /\ IF "look" \in tried \/ ~conf.vlm \/ ~conf.shot
         THEN MovesTo(next) /\ NoLooking
         ELSE BeginLook("look", next) /\ NothingLetOut
    /\ Fixed /\ UNCHANGED <<left, spent>>

LightLook ==
    /\ pc = "light_look"
    /\ IF conf.lookLight THEN VisionRung("light_text")
       ELSE /\ MovesTo("light_text")
            /\ Fixed /\ NoLooking /\ UNCHANGED <<tried, left, spent>>

(* parse_html_with_llm: a price, a miss, or a failed request, after which    *)
(* the chunks are not tried.                                                 *)
AskText(afterMiss, afterFailure) ==
    /\ Spends
    /\ \/ \E rank \in 1..3, brittle \in BOOLEAN :
            Offer([Found("llm", rank) EXCEPT !.brittle = brittle])
          /\ UNCHANGED left
       \/ MovesTo(afterMiss) /\ left' = conf.chunks
       \/ MovesTo(afterFailure) /\ left' = 0
    /\ Fixed /\ NoLooking /\ UNCHANGED tried

(* In light mode the text model is only asked about a page that looks like   *)
(* carrying prices.                                                          *)
LightText ==
    /\ pc = "light_text"
    /\ \/ AskText("light_chunks", "light_chunks")
       \/ /\ MovesTo("light_multi")
          /\ Fixed /\ NoLooking /\ UNCHANGED <<tried, left, spent>>

TextModel == pc = "text_model" /\ AskText("assist", "assist")

(* The best chunks of a long page, one at a time.                            *)
AskChunk(next) ==
    /\ Fixed /\ NoLooking /\ UNCHANGED tried
    /\ IF left = 0 THEN MovesTo(next) /\ UNCHANGED <<left, spent>>
       ELSE /\ Spends
            /\ left' = left - 1
            /\ \/ \E rank \in 1..3, brittle \in BOOLEAN :
                    Offer([Found("llm_chunk", rank) EXCEPT !.brittle = brittle])
               \/ UNCHANGED pc /\ NothingLetOut

LightChunks == pc = "light_chunks" /\ AskChunk("light_multi")
Chunks == pc = "chunks" /\ AskChunk("multi")

MultimodalAfter(rung, next) ==
    /\ pc = rung
    /\ IF conf.multi \in {"assist", "judge"} THEN Multimodal(next)
       ELSE MovesTo(next) /\ Fixed /\ NoLooking /\ UNCHANGED <<tried, left, spent>>

LightMultimodal == MultimodalAfter("light_multi", "light_end")
MultimodalLast == MultimodalAfter("multi", "nothing")

(* light_mode_skip_llm_extract ends the light ladder here.                   *)
LightEnd ==
    /\ pc = "light_end"
    /\ IF conf.skipText THEN Give(Unpriced("heuristic_html"))
                        ELSE MovesTo("text_model")
    /\ Fixed /\ NoLooking /\ UNCHANGED <<tried, left, spent>>

AssistFlagsAlone(asked) == tried' = tried \cup {"assist"}

(* The flags after the assist: a vision rung below does not pay for the same *)
(* screenshot again.                                                         *)
AssistFlags(asked) == tried' = tried \cup (IF asked THEN {"assist", "look"} ELSE {"assist"})

(* _maybe_vision_price_assist: the screenshot is priced when the route is    *)
(* bound as strongly as required.                                            *)
VisionAssist ==
    /\ pc = "assist"
    /\ Spends
    /\ Fixed /\ UNCHANGED <<left, out, doubted>>
    /\ IF "assist" \notin tried /\ conf.google /\ conf.known /\ conf.shot
         THEN \E reading \in FormReadings :
                LET asks == AcceptedBound(Cached(reading), conf.strong)
                IN  /\ RouteAsked(reading)
                    /\ AssistFlags(asks)
                    /\ IF asks THEN BeginLook("assist", "look")
                       ELSE pc' = "look" /\ NoLooking
         ELSE /\ AssistFlags(FALSE)
              /\ pc' = "look" /\ NoLooking /\ UNCHANGED verdict

VisionAfter == pc = "look" /\ VisionRung("chunks")

NothingFound ==
    /\ pc = "nothing"
    /\ Give(Unpriced("llm"))
    /\ Fixed /\ NoLooking /\ UNCHANGED <<tried, left, spent>>

-----------------------------------------------------------------------------
(* The end of extract_price: a result that comes after the cap is dropped.   *)
ReturnAnyway == pc = "return" /\ pc' = "done"
                /\ UNCHANGED <<conf, page, verdict, tried, look, left, spent,
                               out, looks, doubted>>

Return ==
    /\ pc = "return"
    /\ pc' = "done"
    /\ out' = IF CapHit THEN Unpriced("watchdog") ELSE out
    /\ UNCHANGED <<conf, page, verdict, tried, look, left, spent, looks,
                   doubted>>

Done == pc = "done" /\ UNCHANGED vars

Rungs ==
    \/ ServiceParser \/ RouterOff \/ PluginRouter \/ AfterRouter
    \/ PageGuards \/ PageText \/ DomProbe
    \/ MultimodalFirst \/ LightLook \/ LightText \/ LightChunks
    \/ LightMultimodal \/ LightEnd
    \/ TextModel \/ VisionAssist \/ VisionAfter \/ Chunks
    \/ MultimodalLast \/ NothingFound
    \/ AskVision \/ Emit \/ Return

Next == Rungs \/ Done
Spec == Init /\ [][Next]_vars /\ WF_vars(Rungs)

-----------------------------------------------------------------------------
(* Properties                                                                *)

Published == pc = "done" /\ out.price

(* Whatever rung it comes from, a Google Flights price with more than low    *)
(* confidence belongs to a page whose route is strongly bound: the gate of   *)
(* _emit and the gate behind the plugin router agree on that.                *)
StrongPricesOnly ==
    Published /\ conf.google /\ conf.known /\ out.rank > 1 =>
        out.support = "strong"

(* Where a mismatch closes the gate, no price of a page whose form shows     *)
(* another route comes out, whatever the models saw on it.                   *)
MisboundNeverPriced ==
    Published /\ conf.google /\ conf.known /\ conf.closed =>
        Contradicted(page.form) = {}

(* A price of a page that both scope probes hold for no flight page is only  *)
(* let out when the route speaks for it: the strong verdict of the ladder,   *)
(* or the words of the route that the guard of the plugin router goes by.    *)
DoubtedPriceNeedsRoute ==
    Published /\ doubted =>
        out.support = "strong" \/ (out.src = "plugin" /\ page.words)

(* Once the clock of the extraction has run out the ladder hands over no     *)
(* price, whichever rung, retry or guard took the time; only what goes       *)
(* before the ladder, the plugin router and the parser of Skyscanner,        *)
(* returns its price without looking at the clock again.                     *)
BeforeLadder == {"plugin", "heuristic_skyscanner_service"}
LadderNeverLate == Published /\ CapHit => out.src \in BeforeLadder

(* "Avoid paying for the same image twice via generic VLM fallback": once    *)
(* the assist has had the screenshot priced the vision rung never does.  And *)
(* no rung comes back to it: a rung makes one call, the two that carry the   *)
(* budget one more after a time-out, the multimodal one none.                *)
MostCalls == [look |-> 2, assist |-> 2, multi |-> 1]

NotPaidAgain ==
    [][/\ looks.assist > 0 => looks'.look = looks.look
       /\ \A rung \in DOMAIN MostCalls : looks'[rung] <= MostCalls[rung]]_vars

(* Every extraction comes to an end, whatever the models answer and however  *)
(* often they time out.                                                      *)
Answers == <>(pc = "done")
=============================================================================

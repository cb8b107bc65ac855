----------------------------- MODULE VisionCall -----------------------------
(***************************************************************************)
(* Asking the vision model for the price on the screenshot                 *)
(* (parse_image_with_vlm of llm/code_model.py, and its two callers in      *)
(* core/extractor.py): the image variants, the retries after an answer     *)
(* that hit the token cap, the second round after an answer that calls for *)
(* one, and what a timeout does to a call that carries a budget.           *)
(***************************************************************************)
EXTENDS LadderState

(* The vision model is about to be asked: asker is the rung, next the rung   *)
(* that follows when nothing comes of it.                                    *)
Look(asker, next) ==
    [asker |-> asker, next |-> next, round |-> 1, variant |-> 1, retry |-> 0,
     budgeted |-> TRUE]

(* The rung has the screenshot priced once more: the call counts, however    *)
(* many variants and rounds it asks the question in.                         *)
PricedBy(asker) == looks' = [looks EXCEPT ![asker] = @ + 1]

BeginLook(asker, next) ==
    /\ look' = Look(asker, next)
    /\ PricedBy(asker)
    /\ pc' = "asking"

Asking == pc = "asking" /\ Spends

(* The call ends without a candidate and the ladder goes on.                 *)
NothingSeen ==
    /\ pc' = look.next /\ look' = NoLook
    /\ UNCHANGED <<verdict, out, doubted>>

Source == IF look.asker = "assist" THEN "vision_price_assist" ELSE "vlm"

(* The prices validate_vlm_candidate lets through, the quoted text and the   *)
(* verification being the models' choice; only the look of the vision rung   *)
(* carries a quoted text.                                                    *)
Candidate(rank, shown, judged) ==
    IF conf.google /\ conf.known
      THEN Validated(Found(Source, rank), shown, judged, conf.shut)
      ELSE {Found(Source, rank)}

ShownPrices == IF look.asker = "look" THEN {"no_text", "same", "other_price"}
                                      ELSE {"no_text"}

(* A price was read.  A verification that rejects it ends the extraction     *)
(* without one: the rungs below are not tried.                               *)
PriceSeen ==
    /\ Asking
    /\ \E rank \in 1..3, shown \in ShownPrices,
          judged \in {"accept", "reject", "unknown"} :
         LET found == Candidate(rank, shown, judged)
         IN  IF found = {} THEN NothingSeen
             ELSE /\ look' = NoLook
                  /\ \A c \in found : IF c.price THEN Offer(c) ELSE Give(c)
    /\ UNCHANGED <<conf, page, tried, left, looks>>

(* The answer says there is no price: for a reason that calls for a second   *)
(* round, because the page shows no flights, or for any other.               *)
NoPriceSeen ==
    /\ Asking
    /\ \/ /\ look.round = 1
          /\ look' = [look EXCEPT !.round = 2, !.variant = 1, !.retry = 0]
          /\ UNCHANGED <<pc, verdict, out, doubted>>
       \/ /\ look.asker = "look"
          /\ look' = NoLook
          /\ Give(IF conf.google THEN Failed(Unpriced("vlm")) ELSE Unpriced("vlm"))
       \/ NothingSeen
    /\ UNCHANGED <<conf, page, tried, left, looks>>

(* The answer could not be used, or the call failed in a way that leaves the *)
(* next variant to be tried; the circuit of the model is closed for it.      *)
VariantFails ==
    /\ Asking
    /\ IF look.variant < Variants
         THEN /\ look' = [look EXCEPT !.variant = @ + 1, !.retry = 0]
              /\ UNCHANGED <<pc, verdict, out, doubted>>
         ELSE NothingSeen
    /\ UNCHANGED <<conf, page, tried, left, looks>>

(* The answer hit the token cap: once more with more tokens.                 *)
TokenCapHit ==
    /\ Asking
    /\ look.retry < TokenRetries
    /\ look' = [look EXCEPT !.retry = @ + 1]
    /\ UNCHANGED <<pc, conf, page, verdict, tried, left, out, looks, doubted>>

CallTimesOutAgain ==
    /\ Asking
    /\ IF look.budgeted
         THEN /\ look' = Look(look.asker, look.next)
              /\ UNCHANGED <<pc, verdict, out, doubted>>
         ELSE NothingSeen
    /\ UNCHANGED <<conf, page, tried, left, looks>>

(* The call timed out or found the circuit open.  With a budget the code     *)
(* means to note the open circuit there, passes an argument that method does *)
(* not take, and both callers take the TypeError for an older signature:     *)
(* they ask again, without a limit and without the budget.                   *)
CallTimesOut ==
    /\ Asking
    /\ IF look.budgeted
         THEN /\ look' = [Look(look.asker, look.next) EXCEPT !.budgeted = FALSE]
              /\ PricedBy(look.asker)
              /\ UNCHANGED <<pc, verdict, out, doubted>>
         ELSE NothingSeen /\ UNCHANGED looks
    /\ UNCHANGED <<conf, page, tried, left>>

AskVision ==
    PriceSeen \/ NoPriceSeen \/ VariantFails \/ TokenCapHit \/ CallTimesOut
=============================================================================

----------------------------- MODULE MCSalvage -----------------------------
(* Salvage with small prices, three moments of the candidate's budget and    *)
(* fast and slow extractions.                                                *)
EXTENDS Salvage

MCPrices == {100}
MCStartTimes == {<<0, 0>>, <<100, 100>>, <<0, 1750>>, <<250, 1900>>}
=============================================================================

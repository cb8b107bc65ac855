-------------------------- MODULE MCExtractLadder --------------------------
(* ExtractLadder on small sets: Google Flights in both modes with every      *)
(* combination of the rungs that can be switched, a clock of one or two      *)
(* model calls or none, Skyscanner, and an extraction without a route.       *)
EXTENDS ExtractLadder

Full ==
    [google |-> TRUE, light |-> FALSE, skipText |-> TRUE, lookLight |-> TRUE,
     vlm |-> TRUE, multi |-> "off", plugin |-> FALSE, known |-> TRUE,
     shot |-> TRUE, strong |-> TRUE, closed |-> TRUE, shut |-> FALSE,
     chunks |-> 0, cap |-> 0]

MCSettings ==
    {[Full EXCEPT !.light = l, !.skipText = s, !.chunks = n, !.multi = m] :
       l \in BOOLEAN, s \in BOOLEAN, n \in {0, 1}, m \in {"off", "assist"}}
    \cup {[Full EXCEPT !.plugin = TRUE, !.cap = k, !.strong = g, !.closed = c] :
            k \in {0, 2}, g \in BOOLEAN, c \in BOOLEAN}
    \cup {[Full EXCEPT !.multi = m, !.shut = d, !.chunks = 2, !.cap = 2] :
            m \in {"primary", "judge", "judge_primary"}, d \in BOOLEAN}
    \cup {[Full EXCEPT !.google = FALSE, !.light = l, !.cap = 1, !.vlm = v,
                       !.skipText = FALSE] : l \in BOOLEAN, v \in BOOLEAN}
    \cup {[Full EXCEPT !.known = FALSE, !.plugin = p, !.shot = h] :
            p \in BOOLEAN, h \in BOOLEAN}
    \cup {[Full EXCEPT !.light = TRUE, !.shot = FALSE, !.plugin = TRUE,
                       !.lookLight = FALSE, !.shut = TRUE]}

Read(o, d, t) == [f \in Fields |-> CASE f = "origin" -> o [] f = "dest" -> d
                                     [] OTHER -> t]
MCForms ==
    {Read("match", "match", "match"), Read("match", "match", "unread"),
     Read("match", "match", "differs"), Read("match", "unread", "match"),
     Read("unread", "unread", "unread")}

MCPages ==
    {[form |-> f, package |-> FALSE, elsewhere |-> FALSE, words |-> w] :
       f \in MCForms, w \in BOOLEAN}
    \cup {[form |-> Read("match", "match", "match"), package |-> p,
           elsewhere |-> ~p, words |-> TRUE] : p \in BOOLEAN}

Says(s) == [says |-> s, given |-> TRUE]
MCTextOpinions ==
    {Says({}), Says({"flight"}), Says({"package"}), Says({"irrelevant"})}
MCVisionOpinions ==
    {NoOpinion, Says({}), Says({"flight"}), Says({"package"}),
     Says({"flight", "package"})}
=============================================================================

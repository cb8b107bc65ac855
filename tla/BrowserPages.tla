---------------------------- MODULE BrowserPages ----------------------------
(***************************************************************************)
(* The pages of one BrowserSession (core/browser/session.py): which page   *)
(* the session drives, which pages its guards close, and how it gets hold  *)
(* of a page again after the one it drove has gone.  People and scripts    *)
(* open, close and navigate pages at any time.                             *)
(***************************************************************************)
EXTENDS Integers, FiniteSets

CONSTANTS
    TabUrls,    \* what a new tab may show
    NavUrls,    \* where a page may be led
    Pages,      \* identities of pages, in the order the context lists them
    EnvMoves,   \* bound: what the people and the pages may do in one behaviour
    Calls       \* bound: calls of the session by the scenario

ASSUME PagesAssumption ==
    /\ IsFiniteSet(Pages) /\ Pages = 1 .. Cardinality(Pages) /\ 1 \in Pages
    /\ TabUrls \cup NavUrls \subseteq {"blank", "site", "overlay", "gate", "away", "ad"}
    /\ EnvMoves \in Nat
    /\ Calls \in Nat

NoPage == 0

(* What a URL is for the guards: about:blank and other schemes without a     *)
(* host, a page of the site (same host, subdomain, root or brand), such a    *)
(* page under a challenge, a URL of the site that names its challenge, a     *)
(* page of another host, and an advertisement host.                          *)
Urls == {"blank", "site", "overlay", "gate", "away", "ad"}

Host(url) == CASE url \in {"site", "overlay", "gate"} -> "site"
               [] url = "blank" -> "none"
               [] OTHER -> url

VARIABLES
    tabs,        \* page -> [st : "unborn", "open" or "closed", url]
    primary,     \* self.page
    helpers,     \* the page the eight helper objects were built for
    expected,    \* _expected_new_pages
    unseen,      \* pages whose page event has not been handled
    up,          \* playwright: "down", "up", or "leaked" by a failed __enter__
    guardClosed, \* history: pages that a guard of the session has closed
    moves        \* what is left of EnvMoves

pageVars == <<tabs, primary, helpers, expected, unseen, up, guardClosed, moves>>

Open(p) == p \in Pages /\ tabs[p].st = "open"
Url(p) == IF p = NoPage THEN "none" ELSE tabs[p].url
OpenPages == {p \in Pages : Open(p)}

(* Pages are numbered in the order in which the context opens them.          *)
Unborn == {p \in Pages : tabs[p].st = "unborn"}
OpensNext(p) == p \in Unborn /\ \A q \in Unborn : p <= q

(* is_verification_surface: by the URL, that a closed page keeps, or by what *)
(* is visible, that only an open page can be asked for.                      *)
Surface(p) == Url(p) = "gate" \/ (Open(p) /\ Url(p) = "overlay")

(* May a page take the place of one that showed preferred?                   *)
AuxPageAllowed(url, preferred) ==
    /\ url \notin {"blank", "ad"}
    /\ url = "gate" \/ preferred \in {"blank", "none"} \/ Host(url) = Host(preferred)

(* A page nobody expects is closed unless it may stand in for the primary.   *)
ShouldClose(url, primaryUrl) ==
    \/ url = "blank"
    \/ primaryUrl = "none"
    \/ ~AuxPageAllowed(url, primaryUrl)

-----------------------------------------------------------------------------
(* The guards.                                                               *)

Others == OpenPages \ {primary}

(* A sweep takes the pages in order: the first ones answer the expected new  *)
(* pages, of the others those that should be closed are.                     *)
Spared == {p \in Others : Cardinality({q \in Others : q < p}) < expected}
SweptAway == {p \in Others \ Spared : ShouldClose(tabs[p].url, Url(primary))}

Closed(set) == [p \in Pages |-> IF p \in set THEN [tabs[p] EXCEPT !.st = "closed"] ELSE tabs[p]]

SinglePagePolicy ==
    /\ tabs' = Closed(SweptAway)
    /\ guardClosed' = guardClosed \cup SweptAway
    /\ expected' = IF expected > Cardinality(Others) THEN expected - Cardinality(Others) ELSE 0

(* The page event of the context, for a page that may be gone already.       *)
PageOpened(p) ==
    /\ up = "up" /\ p \in unseen
    /\ unseen' = unseen \ {p}
    /\ \/ /\ p = primary
          /\ UNCHANGED <<tabs, expected, guardClosed>>
       \/ /\ p # primary /\ expected > 0
          /\ expected' = expected - 1
          /\ UNCHANGED <<tabs, guardClosed>>
       \/ /\ p # primary /\ expected = 0
          /\ LET gone == {q \in {p} \cap OpenPages : ShouldClose(Url(q), Url(primary))}
             IN /\ tabs' = Closed(gone)
                /\ guardClosed' = guardClosed \cup gone
          /\ UNCHANGED expected
    /\ UNCHANGED <<primary, helpers, up, moves>>

(* The event gets lost: the sweeps are there for that.                       *)
PageMissed ==
    /\ up = "up"
    /\ \E p \in unseen : unseen' = unseen \ {p}
    /\ UNCHANGED <<tabs, primary, helpers, expected, up, guardClosed, moves>>

-----------------------------------------------------------------------------
(* Getting hold of a page again.                                             *)

Rank(p) == (IF Url(p) = "gate" THEN 1 ELSE 0)
           + (IF Host(Url(p)) = Host(Url(primary)) THEN 5 ELSE 0)

Adopt(p) == primary' = p /\ helpers' = p

RebindCandidates == {p \in OpenPages : AuxPageAllowed(Url(p), Url(primary))}

(* Within the manual window: the first of the best live pages that is        *)
(* allowed in the place of the one that went.                                *)
Rebind ==
    \E p \in RebindCandidates :
        /\ \A q \in RebindCandidates : Rank(q) < Rank(p) \/ (Rank(q) = Rank(p) /\ p <= q)
        /\ Adopt(p)

(* After the window: the last live page whatever it shows ...                *)
RecoverLive ==
    /\ OpenPages # {}
    /\ Adopt(CHOOSE p \in OpenPages : \A q \in OpenPages : q <= p)
    /\ UNCHANGED <<tabs, expected, unseen, guardClosed>>

RecoverUnannounced ==
    /\ OpenPages = {}
    /\ \E p \in Pages :
         /\ OpensNext(p)
         /\ tabs' = [tabs EXCEPT ![p] = [st |-> "open", url |-> "blank"]]
         /\ unseen' = unseen \cup {p}
    /\ UNCHANGED <<primary, helpers, guardClosed, expected>>

(* ... or a new page, that the page event has to know of beforehand.         *)
RecoverOpen ==
    /\ OpenPages = {}
    /\ \E p \in Pages :
         /\ OpensNext(p)
         /\ tabs' = [tabs EXCEPT ![p] = [st |-> "open", url |-> "blank"]]
         /\ unseen' = unseen \cup {p}
    /\ expected' = expected + 1
    /\ UNCHANGED <<primary, helpers, guardClosed>>

RecoverFails ==
    /\ OpenPages = {}
    /\ UNCHANGED <<tabs, primary, helpers, expected, unseen, guardClosed>>

-----------------------------------------------------------------------------
(* __enter__ and __exit__.                                                   *)

Enter ==
    \/ /\ up' = "up"
       /\ tabs' = [tabs EXCEPT ![1] = [st |-> "open", url |-> "blank"]]
       /\ Adopt(1)
    \/ /\ up' = "leaked"    \* raised after playwright.start(): nobody calls __exit__
       /\ UNCHANGED <<tabs, primary, helpers>>

Exit ==
    /\ up' = "down"
    /\ tabs' = Closed(OpenPages)
    /\ primary' = NoPage
    /\ expected' = 0 /\ unseen' = {}
    /\ UNCHANGED <<helpers, guardClosed>>

-----------------------------------------------------------------------------
(* What people and pages do.  A tab opens only from a page that is open.     *)

MoveOn == moves > 0 /\ moves' = moves - 1

TabOpens ==
    /\ up = "up" /\ MoveOn /\ OpenPages # {}
    /\ \E p \in Pages, url \in TabUrls :
         /\ OpensNext(p)
         /\ tabs' = [tabs EXCEPT ![p] = [st |-> "open", url |-> url]]
         /\ unseen' = unseen \cup {p}
    /\ UNCHANGED <<primary, helpers, expected, up, guardClosed>>

TabCloses ==
    /\ up = "up" /\ MoveOn
    /\ \E p \in OpenPages : tabs' = Closed({p})
    /\ UNCHANGED <<primary, helpers, expected, unseen, up, guardClosed>>

(* The verification page gives way to the page behind it, comes back, or     *)
(* somebody follows a link to another host.                                  *)
TabNavigates ==
    /\ up = "up" /\ MoveOn
    /\ \E p \in OpenPages, url \in NavUrls :
         /\ url # Url(p)
         /\ tabs' = [tabs EXCEPT ![p].url = url]
    /\ UNCHANGED <<primary, helpers, expected, unseen, up, guardClosed>>
=============================================================================

-------------------------- MODULE MCBrowserSession --------------------------
(* A small instance of BrowserSession, and what is asked of it.            *)
EXTENDS BrowserSession

MCPages == 1 .. 2
MCSettings ==
    {[mode |-> m, lastResort |-> m = "off", headless |-> FALSE] : m \in {"off", "assist", "demo"}}
MCOverrides == {"", "assist"}
ObserverSettings == {[mode |-> "demo", lastResort |-> FALSE, headless |-> FALSE]}
NoOverrides == {""}
MCTabUrls == {"away", "site"}
MCNavUrls == {"site", "overlay", "gate"}
=============================================================================

----------------------------- MODULE MCEndpoint -----------------------------
(* Instances of Endpoint for TLC.                                            *)
EXTENDS Endpoint, TLC

CONSTANTS p, q, s, t

\* A peer that authenticates and one of another kind, served by one Sessions call.
served(by, other) ==
    [carrier |-> by, kind |-> (p :> "good") @@ (q :> other), callers |-> {s},
     cancels |-> FALSE, closes |-> FALSE, faults |-> FALSE, probing |-> FALSE]

\* Every carrier with every kind of peer; a server that closes; a mute peer that
\* KeepAlive keeps; a Sessions call that is cancelled and another that takes over;
\* failing system calls.
MCEnvironments ==
    {served(by, other) : by \in Carriers, other \in Kinds}
    \cup {[served(by, other) EXCEPT !.closes = TRUE] : by \in Carriers, other \in {"bad", "silent"}}
    \cup {[served("quic", "mute") EXCEPT !.closes = closes, !.cancels = ~closes, !.probing = TRUE] : closes \in BOOLEAN}
    \cup {[served(by, "good") EXCEPT !.closes = TRUE, !.cancels = TRUE, !.callers = {s, t}] : by \in Carriers}
    \cup {[served(by, "bad") EXCEPT !.faults = TRUE] : by \in Carriers}
=============================================================================

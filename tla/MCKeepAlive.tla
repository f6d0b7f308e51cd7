---------------------------- MODULE MCKeepAlive -----------------------------
(* Instances of KeepAlive for TLC.                                           *)
EXTENDS KeepAlive

network(latency, start, senders, stalling, vanishing) ==
    [delay |-> latency, skew |-> start, sends |-> senders, stalls |-> stalling, vanishes |-> vanishing]

\* Frames as slow and sessions as far apart as InTime allows, with a peer that may
\* vanish; slower frames; a consumer that may stop reading.
MCNetworks == {
    network(1, 0, {}, {}, TRUE),
    network(0, 1, {}, {}, TRUE),
    network(2, 1, {}, {}, FALSE),
    network(0, 0, {"client"}, {"server"}, FALSE) }
=============================================================================

---------------------------- MODULE MCUnixSocket ----------------------------
(* Instances of UnixSocket for TLC.                                          *)
EXTENDS UnixSocket, TLC

CONSTANTS p1, p2, p3, i1, i2, i3, i4

\* A supervisor that starts one listener at a time, with and without Close; and
\* listeners that compete.
MCHosts ==
    {[exclusive |-> TRUE, closes |-> closing, crashes |-> TRUE] : closing \in BOOLEAN}
    \cup {[exclusive |-> FALSE, closes |-> TRUE, crashes |-> FALSE]}

Symmetric == Permutations(Processes) \cup Permutations(Inodes)
=============================================================================

---------------------------- MODULE MCUnaryCalls ----------------------------
(* Instances of UnaryCalls for TLC.                                          *)
EXTENDS UnaryCalls

CONSTANTS c1, c2, s1

environment(of, sizes, closes, fails) ==
    [calls |-> of, requests |-> sizes, replies |-> sizes, closing |-> closes, linkMayFail |-> fails]

\* Contention for a slot; calls both ways; every size over a link that may fail;
\* both sides closing; one side closing over a link that may fail.
Disturbed == {
    environment({c1, c2}, {"fits"}, {}, FALSE),
    environment({c1, s1}, {"fits"}, {}, FALSE),
    environment({c1}, Sizes, {}, TRUE),
    environment({c1}, {"fits"}, Endpoints, FALSE),
    environment({c1}, {"fits"}, {"client"}, TRUE),
    environment({c1}, {"fits"}, {"server"}, TRUE) }

Closes == {
    environment({c1}, {"fits"}, {"client"}, FALSE),
    environment({c1}, {"fits"}, {"server"}, FALSE) }

\* Results at the limit.
Edge == { [environment({c1}, {"fits"}, {}, FALSE) EXCEPT !.replies = {"edge"}] }
=============================================================================

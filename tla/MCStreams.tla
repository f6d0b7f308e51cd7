----------------------------- MODULE MCStreams -----------------------------
(* Instances of Streams for TLC.                                             *)
EXTENDS Streams

CONSTANTS a, b

\* One stream on which the client sends c messages and half-closes, and a handler
\* that sends s messages and receives to the end.
exchange(c, s) ==
    [streams |-> {a}, messages |-> [client |-> c, server |-> s], oversized |-> {}, halfClosers |-> {"client"},
     receiving |-> Endpoints, closing |-> {}, draining |-> TRUE, cancels |-> FALSE, linkMayFail |-> FALSE]
\* The same without the half-close.
talk(c, s) == [exchange(c, s) EXCEPT !.halfClosers = {}]

\* Both sides half-close; two streams compete for one slot; a handler returns early.
Orderly == {
    [exchange(1, 2) EXCEPT !.halfClosers = Endpoints],
    [exchange(1, 1) EXCEPT !.streams = {a, b}],
    [exchange(0, 2) EXCEPT !.draining = FALSE] }

Closes(x) == {[x EXCEPT !.closing = {"client"}], [x EXCEPT !.closing = {"server"}]}

\* A handler abandons its input; a message is too large; the caller cancels; the
\* network fails; either side closes.
Disturbed ==
    {[exchange(2, 1) EXCEPT !.draining = FALSE], [talk(1, 0) EXCEPT !.oversized = {"client"}]}
    \cup {[x EXCEPT !.cancels = TRUE] : x \in {exchange(1, 1), talk(0, 2)}}
    \cup {[x EXCEPT !.linkMayFail = TRUE] : x \in {exchange(0, 0), talk(0, 1), talk(1, 0)}}
    \cup Closes(exchange(0, 0)) \cup Closes(talk(0, 1))

Served == Orderly \cup Disturbed

\* An application that need not call Recv, so that the second message to it may block
\* the read loop for ever.
deafServer == [talk(2, 0) EXCEPT !.receiving = {"client"}]
deafClient == [talk(0, 2) EXCEPT !.receiving = {"server"}]

\* What must come to an end: an exchange, also over a link that fails while CloseSend
\* waits for room; cancellations with messages in flight both ways and with either read
\* loop blocked; Close during a half-close, and on either side of a blocked read loop.
Ending ==
    {exchange(1, 1), [exchange(1, 0) EXCEPT !.linkMayFail = TRUE], [exchange(0, 0) EXCEPT !.closing = {"client"}]}
    \cup {[x EXCEPT !.cancels = TRUE] : x \in {talk(1, 1), deafServer, deafClient}}
    \cup Closes(deafServer)

\* The disagreements: the caller cancels while the handler sends; the network
\* fails as a stream is acknowledged; a handler closes its sending side and fails.
Cancelled == {[talk(0, 1) EXCEPT !.cancels = TRUE]}
Unacknowledged == {[talk(0, 0) EXCEPT !.linkMayFail = TRUE]}
ClosedThenFailed == {[exchange(0, 0) EXCEPT !.halfClosers = Endpoints]}
=============================================================================

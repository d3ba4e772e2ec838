--------------------------- MODULE MCSendMessage ----------------------------
(* A small instance of SendMessage for TLC. *)
EXTENDS SendMessage

\* A retry that fits under the threshold, and one that is past it for two polls.
MCRetryWaits == {2, 7}

\* The setup message goes to a fresh session, the probe to one that holds the
\* setup turn: a question, an answer, perhaps an ERROR line of that turn.
Fresh    == [log |-> <<>>,
             activity |-> [messages |-> 0, unknown |-> 0, content |-> 0]]
SetUp(l) == [log |-> l,
             activity |-> [messages |-> 2, unknown |-> 1, content |-> 1]]

MCFresh   == {Fresh}
MCEarlier == {Fresh, SetUp(<<>>), SetUp(<<"fatal">>)}
=============================================================================

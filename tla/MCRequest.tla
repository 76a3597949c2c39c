----------------------------- MODULE MCRequest -----------------------------
(* Request on a small instance. *)
EXTENDS Request

CONSTANTS c1, c2

\* The shortest request, one whose header line has MAXLINE - 1 = 2 bytes before its
\* line end, so that the rest of it is taken for the blank line, and one with a header
\* line that buf cuts elsewhere.
Bare == <<"c", "\n", "\r", "\n">>
LongHeader == <<"c", "\n", "c", "c", "\r", "\n", "\r", "\n">>
OneHeader == <<"c", "\n", "c", "\r", "\n", "\r", "\n">>

\* One client sends one of the longer requests, the other the shortest: how one is cut
\* into pieces does not depend on how the other is.
MCInputs == [c \in Requests |-> IF c = c1 THEN {LongHeader, OneHeader} ELSE {Bare}]
=============================================================================

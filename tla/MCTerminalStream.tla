--------------------------- MODULE MCTerminalStream ---------------------------
(* A line of size 2 is too large for an event.                             *)
EXTENDS TerminalStream

CONSTANTS t1, t2

Long  == [t \in {t1, t2} |-> IF t = t1 THEN <<1, 2>> ELSE <<1>>]
Short == [t \in {t1, t2} |-> IF t = t1 THEN <<1>> ELSE <<>>]
=============================================================================

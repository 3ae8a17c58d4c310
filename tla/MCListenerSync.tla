--------------------------- MODULE MCListenerSync ---------------------------
(* Instances of ListenerSync for TLC.                                      *)
EXTENDS ListenerSync

CONSTANTS p1, p2, p3, m1, x1, greece, korea, republic, congo

\* The dashboard asks for listeners that differ in country or in mode; those
\* that no start reads back as they are, not on every port.
MCManaged ==
    [port : Ports, machine : Fleet, country : {greece}, mode : {"rotate"}] \cup
    [port : {p1, p2}, machine : Fleet, country : {korea}, mode : {"sticky"}] \cup
    [port : {p1}, machine : Fleet, country : {congo}, mode : {"sticky"}]

\* korea stands for "Korea, Republic of", republic for what follows the comma.
\* congo for a name with a colon.
WithComma == [c \in Countries |-> IF c = korea THEN republic ELSE None]
=============================================================================

------------------------------ MODULE MCPoller ------------------------------
(***************************************************************************)
(* Instances of Poller for TLC.                                            *)
(***************************************************************************)
EXTENDS Poller

CONSTANTS a, b, na, nb

EachOwn    == [s \in Sources |-> IF s = a THEN na ELSE nb]
Unbounded  == [n \in Notifiers |-> 0]
OneBounded == [n \in Notifiers |-> IF n = na THEN 1 ELSE 0]
Once       == [s \in Sources |-> 1]
ATwice     == [s \in Sources |-> IF s = a THEN 2 ELSE 1]
BTwice     == [s \in Sources |-> IF s = b THEN 2 ELSE 1]
Twice      == [s \in Sources |-> 2]
OnlyA      == [s \in Sources |-> IF s = a THEN 1 ELSE 0]
=============================================================================

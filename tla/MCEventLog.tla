----------------------------- MODULE MCEventLog -----------------------------
(* Small instances of EventLog for TLC. *)
EXTENDS EventLog, TLC

CONSTANTS c1, c2

Sequential == [c \in Controllers |-> IF c = c1 THEN 1 ELSE 2]

\* events.json with the events of the set S, for each controller.
Stored(S) == [i \in Index |-> IF i \in S THEN "event" ELSE "none"]
Gapped == {Nothing, Stored({2})}
=============================================================================

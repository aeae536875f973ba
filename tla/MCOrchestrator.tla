--------------------------- MODULE MCOrchestrator ----------------------------
(***************************************************************************)
(* Small instances of Orchestrator for TLC.                                *)
(***************************************************************************)
EXTENDS Orchestrator, TLC

CONSTANTS t1, t2, s1, s2, s3, c1, c2

\* The first task is the more urgent; both may be started twice.
UrgentFirst == [t \in Tasks |-> IF t = t1 THEN 1 ELSE 0]
Even == [t \in Tasks |-> 0]
Twice == [t \in Tasks |-> 2]
Mixed == [t \in Tasks |-> IF t = t1 THEN 2 ELSE 1]

OneContext == [t \in Tasks |-> c1]
OwnContext == [t \in Tasks |-> IF t = t1 THEN c1 ELSE c2]

SameContext == [c \in Contexts |-> c]
\* An agent launched in c1 reports c2, as for a path that is a link.
Linked == [c \in Contexts |-> c2]

Roomy == [max_concurrent |-> 2, auto_restart |-> TRUE, session_pooling |-> TRUE]
Tight == [max_concurrent |-> 1, auto_restart |-> FALSE, session_pooling |-> FALSE]

RoomyOnly == {Roomy}
RoomyOrTight == {Roomy, Tight}
OneAtATime == {[Roomy EXCEPT !.max_concurrent = 1]}

SessionSymmetry == Permutations(Sessions)
=============================================================================

---------------------------- MODULE MCPublication ----------------------------
(***************************************************************************)
(* Small instances of Publication for TLC.                                 *)
(***************************************************************************)
EXTENDS Publication, TLC

CONSTANTS t1, s1, s2, c1

Even == [t \in Tasks |-> 0]
Once == [t \in Tasks |-> 1]
Twice == [t \in Tasks |-> 2]
OneContext == [t \in Tasks |-> c1]
SameContext == [c \in Contexts |-> c]

RoomyOnly == {[max_concurrent |-> 2, auto_restart |-> TRUE, session_pooling |-> TRUE]}

SessionSymmetry == Permutations(Sessions)
=============================================================================

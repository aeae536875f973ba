-------------------------------- MODULE Ring ---------------------------------
(***************************************************************************)
(* The operations of RingBuffer (ring.rs): a buffer of bytes that keeps    *)
(* the most recent ones.                                                   *)
(***************************************************************************)
EXTENDS Naturals, Sequences

CONSTANTS
    RingFloor,      \* the least capacity: 4096 in the code
    RingBytes       \* the capacity asked for: ring_buffer_bytes of the configuration

ASSUME RingAssumption == RingFloor \in Nat \ {0} /\ RingBytes \in Nat

\* The capacity a new buffer gets.
RingCap == IF RingBytes > RingFloor THEN RingBytes ELSE RingFloor

\* saturating_sub
Minus(m, n) == IF m > n THEN m - n ELSE 0

DropFirst(seq, n) == SubSeq(seq, n + 1, Len(seq))

PushHead(buf, data) ==      \* a slip: of a long chunk the first bytes are kept
    IF Len(data) >= RingCap
    THEN SubSeq(data, 1, RingCap)
    ELSE DropFirst(buf, Minus(Len(buf) + Len(data), RingCap)) \o data

PushLate(buf, data) ==      \* a slip: the room for the new bytes is not made
    IF Len(data) >= RingCap
    THEN DropFirst(data, Len(data) - RingCap)
    ELSE DropFirst(buf, Minus(Len(buf), RingCap)) \o data

\* push: of a chunk as long as the buffer only the tail is kept; else the oldest bytes go.
Push(buf, data) ==
    IF Len(data) >= RingCap
    THEN DropFirst(data, Len(data) - RingCap)
    ELSE DropFirst(buf, Minus(Len(buf) + Len(data), RingCap)) \o data

=============================================================================

----------------------------- MODULE RingIndex -----------------------------
(***************************************************************************)
(* The index arithmetic of RingBufferManager (network/src/                 *)
(* ringbufferchannel/mod.rs), which the shared-memory and the RDMA channel *)
(* share: head and tail are indices of the data area, and one slot stays   *)
(* free so that a full ring is not an empty one.                           *)
(***************************************************************************)
EXTENDS Integers

CONSTANT Capacity     \* bytes in the data area

ASSUME CapacityAssumption == Capacity \in Nat /\ Capacity >= 2

Index == 0..(Capacity - 1)
Min2(a, b) == IF a <= b THEN a ELSE b

NumBytesStored(h, t) == IF t >= h THEN t - h ELSE Capacity - (h - t)

(* Mutant: the slot that tells a full ring from an empty one is used.      *)
IsFull_UsesLastSlot(h, t) == NumBytesStored(h, t) >= Capacity

IsFull(h, t) == NumBytesStored(h, t) >= Capacity - 1

(* Mutant: off by one, the last byte is not seen.                          *)
IsEmpty_OneLeft(h, t) == NumBytesStored(h, t) <= 1

IsEmpty(h, t) == h = t

(* Mutant: always up to the end of the data area.                          *)
ContiguousReadLen_ToEnd(t, curHead) == Capacity - curHead

ContiguousReadLen(t, curHead) ==
  IF t >= curHead THEN t - curHead ELSE Capacity - curHead

(* Mutants: no gap is left before head; head is not looked at.             *)
ContiguousWriteLen_NoGap(h, curTail) ==
  IF curTail >= h THEN Capacity - curTail ELSE h - curTail

ContiguousWriteLen_IgnoresHead(h, curTail) == Capacity - curTail

ContiguousWriteLen(h, curTail) ==
  LET curHead == IF h = 0 THEN Capacity ELSE h
  IN  IF curTail >= curHead THEN Capacity - curTail ELSE curHead - curTail - 1

(* Mutant: the index does not wrap.                                        *)
Advance_NoWrap(i, n) == i + n

Advance(i, n) == (i + n) % Capacity
=============================================================================
